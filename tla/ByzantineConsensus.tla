------------------------- MODULE ByzantineConsensus -------------------------
(***************************************************************************)
(* The leader-based Byzantine consensus of consensus/failnoisy/byzantine:    *)
(* the node (node.go), the read/write epoch consensus of its current epoch    *)
(* (epoch_consensus.go) and that epoch's collector of signed states           *)
(* (conditions_collect.go).                                                 *)
(*                                                                         *)
(* A message of a later epoch waits in the node's inbox and one of an aborted  *)
(* or decided epoch is dropped: a process handles what carries its current    *)
(* epoch, once and in any order.  The node's goroutines are merged where they *)
(* only pass a value on.  When an epoch may start is the business of module   *)
(* ByzantineEpochChange; here it takes one complaint more than there are      *)
(* tolerated faults.  A COLLECTED message lists states, and every process     *)
(* computes from the list the value it is to write: it stands for that value. *)
(***************************************************************************)
EXTENDS Integers, FiniteSets

CONSTANTS
    Correct, Faulty,
    Faults,         \* faults, the number of tolerated ones
    Values,         \* values
    Invalid,        \* those of them the validator refuses
    Proposal,       \* what each correct process proposes
    Leader,         \* the leader of each epoch
    FaultyStates,   \* bound: the states that faulty processes sign
    FaultyValues,   \* bound: the values that they write and accept
    Repeats,        \* do faulty processes send a process more than one WRITE
                    \* and one ACCEPT in an epoch
    Slow,           \* bound: correct processes that handle no WRITE of a valid
                    \* value and no ACCEPT
    None

Procs == Correct \cup Faulty
N == Cardinality(Procs)
Epochs == DOMAIN Leader
initEpoch == 1

VARIABLES
    epoch,      \* currentEpoch of each node
    state,      \* the state the epoch consensus carries from epoch to epoch
    inner,      \* the rest of the current epoch consensus and its collector
    stopped,    \* has the current epoch consensus decided (stopOnce)
    output,     \* what the node has put into decidedOut
    reads,      \* epochs whose leader has sent READ
    sends,      \* <<sender, epoch, state>> of SEND messages to the leader
    collectedMsgs,   \* <<epoch, value to write>> of COLLECTED messages
    writes, accepts, \* <<sender, epoch, value>>
    complaints       \* <<process, epoch>> of calls of OnComplain

msgVars == <<reads, sends, collectedMsgs, writes, accepts, complaints>>
vars == <<epoch, state, inner, stopped, output, msgVars>>

NoEntries == [q \in Procs |-> None]
NoCounts == [v \in Values |-> 0]
NewInner ==
    [proposed |-> FALSE, got |-> {}, messages |-> NoEntries, collected |-> FALSE,
     written |-> NoEntries, writtenCounts |-> NoCounts,
     accepted |-> NoEntries, acceptedCounts |-> NoCounts, deciding |-> {}]

Init ==
    /\ epoch = [p \in Correct |-> 1]
    /\ state = [p \in Correct |-> [epoch |-> initEpoch, value |-> None, writeSet |-> {}]]
    /\ inner = [p \in Correct |-> NewInner]
    /\ stopped = [p \in Correct |-> FALSE]
    /\ output = [p \in Correct |-> None]
    /\ reads = {} /\ sends = {} /\ collectedMsgs = {}
    /\ writes = {} /\ accepts = {} /\ complaints = {}

-----------------------------------------------------------------------------
(* The choice of a value from collected states; ss is a function to states  *)

byzantineQuorumWithoutOne == (N + Faults) \div 2 - 1
byzantineQuorum == (N + Faults) \div 2

\* checkQuorumHighest
QuorumHighest(e, v, ss) ==
    LET same == {i \in DOMAIN ss : ss[i].epoch = e /\ ss[i].value = v}
        older == {i \in DOMAIN ss : ss[i].epoch < e}
    IN  same # {} /\ Cardinality(same \cup older) > byzantineQuorum

\* checkCertified: snapshots are counted, not states.
Certified(e, v, ss) ==
    Cardinality(UNION {{<<i, s>> : s \in {t \in ss[i].writeSet :
        t.value = v /\ t.epoch <= e}} : i \in DOMAIN ss}) > N - Faults

\* checkBinds
Binds(e, v, ss) ==
    /\ Cardinality(DOMAIN ss) <= N - Faults
    /\ QuorumHighest(e, v, ss) /\ Certified(e, v, ss)

\* checkUnbound
Unbound(ss) ==
    /\ Cardinality(DOMAIN ss) <= N - Faults
    /\ Cardinality({i \in DOMAIN ss : ss[i].epoch = initEpoch}) > byzantineQuorum

Bound(ss) == {ss[i].value : i \in {j \in DOMAIN ss :
                 ss[j].value # None /\ Binds(ss[j].epoch, ss[j].value, ss)}}

\* checkSound
Sound(ss) == Unbound(ss) \/ Bound(ss) # {}

\* handleCollected: what it may write, depending on the order of the states.
Picks(ss) ==
    LET defined == {ss[i].value : i \in DOMAIN ss} \ {None} IN
    IF Bound(ss) # {} THEN Bound(ss)
    ELSE IF Unbound(ss) /\ defined # {} THEN defined ELSE {None}

\* A faulty process lists what states it likes: a sender is not looked at twice.
FaultyPicks ==
    UNION {Picks(ss) : ss \in {tt \in [1 .. N - Faults -> FaultyStates] : Sound(tt)}}

-----------------------------------------------------------------------------
(* The node and its epoch consensus *)

\* The event loop of the epoch consensus runs (triggerApply).
Running(p) == ~stopped[p]

MaybePropose(p) == Leader[epoch[p]] = p /\ ~inner[p].proposed

\* handlePropose
Propose(p) ==
    /\ Running(p)
    /\ MaybePropose(p)
    /\ inner' = [inner EXCEPT ![p].proposed = TRUE]
    /\ state' = IF state[p].value = None
                THEN [state EXCEPT ![p].value = Proposal[p]] ELSE state
    /\ reads' = reads \cup {epoch[p]}
    /\ UNCHANGED <<epoch, stopped, output, sends, collectedMsgs, writes, accepts, complaints>>

\* handleRead and the collector's Input.  A faulty leader has no need of states:
\* it can sign any (FaultyStates), so its READ is left out.
HandleRead(p) ==
    /\ Running(p)
    /\ epoch[p] \in reads
    /\ <<"read", Leader[epoch[p]]>> \notin inner[p].got
    /\ inner' = [inner EXCEPT ![p].got = @ \cup {<<"read", Leader[epoch[p]]>>}]
    /\ sends' = sends \cup {<<p, epoch[p], state[p]>>}
    /\ UNCHANGED <<epoch, state, stopped, output, reads, collectedMsgs, writes, accepts, complaints>>

\* checkCollected, with the messages of collector p and what else it has received.
CheckCollected(p, messages, got) ==
    LET from == {r \in Procs : messages[r] # None}
        ss == [r \in from |-> messages[r]]
        complete == Cardinality(from) >= N - Faults /\ Sound(ss)
    IN  /\ inner' = [inner EXCEPT ![p].got = got,
                         ![p].messages = IF complete THEN NoEntries ELSE messages]
        /\ IF complete
           THEN \E v \in Picks(ss) : collectedMsgs' = collectedMsgs \cup {<<epoch[p], v>>}
           ELSE UNCHANGED collectedMsgs

\* The collector's handling of a SEND.
HandleSend(p, q, s) ==
    /\ Leader[epoch[p]] = p
    /\ <<q, epoch[p], s>> \in sends \/ (q \in Faulty /\ s \in FaultyStates)
    /\ <<"send", q>> \notin inner[p].got
    /\ CheckCollected(p, [inner[p].messages EXCEPT ![q] = s], inner[p].got \cup {<<"send", q>>})
    /\ UNCHANGED <<epoch, state, stopped, output, reads, sends, writes, accepts, complaints>>

StartWrite(p, v) ==
    /\ state' = [state EXCEPT ![p].writeSet =
                    {s \in @ : s.value # v} \cup {[epoch |-> epoch[p], value |-> v]}]
    /\ writes' = writes \cup {<<p, epoch[p], v>>}

\* The collector's handling of a COLLECTED, OnCollected and handleCollected.
HandleCollected(p, v) ==
    /\ Running(p)
    /\ ~inner[p].collected
    /\ <<epoch[p], v>> \in collectedMsgs \/ (Faulty # {} /\ v \in FaultyPicks)
    /\ inner' = [inner EXCEPT ![p].collected = TRUE]
    /\ IF v = None THEN UNCHANGED <<state, writes>> ELSE StartWrite(p, v)
    /\ UNCHANGED <<epoch, stopped, output, reads, sends, collectedMsgs, accepts, complaints>>

\* Message kind of q with value v can be handled by p, and then has been.
Receivable(p, kind, q, v, msgs) ==
    /\ Running(p)
    /\ \/ <<q, epoch[p], v>> \in msgs
       \/ q \in Faulty /\ v \in FaultyValues
    /\ <<kind, q>> \notin inner[p].got

Got(p, kind, q) ==
    IF q \in Faulty /\ Repeats THEN inner[p].got ELSE inner[p].got \cup {<<kind, q>>}

\* The validator (a mutant: its error is ignored).
NothingRefused(v) == TRUE
Validate(v) == v \notin Invalid

\* handleWrite of a value the validator refuses.
HandleInvalidWrite(p, q, v) ==
    /\ Receivable(p, "write", q, v, writes)
    /\ ~Validate(v)
    /\ inner' = [inner EXCEPT ![p].got = Got(p, "write", q)]
    /\ complaints' = IF q = Leader[epoch[p]]
                     THEN complaints \cup {<<p, epoch[p]>>} ELSE complaints
    /\ UNCHANGED <<epoch, state, stopped, output, reads, sends, collectedMsgs, writes, accepts>>

\* handleWrite, handleAccept: the values whose messages are more than a Byzantine
\* quorum (a mutant: one more than that).
OverQuorumByTwo(counts) == {v \in Values : counts[v] > byzantineQuorum + 1}
OverQuorum(counts) == {v \in Values : counts[v] > byzantineQuorum}

HandleWrite(p, q, v) ==
    /\ p \notin Slow
    /\ Receivable(p, "write", q, v, writes)
    /\ Validate(v)
    /\ inner[p].written[q] # v
    /\ LET counts == [inner[p].writtenCounts EXCEPT ![v] = @ + 1]
           in == [inner[p] EXCEPT !.got = Got(p, "write", q)] IN
        \/ /\ OverQuorum(counts) = {}
           /\ inner' = [inner EXCEPT ![p] = [in EXCEPT !.written[q] = v, !.writtenCounts = counts]]
           /\ UNCHANGED <<state, accepts>>
        \/ \E w \in OverQuorum(counts) :
           /\ inner' = [inner EXCEPT ![p] =
                            [in EXCEPT !.written = NoEntries, !.writtenCounts = NoCounts]]
           /\ state' = [state EXCEPT ![p].epoch = epoch[p], ![p].value = w]
           /\ accepts' = accepts \cup {<<p, epoch[p], w>>}
    /\ UNCHANGED <<epoch, stopped, output, reads, sends, collectedMsgs, writes, complaints>>

\* handleAccept; decide runs in a goroutine of its own.  A count that is over
\* the quorum stays over it.
HandleAccept(p, q, v) ==
    /\ p \notin Slow
    /\ Receivable(p, "accept", q, v, accepts)
    /\ inner[p].accepted[q] # v
    /\ LET counts == [inner[p].acceptedCounts EXCEPT ![v] =
                         IF @ > byzantineQuorum THEN @ ELSE @ + 1]
       IN  inner' = [inner EXCEPT ![p] =
               [@ EXCEPT !.got = Got(p, "accept", q), !.accepted[q] = v,
                         !.acceptedCounts = counts, !.deciding = OverQuorum(counts)]]
    /\ UNCHANGED <<epoch, state, stopped, output, msgVars>>

\* decide and background's handling of decidedCh.  The event loop ends; the
\* collector goes on.
Decide(p, v) ==
    /\ Running(p) /\ v \in inner[p].deciding
    /\ stopped' = [stopped EXCEPT ![p] = TRUE]
    /\ output' = [output EXCEPT ![p] = v]
    /\ inner' = [inner EXCEPT ![p] =
                    [NewInner EXCEPT !.got = inner[p].got, !.messages = inner[p].messages]]
    /\ UNCHANGED <<epoch, state, msgVars>>

\* What it takes to leave an epoch (election/byzantine.go, epoch_change.go).
EnoughComplaints(e) ==
    Cardinality({q \in Correct : <<q, e>> \in complaints}) + Cardinality(Faulty) > Faults

\* background: Abort, and startEpoch with the aborted state; an epoch consensus
\* that has decided is not aborted, and its node stays in its epoch.
StartEpoch(p, e) ==
    /\ Running(p)
    /\ e > epoch[p]
    /\ EnoughComplaints(e - 1)
    /\ epoch' = [epoch EXCEPT ![p] = e]
    /\ inner' = [inner EXCEPT ![p] = NewInner]
    /\ UNCHANGED <<state, stopped, output, msgVars>>

-----------------------------------------------------------------------------

Handle(p) ==
    \/ Propose(p) \/ HandleRead(p)
    \/ \E q \in Procs, s \in {m[3] : m \in sends} \cup FaultyStates : HandleSend(p, q, s)
    \/ \E v \in Values \cup {None} : HandleCollected(p, v)
    \/ \E q \in Procs, v \in Values :
        HandleInvalidWrite(p, q, v) \/ HandleWrite(p, q, v) \/ HandleAccept(p, q, v)
    \/ \E v \in Values : Decide(p, v)

Next == \E p \in Correct : Handle(p) \/ \E e \in Epochs : StartEpoch(p, e)

\* Correct processes handle their messages; a faulty one may choose not to send,
\* so this is of use without faulty ones only.
Fairness == \A p \in Correct : Faulty = {} => WF_vars(Handle(p))

Spec == Init /\ [][Next]_vars /\ Fairness

-----------------------------------------------------------------------------
(* Properties *)

\* Correct processes accept one value in an epoch: two Byzantine quorums of
\* WRITEs have a correct process in common (handleWrite).
AcceptsAgree ==
    \A a1, a2 \in accepts : a1[2] = a2[2] => a1[3] = a2[3]

\* If a leader has collected a valid value every process has decided.  In the end
\* this holds without faulty processes: the epochs before that one, ended by
\* complaints, do not prevent it.
CollectedDecided ==
    (\E m \in collectedMsgs : m[2] \in Values \ Invalid) => \A p \in Correct : output[p] # None

=============================================================================
