-------------------------- MODULE CommitRevealCoin --------------------------
(***************************************************************************)
(* The commit-reveal coin of consensus/coin/commitreveal: a Coin that runs   *)
(* one scheme at a time, the messages of later schemes waiting in its inbox. *)
(*                                                                         *)
(* A round of a process starts when the round before it has given its coin,  *)
(* as randomized/node.go starts them.  A commitment stands for the value and *)
(* the salt it hides, and a scheme has one salt: it is the round and value.  *)
(* Best-effort broadcast over perfect links delivers every message once, in   *)
(* any order.                                                              *)
(***************************************************************************)
EXTENDS Integers, FiniteSets, SequencesExt

CONSTANTS
    Procs,
    Faults,     \* crashFaultsCount
    Domain,     \* the values a flip chooses from
    MaxTs,      \* bound: the last round
    MaxReveals, \* bound: copies of a reveal that a process sends in a round
    Stopped,    \* bound: the processes that stop once they have committed
    XORBytes(_, _),  \* utils.XORBytes of two values
    None

VARIABLES
    ts, held, buffered,         \* Coin: ts, its mutex mu held for ever, inbox
    value, commits, values, pendingReveals, done,  \* the current scheme
    passing,    \* messages Deliver has let through and not yet handed to current
    evts,       \* events of the current scheme
    flips,      \* what ReceiveCoinFlip has been called with, per round
    msgs, delivered

scheme == <<value, commits, values, pendingReveals, done>>
vars == <<ts, held, buffered, scheme, passing, evts, flips, msgs, delivered>>

N == Cardinality(Procs)
Rounds == 1 .. MaxTs
NoEntries == [q \in Procs |-> None]
Entries(w) == {q \in Procs : w[q] # None}

Init ==
    /\ ts = [p \in Procs |-> 0]
    /\ held = [p \in Procs |-> FALSE]
    /\ buffered = [p \in Procs |-> {}]
    /\ value = [p \in Procs |-> None]
    /\ commits = [p \in Procs |-> NoEntries]
    /\ values = [p \in Procs |-> NoEntries]
    /\ pendingReveals = [p \in Procs |-> NoEntries]
    /\ done = [p \in Procs |-> TRUE]
    /\ passing = [p \in Procs |-> {}]
    /\ evts = [p \in Procs |-> {}]
    /\ flips = [p \in Procs |-> [t \in Rounds |-> None]]
    /\ msgs = {}
    /\ delivered = [p \in Procs |-> {}]

\* A scheme message; nth tells the uuids of repeated reveals apart.
SchemeMsg(kind, p, t, v) ==
    [kind |-> kind, from |-> p, ts |-> t, value |-> v,
     nth |-> Cardinality({m \in msgs : m.kind = kind /\ m.from = p /\ m.ts = t})]

\* buildCommit: what a commitment or a reveal stands for.
Commitment(m) == [ts |-> m.ts, value |-> m.value]

\* RunScheme with startScheme and the scheme's commit.
RunScheme(p, v) ==
    /\ done[p] /\ ~held[p]
    /\ ts[p] < IF p \in Stopped THEN 1 ELSE MaxTs
    /\ ts' = [ts EXCEPT ![p] = @ + 1]
    /\ value' = [value EXCEPT ![p] = v]
    /\ commits' = [commits EXCEPT ![p] = NoEntries]
    /\ values' = [values EXCEPT ![p] = NoEntries]
    /\ pendingReveals' = [pendingReveals EXCEPT ![p] = NoEntries]
    /\ done' = [done EXCEPT ![p] = FALSE]
    /\ evts' = [evts EXCEPT ![p] = {m \in buffered[p] : m.ts = ts'[p]}]
    /\ buffered' = [buffered EXCEPT ![p] = {m \in @ : m.ts # ts'[p]}]
    /\ msgs' = msgs \cup {SchemeMsg("commit", p, ts'[p], v)}
    /\ UNCHANGED <<held, passing, flips, delivered>>

\* Coin.Deliver up to the release of the mutex, which the branch for an old
\* round never releases.
Deliver(p, m) ==
    /\ m \in msgs \ delivered[p]
    /\ ~held[p]
    /\ delivered' = [delivered EXCEPT ![p] = @ \cup {m}]
    /\ \/ /\ m.ts > ts[p]
          /\ buffered' = [buffered EXCEPT ![p] = @ \cup {m}]
          /\ UNCHANGED <<passing, held>>
       \/ /\ m.ts = ts[p]
          /\ passing' = [passing EXCEPT ![p] = @ \cup {m}]
          /\ UNCHANGED <<buffered, held>>
       \/ /\ m.ts < ts[p]
          /\ held' = [held EXCEPT ![p] = TRUE]
          /\ UNCHANGED <<buffered, passing>>
    /\ UNCHANGED <<ts, scheme, evts, flips, msgs>>

\* The rest of Coin.Deliver: c.current is read now, after the unlock.
HandOver(p, m) ==
    /\ m \in passing[p]
    /\ passing' = [passing EXCEPT ![p] = @ \ {m}]
    /\ evts' = IF done[p] THEN evts ELSE [evts EXCEPT ![p] = @ \cup {m}]
    /\ UNCHANGED <<ts, held, buffered, scheme, flips, msgs, delivered>>

\* How many commitments a process wants to see before it reveals, and how many
\* reveals before it aggregates (mutants: one fewer).
CommitQuorumWithoutOne == N - Faults - 1
CommitQuorum == N - Faults
RevealQuorumWithoutOne == N - Faults - 1
RevealQuorum == N - Faults

\* onCommit
OnCommit(p, m) ==
    /\ m \in evts[p] /\ m.kind = "commit"
    /\ commits' = [commits EXCEPT ![p][m.from] = Commitment(m)]
    /\ evts' = [evts EXCEPT ![p] =
                   (@ \ {m}) \cup ({pendingReveals[p][m.from]} \ {None})]
    /\ LET m2 == SchemeMsg("reveal", p, ts[p], value[p])
       IN  msgs' = IF /\ Cardinality(Entries(commits'[p])) >= CommitQuorum
                      /\ m2.nth < MaxReveals
                   THEN msgs \cup {m2} ELSE msgs
    /\ UNCHANGED <<ts, held, buffered, value, values, pendingReveals, done, passing, flips, delivered>>

\* (2^64 - 1) % n
AllOnes(n) ==
    LET pow[i \in 0 .. 64] == IF i = 0 THEN 1 % n ELSE (2 * pow[i - 1]) % n
    IN  (pow[64] + n - 1) % n

\* aggregate: the sorted values, and one of them chosen by their exclusive or.
Aggregate(w) ==
    LET sorted == SortSeq([i \in 1 .. Cardinality(Entries(w)) |->
                              w[SetToSeq(Entries(w))[i]]], <)
        n == Len(sorted)
        xor == FoldSeq(XORBytes, 0, sorted)
    IN  sorted[((AllOnes(n) - xor) % n) + 1]

\* onReveal of a value whose commitment has arrived, aggregate and sendOutput,
\* which cancels the scheme.
OnReveal(p, m) ==
    /\ m \in evts[p] /\ m.kind = "reveal"
    /\ commits[p][m.from] # None
    /\ values' = IF Commitment(m) = commits[p][m.from]
                 THEN [values EXCEPT ![p][m.from] = m.value] ELSE values
    /\ IF /\ Commitment(m) = commits[p][m.from]
          /\ Cardinality(Entries(values'[p])) >= RevealQuorum
       THEN /\ flips' = [flips EXCEPT ![p][ts[p]] = Aggregate(values'[p])]
            /\ done' = [done EXCEPT ![p] = TRUE]
            /\ evts' = [evts EXCEPT ![p] = {}]
       ELSE /\ evts' = [evts EXCEPT ![p] = @ \ {m}]
            /\ UNCHANGED <<flips, done>>
    /\ UNCHANGED <<ts, held, buffered, value, commits, pendingReveals, passing, msgs, delivered>>

\* onReveal of a value whose commitment has not arrived yet.
OnEarlyReveal(p, m) ==
    /\ m \in evts[p] /\ m.kind = "reveal"
    /\ commits[p][m.from] = None
    /\ pendingReveals' = [pendingReveals EXCEPT ![p][m.from] = m]
    /\ evts' = [evts EXCEPT ![p] = @ \ {m}]
    /\ UNCHANGED <<ts, held, buffered, value, commits, values, done, passing, flips, msgs, delivered>>

\* The steps of process p but the choice of its value.
Step(p) ==
    \/ \E m \in msgs : Deliver(p, m)
    \/ \E m \in passing[p] : HandOver(p, m)
    \/ \E m \in evts[p] : OnCommit(p, m) \/ OnReveal(p, m) \/ OnEarlyReveal(p, m)

Next ==
    \/ \E p \in Procs, v \in Domain : RunScheme(p, v)
    \/ \E p \in Procs \ Stopped : Step(p)

\* A live process runs its rounds and handles what it is sent.
Work(p) == Step(p) \/ \E v \in Domain : RunScheme(p, v)

Spec == Init /\ [][Next]_vars /\ \A p \in Procs \ Stopped : WF_vars(Work(p))

-----------------------------------------------------------------------------
(* Properties *)

\* Where no process may be missing, nobody reveals in a round before everybody is
\* bound to a value of that round (onCommit counts the commitments it was handed).
\* Otherwise a commitment of the round before, which HandOver hands to the new
\* scheme, may be one of those counted.
RevealAfterQuorum ==
    Faults = 0 =>
        \A m \in msgs :
            m.kind = "reveal" =>
                Cardinality({q \in Procs : \E c \in msgs :
                    c.kind = "commit" /\ c.from = q /\ c.ts = m.ts}) >= N

\* Where no process may be missing, all get the same coin in a round, whatever
\* the order in which they saw the reveals (aggregate sorts them).
CommonFlip ==
    Faults = 0 =>
        \A t \in Rounds, p, q \in Procs :
            flips[p][t] # None /\ flips[q][t] # None => flips[p][t] = flips[q][t]

\* Every live process has the coin of every round.  In the end it does, unless a
\* message of an old round arrives (Deliver, pendingReveals, the inbox).
AllFlipped == \A p \in Procs \ Stopped, t \in Rounds : flips[p][t] # None

=============================================================================
