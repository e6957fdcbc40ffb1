-------------------------- MODULE AuditOutboxProofs --------------------------
(***************************************************************************)
(* Proofs about AuditOutbox for every set of calls, limit, batch size and  *)
(* number of failures.                                                     *)
(***************************************************************************)
EXTENDS AuditOutbox, Integers, FiniteSetTheorems, TLAPS

(***************************************************************************)
(* The inductive invariant.  Everything is said of pairs of positions in   *)
(* the history admitted.                                                   *)
(***************************************************************************)
\* A sequence number is the position of its event in the history.
Numbered ==
  \A e \in Event : outbox[e] > 0 => /\ outbox[e] \in DOMAIN admitted
                                    /\ admitted[outbox[e]] = e

\* An event is admitted once, by a step its call has already taken.
Once ==
  /\ \A i, j \in DOMAIN admitted : admitted[i] = admitted[j] => i = j
  /\ \A c \in Call, n \in Nat : <<c, n>> \in Range(admitted) => n < at[c]

\* Only admitted events have rows, committed or not.
RowsAdmitted ==
  \A e \in Event : row[e] > 0 \/ tx.rows[e] > 0 => e \in Range(admitted)

\* What is still in the outbox was admitted last.
PendingLast ==
  \A i, j \in DOMAIN admitted :
    i < j /\ outbox[admitted[i]] > 0 => outbox[admitted[j]] > 0

\* What has a row was admitted first, and the ids are in that order.
CommittedFirst ==
  \A i, j \in DOMAIN admitted :
    i < j /\ row[admitted[j]] > 0
      => row[admitted[i]] > 0 /\ row[admitted[i]] < row[admitted[j]]

\* The worker's batch is the oldest part of the outbox.
BatchFirst ==
  /\ worker.batch \subseteq Pending
  /\ \A i, j \in DOMAIN admitted :
       /\ i < j
       /\ admitted[j] \in worker.batch
       /\ outbox[admitted[i]] > 0
       => admitted[i] \in worker.batch

\* An open transaction continues the table without a gap.
TxFollows ==
  \A i, j \in DOMAIN admitted :
    i < j /\ tx.rows[admitted[j]] > 0
      => \/ row[admitted[i]] > 0
         \/ tx.rows[admitted[i]] > 0 /\ tx.rows[admitted[i]] < tx.rows[admitted[j]]

\* Ids come from the serial, those of an open transaction after all others.
Ids ==
  /\ \A e \in Event : row[e] <= serial /\ tx.rows[e] <= serial
  /\ \A e, f \in Event : tx.rows[e] > 0 => row[e] = 0 /\ row[f] < tx.rows[e]

\* How far the worker is with its batch.
Progress ==
  /\ tx.state = "open" <=> worker.pc = "commit"
  /\ tx.state = "none" => \A e \in Event : tx.rows[e] = 0
  /\ worker.pc = "commit" => \A e \in worker.batch : row[e] > 0 \/ tx.rows[e] > 0
  /\ worker.pc = "ack" => \A e \in worker.batch : row[e] > 0

IInv ==
  /\ TypeOK /\ NoneLost
  /\ Numbered /\ Once /\ RowsAdmitted
  /\ PendingLast /\ CommittedFirst /\ BatchFirst /\ TxFollows
  /\ Ids /\ Progress

-------------------------------------------------------------------------------
(***************************************************************************)
(* The constants.                                                          *)
(***************************************************************************)
LEMMA StepsAre ==
  ASSUME NEW c \in Call
  PROVE  /\ Steps(c) \in Seq({"audit", "effect"})
         /\ DOMAIN Steps(c) \subseteq 1 .. 3
<1>1. Kind[c] \in {"unlink", "write", "create", "command"}
  BY OutboxConstants DEF Plan
<1>2. CASE Kind[c] = "unlink"
  BY <1>2 DEF Steps, Plan
<1>3. CASE Kind[c] = "write"
  BY <1>3 DEF Steps, Plan
<1>4. CASE Kind[c] = "create"
  BY <1>4 DEF Steps, Plan
<1>5. CASE Kind[c] = "command"
  BY <1>5 DEF Steps, Plan, CommandPlan
<1>. QED
  BY <1>1, <1>2, <1>3, <1>4, <1>5

LEMMA EventsAre ==
  ASSUME NEW c \in Call, NEW n
  PROVE  <<c, n>> \in Event <=> n \in DOMAIN Steps(c) /\ Steps(c)[n] = "audit"
BY DEF Event

LEMMA EventIsPair ==
  ASSUME NEW e \in Event
  PROVE  \E c \in Call, n \in 1 .. 3 : e = <<c, n>>
BY StepsAre DEF Event

LEMMA EventFinite == IsFiniteSet(Event)
<1>1. IsFiniteSet(1 .. 3)
  BY FS_Interval, 1 \in Int, 3 \in Int
<1>2. IsFiniteSet(Call \X (1 .. 3))
  BY <1>1, FS_Product, OutboxConstants
<1>3. Event \subseteq Call \X (1 .. 3)
  BY EventIsPair
<1>. QED
  BY <1>2, <1>3, FS_Subset

LEMMA PartFinite ==
  ASSUME NEW S, S \subseteq Event
  PROVE  IsFiniteSet(S) /\ Cardinality(S) \in Nat
BY EventFinite, FS_Subset, FS_CardinalityType

LEMMA OneMore ==
  ASSUME NEW S, IsFiniteSet(S), NEW x, NEW T, T \subseteq S \union {x}
  PROVE  Cardinality(T) \in Nat /\ Cardinality(T) <= Cardinality(S) + 1
<1>. DEFINE U == S \union {x}
<1>1. IsFiniteSet(U) /\ Cardinality(U) = IF x \in S THEN Cardinality(S) ELSE Cardinality(S) + 1
  BY FS_AddElement
<1>2. T \in SUBSET U
  OBVIOUS
<1>. HIDE DEF U
<1>3. IsFiniteSet(T) /\ Cardinality(T) <= Cardinality(U)
  BY <1>1, <1>2, FS_Subset
<1>4. Cardinality(S) \in Nat /\ Cardinality(T) \in Nat /\ Cardinality(U) \in Nat
  BY <1>1, <1>3, FS_CardinalityType
<1>. QED
  BY <1>1, <1>3, <1>4

\* The step a call takes next is an event of its own when it is an audit.
LEMMA NextEvent ==
  ASSUME TypeOK, Once, NEW c \in Call, Doing(c, "audit")
  PROVE  /\ <<c, at[c]>> \in Event
         /\ at[c] \in 1 .. 3
         /\ <<c, at[c]>> \notin Range(admitted)
<1>1. at[c] \in DOMAIN Steps(c) /\ Steps(c)[at[c]] = "audit"
  BY DEF Doing
<1>2. <<c, at[c]>> \in Event /\ at[c] \in 1 .. 3
  BY <1>1, EventsAre, StepsAre
<1>. QED
  BY <1>2 DEF Once

-------------------------------------------------------------------------------
(***************************************************************************)
(* Type correctness.                                                       *)
(***************************************************************************)
LEMMA InitTypeOK == Init => TypeOK
<1>. SUFFICES ASSUME Init PROVE TypeOK
  OBVIOUS
<1>1. Pending = {}
  BY DEF Init, Pending
<1>2. Cardinality(Pending) <= Limit
  BY <1>1, FS_EmptySet, OutboxConstants
<1>3. at \in [Call -> 1 .. 4] /\ fate \in [Call -> {"live", "failed", "killed"}]
  BY DEF Init
<1>4. outbox \in [Event -> Nat] /\ row \in [Event -> Nat]
  BY DEF Init
<1>5. tx \in [state : {"none", "open", "lost", "asked"}, rows : [Event -> Nat]]
  BY DEF Init, NoTx
<1>. QED
  BY <1>2, <1>3, <1>4, <1>5, OutboxConstants DEF Init, TypeOK, Process, Working

LEMMA AdmitTypeOK ==
  ASSUME TypeOK, Once, NEW c \in Call, Admit(c)
  PROVE  TypeOK'
<1>. DEFINE e == <<c, at[c]>>
<1>1. Doing(c, "audit")
  BY DEF Admit
<1>2. e \in Event /\ at[c] \in 1 .. 3
  BY <1>1, NextEvent
<1>3. Pending' \subseteq Pending \union {e}
  BY <1>2 DEF Admit, Pending, TypeOK
<1>4. IsFiniteSet(Pending) /\ Cardinality(Pending) \in Nat
  BY PartFinite DEF Pending
<1>5. Cardinality(Pending') \in Nat /\ Cardinality(Pending') <= Cardinality(Pending) + 1
  BY <1>3, <1>4, OneMore
<1>7. Cardinality(Pending') <= Limit
  <2>1. Cardinality(Pending) < Limit
    BY DEF Admit
  <2>. QED
    BY <1>4, <1>5, <2>1, OutboxConstants
<1>8. at' \in [Call -> 1 .. 4]
  BY <1>2 DEF Admit, Advance, TypeOK
<1>9. outbox' \in [Event -> Nat] /\ admitted' \in Seq(Event)
  BY <1>2 DEF Admit, NextSequence, TypeOK
<1>. QED
  BY <1>7, <1>8, <1>9 DEF Admit, TypeOK, database

\* Steps of callers, of close() and of the worker that touch no event.
Quiet ==
  \/ \E c \in Call : Refuse(c) \/ AppendFails(c) \/ Effect(c) \/ EffectFails(c)
  \/ Close \/ CloseSpool
  \/ Stop \/ PollFails \/ InsertRefused \/ ConnectionFails \/ AckFails \/ Retry

LEMMA FaultCounts ==
  ASSUME TypeOK, Fault PROVE faults' \in 0 .. MaxFaults
BY OutboxConstants DEF Fault, TypeOK

LEMMA QuietTypeOK ==
  ASSUME TypeOK, Quiet
  PROVE  TypeOK'
<1>1. UNCHANGED <<outbox, tx, row, serial, admitted>>
  BY DEF Quiet, Refuse, AppendFails, Effect, EffectFails, Close, CloseSpool, Stop, PollFails,
         InsertRefused, ConnectionFails, AckFails, Retry, database
<1>2. Pending' = Pending
  BY <1>1 DEF Pending
<1>3. /\ service' \in Process \union {"down"}
      /\ worker' \in [pc : Working \union {"stopped", "dead", "down"}, batch : SUBSET Event]
  BY DEF Quiet, Refuse, AppendFails, Effect, EffectFails, Close, CloseSpool, Stop, PollFails,
         InsertRefused, ConnectionFails, AckFails, Retry, TypeOK, Goto, Process, Working
<1>4. faults' \in 0 .. MaxFaults
  BY FaultCounts
     DEF Quiet, Refuse, AppendFails, Effect, EffectFails, Close, CloseSpool, Stop, PollFails,
         InsertRefused, ConnectionFails, AckFails, Retry, TypeOK
<1>5. /\ at' \in [Call -> 1 .. 4]
      /\ fate' \in [Call -> {"live", "failed", "killed"}]
      /\ effected' \subseteq Call
  <2>1. CASE \E c \in Call : Refuse(c) \/ AppendFails(c) \/ EffectFails(c)
    BY <2>1 DEF Refuse, AppendFails, EffectFails, Raise, TypeOK
  <2>2. CASE \E c \in Call : Effect(c)
    <3>1. PICK c \in Call : Effect(c)
      BY <2>2
    <3>2. at[c] \in 1 .. 3
      BY <3>1, StepsAre DEF Effect, Doing
    <3>. QED
      BY <3>1, <3>2 DEF Effect, Advance, TypeOK
  <2>3. CASE UNCHANGED calls
    BY <2>3 DEF calls, TypeOK
  <2>. QED
    BY <2>1, <2>2, <2>3
       DEF Quiet, Close, CloseSpool, Stop, PollFails, InsertRefused, ConnectionFails, AckFails, Retry
<1>. QED
  BY <1>1, <1>2, <1>3, <1>4, <1>5 DEF TypeOK

LEMMA PollTypeOK == ASSUME TypeOK, Poll PROVE TypeOK'
<1>1. UNCHANGED <<service, at, fate, effected, outbox, tx, row, serial, faults, admitted>>
  BY DEF Poll, calls, database
<1>2. Pending' = Pending
  BY <1>1 DEF Pending
<1>3. worker' \in [pc : Working \union {"stopped", "dead", "down"}, batch : SUBSET Event]
  BY DEF Poll, Oldest, Pending, Working
<1>. QED
  BY <1>1, <1>2, <1>3 DEF TypeOK

\* The part of its batch that comes before an event of it is smaller.
LEMMA RankInBatch ==
  ASSUME TypeOK, NEW e \in worker.batch
  PROVE  /\ Cardinality(worker.batch) \in Nat
         /\ Cardinality(Before(e, worker.batch)) \in Nat
         /\ Cardinality(Before(e, worker.batch)) < Cardinality(worker.batch)
<1>. DEFINE S == worker.batch
            T == Before(e, worker.batch)
<1>1. S \subseteq Event /\ T \subseteq S /\ e \notin T /\ e \in S
  BY DEF TypeOK, Before
<1>. HIDE DEF S, T
<1>2. IsFiniteSet(S) /\ IsFiniteSet(T)
  BY <1>1, EventFinite, FS_Subset
<1>3. Cardinality(S) \in Nat /\ Cardinality(T) \in Nat
  BY <1>2, FS_CardinalityType
<1>4. Cardinality(T) <= Cardinality(S) /\ Cardinality(S) # Cardinality(T)
  BY <1>1, <1>2, FS_Subset
<1>5. Cardinality(T) < Cardinality(S)
  BY <1>3, <1>4
<1>. QED
  BY <1>3, <1>5 DEF S, T

LEMMA BatchSize ==
  ASSUME TypeOK PROVE Cardinality(worker.batch) \in Nat
BY PartFinite DEF TypeOK

LEMMA InsertTypeOK == ASSUME TypeOK, Insert PROVE TypeOK'
<1>1. UNCHANGED <<service, at, fate, effected, outbox, row, faults, admitted>>
  BY DEF Insert, calls
<1>2. Pending' = Pending
  BY <1>1 DEF Pending
<1>3. worker' \in [pc : Working \union {"stopped", "dead", "down"}, batch : SUBSET Event]
  BY DEF Insert, Goto, Working, TypeOK
<1>4. serial' \in Nat
  BY BatchSize DEF Insert, TypeOK
<1>5. InsertedRows \in [Event -> Nat]
  <2>. SUFFICES ASSUME NEW e \in Event, e \in worker.batch
                PROVE  serial + Cardinality(Before(e, worker.batch)) + 1 \in Nat
    BY DEF InsertedRows
  <2>. QED
    BY RankInBatch DEF TypeOK
<1>6. tx' \in [state : {"none", "open", "lost", "asked"}, rows : [Event -> Nat]]
  BY <1>5 DEF Insert
<1>. QED
  BY <1>1, <1>2, <1>3, <1>4, <1>6 DEF TypeOK

LEMMA AbandonedTypeOK ==
  ASSUME TypeOK, NEW t \in Abandoned
  PROVE  /\ t \in [state : {"none", "open", "lost", "asked"}, rows : [Event -> Nat]]
         /\ t.rows = tx.rows
         /\ t.state \in {"lost", "asked"}
BY DEF Abandoned, TypeOK

\* The steps of the transaction after its rows were inserted.
LEMMA EndTypeOK ==
  ASSUME TypeOK, Commit \/ CommitFails \/ TxAborts \/ TxCommits
  PROVE  TypeOK'
<1>1. UNCHANGED <<service, at, fate, effected, outbox, serial, admitted>>
  BY DEF Commit, CommitFails, TxAborts, TxCommits, calls
<1>2. Pending' = Pending
  BY <1>1 DEF Pending
<1>3. worker' \in [pc : Working \union {"stopped", "dead", "down"}, batch : SUBSET Event]
  BY DEF Commit, CommitFails, TxAborts, TxCommits, Goto, Working, TypeOK
<1>4. row' \in [Event -> Nat]
  BY DEF Commit, CommitFails, TxAborts, TxCommits, TypeOK
<1>5. tx' \in [state : {"none", "open", "lost", "asked"}, rows : [Event -> Nat]]
  BY AbandonedTypeOK DEF Commit, CommitFails, TxAborts, TxCommits, NoTx
<1>6. faults' \in 0 .. MaxFaults
  BY FaultCounts DEF Commit, CommitFails, TxAborts, TxCommits, TypeOK
<1>. QED
  BY <1>1, <1>2, <1>3, <1>4, <1>5, <1>6 DEF TypeOK

LEMMA AckTypeOK == ASSUME TypeOK, Ack PROVE TypeOK'
<1>1. UNCHANGED <<service, at, fate, effected, tx, row, serial, faults, admitted>>
  BY DEF Ack, calls, database
<1>2. outbox' \in [Event -> Nat] /\ Pending' \subseteq Pending
  BY DEF Ack, Pending, TypeOK
<1>3. Cardinality(Pending') <= Limit
  <2>1. IsFiniteSet(Pending) /\ Cardinality(Pending) \in Nat
    BY PartFinite DEF Pending
  <2>2. Cardinality(Pending') <= Cardinality(Pending) /\ Cardinality(Pending') \in Nat
    BY <1>2, <2>1, FS_Subset, FS_CardinalityType
  <2>. QED
    BY <2>1, <2>2, OutboxConstants DEF TypeOK
<1>4. worker' \in [pc : Working \union {"stopped", "dead", "down"}, batch : SUBSET Event]
  BY DEF Ack, Working
<1>. QED
  BY <1>1, <1>2, <1>3, <1>4 DEF TypeOK

LEMMA RestartTypeOK == ASSUME TypeOK, Crash \/ Start PROVE TypeOK'
<1>1. UNCHANGED <<at, effected, outbox, row, serial, admitted>>
  BY DEF Crash, Start, calls, database
<1>2. Pending' = Pending
  BY <1>1 DEF Pending
<1>3. worker' \in [pc : Working \union {"stopped", "dead", "down"}, batch : SUBSET Event]
  BY DEF Crash, Start, Working
<1>4. tx' \in [state : {"none", "open", "lost", "asked"}, rows : [Event -> Nat]]
  BY AbandonedTypeOK DEF Crash, Start, database, TypeOK
<1>5. fate' \in [Call -> {"live", "failed", "killed"}]
  BY DEF Crash, Start, calls, TypeOK
<1>6. faults' \in 0 .. MaxFaults /\ service' \in Process \union {"down"}
  BY FaultCounts DEF Crash, Start, TypeOK, Process
<1>. QED
  BY <1>1, <1>2, <1>3, <1>4, <1>5, <1>6 DEF TypeOK

-------------------------------------------------------------------------------
(***************************************************************************)
(* The inductive invariant, action by action.                              *)
(***************************************************************************)
Order == Numbered /\ PendingLast /\ CommittedFirst /\ TxFollows

LEMMA InRange ==
  ASSUME NEW e, e \in Range(admitted) PROVE \E i \in DOMAIN admitted : admitted[i] = e
BY DEF Range

LEMMA AdmittedEvent ==
  ASSUME TypeOK, NEW i \in DOMAIN admitted
  PROVE  admitted[i] \in Event /\ admitted[i] \in Range(admitted) /\ i \in Nat \ {0}
BY DEF TypeOK, Range

LEMMA InitIInv == Init => IInv
<1>. SUFFICES ASSUME Init PROVE IInv
  OBVIOUS
<1>1. TypeOK
  BY InitTypeOK
<1>2. DOMAIN admitted = {} /\ Range(admitted) = {}
  BY DEF Init, Range
<1>3. NoneLost /\ Once /\ PendingLast /\ CommittedFirst /\ TxFollows
  BY <1>2 DEF NoneLost, Once, PendingLast, CommittedFirst, TxFollows
<1>4. Numbered /\ RowsAdmitted /\ BatchFirst /\ Ids /\ Progress
  BY DEF Init, Numbered, RowsAdmitted, BatchFirst, Ids, Progress, NoTx
<1>. QED
  BY <1>1, <1>3, <1>4 DEF IInv

LEMMA AtType ==
  ASSUME TypeOK, NEW c \in Call PROVE at[c] \in Nat
<1>1. at[c] \in 1 .. 4
  BY DEF TypeOK
<1>. QED
  BY <1>1

LEMMA OnceBehind ==
  ASSUME Once, NEW c \in Call, NEW n \in Nat, <<c, n>> \in Range(admitted)
  PROVE  n < at[c]
BY Zenon DEF Once

\* A call only moves forward, so what was admitted stays behind it.
LEMMA OnceStays ==
  ASSUME TypeOK, Once, UNCHANGED admitted,
         \A c \in Call : at'[c] \in Nat /\ at[c] <= at'[c]
  PROVE  Once'
<1>1. ASSUME NEW c \in Call, NEW n \in Nat, <<c, n>> \in Range(admitted)
      PROVE  n < at'[c]
  <2>1. n < at[c] /\ at[c] \in Nat
    BY <1>1, OnceBehind, AtType
  <2>2. at'[c] \in Nat /\ at[c] <= at'[c]
    OBVIOUS
  <2>. QED
    BY <2>1, <2>2
<1>. QED
  BY <1>1 DEF Once

LEMMA QuietIInv == ASSUME IInv, Quiet PROVE IInv'
<1>. USE DEF IInv
<1>1. UNCHANGED <<outbox, tx, row, serial, admitted>>
  BY DEF Quiet, Refuse, AppendFails, Effect, EffectFails, Close, CloseSpool, Stop, PollFails,
         InsertRefused, ConnectionFails, AckFails, Retry, database
<1>2. TypeOK'
  BY QuietTypeOK
<1>3. NoneLost' /\ Numbered' /\ RowsAdmitted' /\ PendingLast' /\ CommittedFirst'
      /\ TxFollows' /\ Ids'
  BY <1>1 DEF NoneLost, Numbered, RowsAdmitted, PendingLast, CommittedFirst, TxFollows, Ids
<1>4. \A c \in Call : at'[c] \in Nat /\ at[c] <= at'[c]
  <2>1. CASE UNCHANGED at
    BY <2>1, AtType
  <2>2. CASE \E c \in Call : Effect(c)
    <3>1. PICK d \in Call : at' = [at EXCEPT ![d] = @ + 1]
      BY <2>2 DEF Effect, Advance
    <3>2. ASSUME NEW c \in Call PROVE at'[c] = at[c] \/ at'[c] = at[c] + 1
      BY <3>1 DEF TypeOK
    <3>. QED
      BY <3>2, AtType
  <2>. QED
    BY <2>1, <2>2
       DEF Quiet, Refuse, AppendFails, EffectFails, Close, CloseSpool, Stop, PollFails,
           InsertRefused, ConnectionFails, AckFails, Retry, calls
<1>5. Once'
  BY <1>1, <1>4, OnceStays
<1>6. \/ UNCHANGED worker
      \/ /\ worker'.pc \in {"stopped", "dead", "backoff", "poll"}
         /\ worker.pc # "commit"
         /\ worker'.batch \subseteq worker.batch
         /\ worker'.batch \in {{}, worker.batch}
  BY DEF Quiet, Refuse, AppendFails, Effect, EffectFails, Close, CloseSpool, Stop, PollFails,
         InsertRefused, ConnectionFails, AckFails, Retry, At, Goto, TypeOK
<1>7. BatchFirst'
  BY <1>1, <1>6 DEF BatchFirst, Pending
<1>8. Progress'
  <2>1. CASE UNCHANGED worker
    BY <1>1, <2>1 DEF Progress
  <2>2. CASE /\ worker'.pc \in {"stopped", "dead", "backoff", "poll"}
             /\ worker.pc # "commit"
    BY <1>1, <2>2 DEF Progress
  <2>. QED
    BY <1>6, <2>1, <2>2
<1>. QED
  BY <1>2, <1>3, <1>5, <1>7, <1>8

LEMMA AdmitIInv == ASSUME IInv, NEW c \in Call, Admit(c) PROVE IInv'
<1>. USE DEF IInv
<1>. DEFINE e == <<c, at[c]>>
            N == Len(admitted)
<1>1. Doing(c, "audit")
  BY DEF Admit
<1>2. e \in Event /\ at[c] \in 1 .. 3 /\ e \notin Range(admitted)
  BY <1>1, NextEvent
<1>3. /\ admitted' = Append(admitted, e)
      /\ outbox' = [outbox EXCEPT ![e] = N + 1]
      /\ at' = [at EXCEPT ![c] = @ + 1]
      /\ UNCHANGED <<worker, tx, row, serial>>
  BY DEF Admit, Advance, NextSequence, database
<1>4. /\ N \in Nat
      /\ DOMAIN admitted = 1 .. N /\ DOMAIN admitted' = 1 .. N + 1
      /\ \A i \in 1 .. N : /\ admitted'[i] = admitted[i]
                           /\ admitted[i] \in Event /\ admitted[i] # e
      /\ admitted'[N + 1] = e
  <2>. DEFINE f == e
  <2>1. admitted \in Seq(Event) /\ f \in Event /\ admitted' = Append(admitted, f)
    BY <1>2, <1>3 DEF TypeOK
  <2>2. f \notin Range(admitted)
    BY <1>2
  <2>. HIDE DEF f
  <2>3. /\ N \in Nat
        /\ DOMAIN admitted = 1 .. N /\ DOMAIN admitted' = 1 .. N + 1
        /\ \A i \in 1 .. N : admitted'[i] = admitted[i] /\ admitted[i] \in Event
        /\ admitted'[N + 1] = f
    BY <2>1
  <2>4. \A i \in 1 .. N : admitted[i] # f
    BY <2>2, <2>3 DEF Range
  <2>. QED
    BY <2>3, <2>4 DEF f
<1>5. \A g : g \in Range(admitted') <=> g \in Range(admitted) \/ g = e
  <2>. DEFINE f == e
  <2>. SUFFICES \A g : g \in Range(admitted') <=> g \in Range(admitted) \/ g = f
    OBVIOUS
  <2>1. /\ N \in Nat
        /\ DOMAIN admitted = 1 .. N /\ DOMAIN admitted' = 1 .. N + 1
        /\ \A i \in 1 .. N : admitted'[i] = admitted[i]
        /\ admitted'[N + 1] = f
    BY <1>4
  <2>. HIDE DEF f, N
  <2>2. \A i \in 1 .. N + 1 : i \in 1 .. N \/ i = N + 1
    BY <2>1
  <2>3. \A i \in 1 .. N : i \in 1 .. N + 1
    BY <2>1
  <2>4. N + 1 \in 1 .. N + 1
    BY <2>1
  <2>. QED
    BY <2>1, <2>2, <2>3, <2>4 DEF Range
<1>6. /\ outbox'[e] = N + 1
      /\ \A f \in Event : f # e => outbox'[f] = outbox[f]
  BY <1>2, <1>3 DEF TypeOK
<1>7. row[e] = 0 /\ tx.rows[e] = 0
  BY <1>2 DEF RowsAdmitted, TypeOK
<1>. HIDE DEF e, N
<1>8. TypeOK'
  BY AdmitTypeOK
<1>9. NoneLost'
  <2>. SUFFICES ASSUME NEW f \in Range(admitted') PROVE outbox'[f] > 0 \/ row'[f] > 0
    BY DEF NoneLost
  <2>1. CASE f = e
    BY <2>1, <1>4, <1>6
  <2>2. CASE f \in Range(admitted) /\ f # e
    <3>1. outbox[f] > 0 \/ row[f] > 0
      BY <2>2 DEF NoneLost
    <3>2. f \in Event
      BY <2>2, InRange, AdmittedEvent
    <3>. QED
      BY <3>1, <3>2, <2>2, <1>3, <1>6
  <2>. QED
    BY <2>1, <2>2, <1>5
<1>10. Numbered'
  BY <1>4, <1>6 DEF Numbered
<1>11. Once'
  <2>1. \A i, j \in DOMAIN admitted' : admitted'[i] = admitted'[j] => i = j
    BY <1>4 DEF Once
  <2>2. ASSUME NEW d \in Call, NEW n \in Nat, <<d, n>> \in Range(admitted')
        PROVE  n < at'[d]
    <3>1. CASE <<d, n>> = e
      BY <3>1, <1>2, <1>3 DEF TypeOK, e
    <3>2. CASE <<d, n>> \in Range(admitted)
      BY <3>2, <1>2, <1>3 DEF TypeOK, Once
    <3>. QED
      BY <1>5, <2>2, <3>1, <3>2
  <2>. QED
    BY <2>1, <2>2 DEF Once
<1>12. RowsAdmitted'
  BY <1>3, <1>5 DEF RowsAdmitted
<1>13. PendingLast'
  BY <1>4, <1>6 DEF PendingLast
<1>14. CommittedFirst'
  BY <1>3, <1>4, <1>7 DEF CommittedFirst
<1>15. TxFollows'
  BY <1>3, <1>4, <1>7 DEF TxFollows
<1>16. Ids' /\ Progress'
  BY <1>3 DEF Ids, Progress
<1>17. BatchFirst'
  <2>1. worker.batch \subseteq Pending /\ e \notin Pending
    BY <1>2, <1>4 DEF BatchFirst, Pending, Numbered
  <2>2. worker'.batch \subseteq Pending'
    BY <1>3, <1>6, <2>1 DEF Pending
  <2>3. \A i, j \in DOMAIN admitted' :
           /\ i < j
           /\ admitted'[j] \in worker'.batch
           /\ outbox'[admitted'[i]] > 0
           => admitted'[i] \in worker'.batch
    BY <1>3, <1>4, <1>6, <2>1 DEF BatchFirst
  <2>. QED
    BY <2>2, <2>3 DEF BatchFirst
<1>. QED
  BY <1>8, <1>9, <1>10, <1>11, <1>12, <1>13, <1>14, <1>15, <1>16, <1>17

\* pending() reads the oldest events: whatever is older than one of them, and
\* still there, is among them.
LEMMA OldestIsFirst ==
  ASSUME TypeOK, NEW e \in Oldest, NEW f \in Pending, outbox[f] < outbox[e]
  PROVE  f \in Oldest
<1>. DEFINE S == Before(f, Pending)
            T == Before(e, Pending)
<1>1. e \in Event /\ f \in Event /\ e \in Pending
  BY DEF Oldest, Pending
<1>2. S \subseteq T /\ T \subseteq Event
  <2>1. \A g \in Event : outbox[g] \in Nat
    BY DEF TypeOK
  <2>. QED
    BY <1>1, <2>1 DEF Before, Pending
<1>3. Cardinality(T) < Batch
  BY DEF Oldest
<1>. HIDE DEF S, T
<1>4. /\ IsFiniteSet(S) /\ IsFiniteSet(T)
      /\ Cardinality(S) \in Nat /\ Cardinality(T) \in Nat
  BY <1>2, PartFinite
<1>5. Cardinality(S) <= Cardinality(T)
  BY <1>2, <1>4, FS_Subset
<1>6. Cardinality(S) < Batch
  BY <1>3, <1>4, <1>5, OutboxConstants
<1>. QED
  BY <1>1, <1>6 DEF Oldest, Pending, S

\* Sequence numbers grow along the history.
LEMMA NumberIsPosition ==
  ASSUME TypeOK, Numbered, Once, NEW i \in DOMAIN admitted, outbox[admitted[i]] > 0
  PROVE  outbox[admitted[i]] = i
BY AdmittedEvent DEF Numbered, Once

LEMMA PollIInv == ASSUME IInv, Poll PROVE IInv'
<1>. USE DEF IInv
<1>1. UNCHANGED <<at, outbox, tx, row, serial, admitted>>
  BY DEF Poll, calls, database
<1>2. worker.pc = "poll" /\ worker'.pc = "insert" /\ worker'.batch = Oldest
  BY DEF Poll, At
<1>3. TypeOK'
  BY PollTypeOK
<1>4. NoneLost' /\ Numbered' /\ RowsAdmitted' /\ PendingLast' /\ CommittedFirst'
      /\ TxFollows' /\ Ids' /\ Once'
  BY <1>1 DEF NoneLost, Numbered, RowsAdmitted, PendingLast, CommittedFirst, TxFollows, Ids, Once
<1>5. Progress'
  BY <1>1, <1>2 DEF Progress
<1>6. BatchFirst'
  <2>1. Oldest \subseteq Pending /\ Pending' = Pending
    BY <1>1 DEF Oldest, Pending
  <2>2. ASSUME NEW i \in DOMAIN admitted, NEW j \in DOMAIN admitted, i < j,
               admitted[j] \in Oldest, outbox[admitted[i]] > 0
        PROVE  admitted[i] \in Oldest
    <3>1. admitted[i] \in Pending /\ admitted[j] \in Pending
      BY <2>1, <2>2, AdmittedEvent DEF Pending
    <3>2. outbox[admitted[i]] = i /\ outbox[admitted[j]] = j
      BY <3>1, NumberIsPosition DEF Pending
    <3>. QED
      BY <2>2, <3>1, <3>2, OldestIsFirst
  <2>. QED
    BY <1>1, <1>2, <2>1, <2>2 DEF BatchFirst
<1>. QED
  BY <1>3, <1>4, <1>5, <1>6

\* The ids of one batch are new ones.
LEMMA InsertedId ==
  ASSUME TypeOK, NEW e \in Event
  PROVE  /\ InsertedRows[e] \in Nat
         /\ InsertedRows[e] <= serial + Cardinality(worker.batch)
         /\ InsertedRows[e] > 0 => serial < InsertedRows[e]
<1>. DEFINE rank == Cardinality(Before(e, worker.batch))
            size == Cardinality(worker.batch)
<1>1. serial \in Nat /\ size \in Nat
  BY BatchSize DEF TypeOK
<1>2. e \in worker.batch => rank \in Nat /\ rank < size
  BY RankInBatch
<1>3. InsertedRows[e] = IF e \in worker.batch /\ row[e] = 0 THEN serial + rank + 1 ELSE 0
  BY DEF InsertedRows
<1>. HIDE DEF rank, size
<1>4. /\ InsertedRows[e] \in Nat
      /\ InsertedRows[e] <= serial + size
      /\ InsertedRows[e] > 0 => serial < InsertedRows[e]
  BY <1>1, <1>2, <1>3
<1>. QED
  BY <1>4 DEF size

\* The rows that Insert adds: where they are, and their order.
LEMMA InsertedOrder ==
  ASSUME IInv
  PROVE  /\ \A e \in Event : InsertedRows[e] > 0 <=> e \in worker.batch /\ row[e] = 0
         /\ \A e, f \in Event :
              /\ InsertedRows[e] > 0 /\ InsertedRows[f] > 0
              /\ outbox[e] < outbox[f]
              => InsertedRows[e] < InsertedRows[f]
<1>. DEFINE rank(e) == Cardinality(Before(e, worker.batch))
            size == Cardinality(worker.batch)
<1>1. serial \in Nat /\ size \in Nat /\ worker.batch \subseteq Event
      /\ \A e \in Event : row[e] \in Nat /\ outbox[e] \in Nat
  BY BatchSize DEF IInv, TypeOK
<1>2. \A e \in worker.batch : rank(e) \in Nat /\ rank(e) < size
  BY RankInBatch DEF IInv
<1>3. ASSUME NEW e \in worker.batch, NEW f \in worker.batch, outbox[e] < outbox[f]
      PROVE  rank(e) < rank(f)
  <2>. DEFINE S == Before(e, worker.batch)
              T == Before(f, worker.batch)
  <2>1. S \subseteq T /\ T \subseteq Event /\ e \in T /\ e \notin S
    BY <1>1, <1>3 DEF Before
  <2>. HIDE DEF S, T
  <2>2. /\ IsFiniteSet(S) /\ IsFiniteSet(T)
        /\ Cardinality(S) \in Nat /\ Cardinality(T) \in Nat
    BY <2>1, PartFinite
  <2>3. Cardinality(S) <= Cardinality(T) /\ Cardinality(S) # Cardinality(T)
    BY <2>1, <2>2, FS_Subset
  <2>4. Cardinality(S) < Cardinality(T)
    BY <2>2, <2>3
  <2>. QED
    BY <2>4 DEF S, T
<1>4. \A e \in Event : InsertedRows[e] = IF e \in worker.batch /\ row[e] = 0
                                       THEN serial + rank(e) + 1 ELSE 0
  BY DEF InsertedRows
<1>. HIDE DEF rank, size
<1>5. \A e \in Event : InsertedRows[e] > 0 <=> e \in worker.batch /\ row[e] = 0
  BY <1>1, <1>2, <1>4
<1>6. \A e, f \in Event :
        /\ InsertedRows[e] > 0 /\ InsertedRows[f] > 0
        /\ outbox[e] < outbox[f]
        => InsertedRows[e] < InsertedRows[f]
  BY <1>1, <1>2, <1>3, <1>4, <1>5
<1>. QED
  BY <1>5, <1>6

LEMMA InsertIInv == ASSUME IInv, Insert PROVE IInv'
<1>. USE DEF IInv
<1>1. /\ UNCHANGED <<at, outbox, row, admitted>>
      /\ tx = NoTx /\ tx'.state = "open" /\ tx'.rows = InsertedRows
      /\ serial' = serial + Cardinality(worker.batch)
  BY DEF Insert, calls
<1>2. worker.pc = "insert" /\ worker'.pc = "commit" /\ worker'.batch = worker.batch
  BY DEF Insert, At, Goto, TypeOK
<1>3. TypeOK'
  BY InsertTypeOK
<1>4. NoneLost' /\ Numbered' /\ PendingLast' /\ CommittedFirst' /\ Once'
  BY <1>1 DEF NoneLost, Numbered, PendingLast, CommittedFirst, Once
<1>5. BatchFirst'
  BY <1>1, <1>2 DEF BatchFirst, Pending
<1>6. \A e \in worker.batch : e \in Event /\ outbox[e] > 0 /\ e \in Range(admitted)
  <2>. SUFFICES ASSUME NEW e \in worker.batch
                PROVE  e \in Event /\ outbox[e] > 0 /\ e \in Range(admitted)
    OBVIOUS
  <2>1. e \in Event /\ outbox[e] > 0
    BY DEF BatchFirst, Pending
  <2>. QED
    BY <2>1 DEF Numbered, Range
<1>7. RowsAdmitted'
  BY <1>1, <1>6, InsertedOrder DEF RowsAdmitted
<1>8. Ids'
  <2>1. serial \in Nat /\ Cardinality(worker.batch) \in Nat
    BY BatchSize DEF TypeOK
  <2>2. \A e \in Event : row[e] \in Nat /\ row[e] <= serial
    BY DEF Ids, TypeOK
  <2>. DEFINE size == Cardinality(worker.batch)
              new == InsertedRows
  <2>3. \A e \in Event : /\ new[e] \in Nat /\ new[e] <= serial + size
                         /\ new[e] > 0 => row[e] = 0 /\ serial < new[e]
    <3>. SUFFICES ASSUME NEW e \in Event
                  PROVE  /\ new[e] \in Nat /\ new[e] <= serial + size
                         /\ new[e] > 0 => row[e] = 0 /\ serial < new[e]
      OBVIOUS
    <3>1. /\ new[e] \in Nat /\ new[e] <= serial + size
          /\ new[e] > 0 => serial < new[e]
      BY InsertedId
    <3>2. new[e] > 0 => row[e] = 0
      BY InsertedOrder
    <3>. QED
      BY <3>1, <3>2
  <2>4. serial' = serial + size /\ tx'.rows = new /\ row' = row
    BY <1>1
  <2>. HIDE DEF size, new
  <2>5. \A e \in Event : row[e] <= serial + size /\ new[e] <= serial + size
    BY <2>1, <2>2, <2>3 DEF size
  <2>6. \A e, f \in Event : new[e] > 0 => row[e] = 0 /\ row[f] < new[e]
    BY <2>1, <2>2, <2>3
  <2>. QED
    BY <2>4, <2>5, <2>6 DEF Ids
<1>9. Progress'
  <2>1. \A e \in worker.batch : row[e] > 0 \/ InsertedRows[e] > 0
    BY <1>6, InsertedOrder DEF TypeOK
  <2>. QED
    BY <1>1, <1>2, <2>1 DEF Progress
<1>10. TxFollows'
  <2>. SUFFICES ASSUME NEW i \in DOMAIN admitted, NEW j \in DOMAIN admitted, i < j,
                       InsertedRows[admitted[j]] > 0, ~(row[admitted[i]] > 0)
                PROVE  /\ InsertedRows[admitted[i]] > 0
                       /\ InsertedRows[admitted[i]] < InsertedRows[admitted[j]]
    BY <1>1 DEF TxFollows
  <2>1. /\ admitted[i] \in Event /\ admitted[j] \in Event
        /\ admitted[i] \in Range(admitted)
    BY AdmittedEvent
  <2>2. admitted[j] \in worker.batch /\ outbox[admitted[j]] > 0
    BY <2>1, <1>6, InsertedOrder
  <2>3. row[admitted[i]] = 0 /\ outbox[admitted[i]] > 0
    BY <2>1 DEF NoneLost, TypeOK
  <2>4. admitted[i] \in worker.batch
    BY <2>2, <2>3 DEF BatchFirst
  <2>5. outbox[admitted[i]] < outbox[admitted[j]]
    BY <2>2, <2>3, NumberIsPosition
  <2>. QED
    BY <2>1, <2>3, <2>4, <2>5, InsertedOrder
<1>. QED
  BY <1>3, <1>4, <1>5, <1>7, <1>8, <1>9, <1>10

\* The transaction's client goes away, or it is gone and the server undoes it.
LEMMA GoneIInv ==
  ASSUME IInv, CommitFails \/ TxAborts \/ Crash \/ Start
  PROVE  IInv'
<1>. USE DEF IInv
<1>1. TypeOK'
  BY EndTypeOK, RestartTypeOK
<1>2. UNCHANGED <<at, outbox, row, serial, admitted>>
  BY DEF CommitFails, TxAborts, Crash, Start, calls, database
<1>3. \/ tx'.rows = tx.rows /\ (tx'.state = "none" => tx.state = "none")
      \/ tx' = NoTx
  BY AbandonedTypeOK DEF CommitFails, TxAborts, Crash, Start, database
<1>4. NoneLost' /\ Numbered' /\ Once' /\ PendingLast' /\ CommittedFirst'
  BY <1>2 DEF NoneLost, Numbered, Once, PendingLast, CommittedFirst
<1>5. \A e \in Event : tx'.rows[e] = tx.rows[e] \/ tx'.rows[e] = 0
  BY <1>3 DEF NoTx
<1>6. RowsAdmitted'
  BY <1>2, <1>5 DEF RowsAdmitted
<1>7. TxFollows'
  <2>1. CASE tx'.rows = tx.rows
    BY <1>2, <2>1 DEF TxFollows
  <2>2. CASE tx' = NoTx
    <3>1. \A i \in DOMAIN admitted : tx'.rows[admitted[i]] = 0
      BY <2>2, AdmittedEvent DEF NoTx
    <3>. QED
      BY <1>2, <3>1 DEF TxFollows
  <2>. QED
    BY <1>3, <2>1, <2>2
<1>8. Ids'
  <2>1. CASE tx'.rows = tx.rows
    BY <1>2, <2>1 DEF Ids
  <2>2. CASE tx' = NoTx
    <3>1. \A e \in Event : tx'.rows[e] = 0
      BY <2>2 DEF NoTx
    <3>2. serial >= 0
      BY DEF TypeOK
    <3>. QED
      BY <1>2, <3>1, <3>2 DEF Ids
  <2>. QED
    BY <1>3, <2>1, <2>2
<1>9. /\ worker'.pc # "commit" /\ tx'.state # "open"
      /\ worker'.pc = "ack" => worker.pc = "ack" /\ worker'.batch = worker.batch
      /\ worker'.batch \in {{}, worker.batch}
  <2>1. CASE CommitFails
    BY <2>1, AbandonedTypeOK DEF CommitFails, Goto, TypeOK
  <2>2. CASE TxAborts
    BY <2>2 DEF TxAborts, NoTx, Progress
  <2>3. CASE Crash
    BY <2>3, AbandonedTypeOK DEF Crash
  <2>4. CASE Start
    BY <2>4 DEF Start, NoTx, database
  <2>. QED
    BY <2>1, <2>2, <2>3, <2>4
<1>10. BatchFirst'
  BY <1>2, <1>9 DEF BatchFirst, Pending
<1>11. Progress'
  <2>1. tx'.state = "none" => \A e \in Event : tx'.rows[e] = 0
    BY <1>3, <1>5 DEF Progress, NoTx
  <2>2. worker'.pc = "ack" => \A e \in worker'.batch : row'[e] > 0
    BY <1>2, <1>9 DEF Progress
  <2>. QED
    BY <1>9, <2>1, <2>2 DEF Progress
<1>. QED
  BY <1>1, <1>4, <1>6, <1>7, <1>8, <1>10, <1>11

\* The rows of the transaction join the table.
Merge ==
  /\ row' = [e \in Event |-> IF tx.rows[e] > 0 THEN tx.rows[e] ELSE row[e]]
  /\ tx' = NoTx
  /\ UNCHANGED <<at, outbox, serial, admitted>>

LEMMA MergeIInv == ASSUME IInv, Commit \/ TxCommits PROVE IInv'
<1>. USE DEF IInv
<1>1. TypeOK'
  BY EndTypeOK
<1>2. Merge
  BY DEF Commit, TxCommits, Merge, calls
<1>3. /\ \A e \in Event : row'[e] = IF tx.rows[e] > 0 THEN tx.rows[e] ELSE row[e]
      /\ \A e \in Event : tx'.rows[e] = 0
      /\ tx'.state = "none"
      /\ UNCHANGED <<at, outbox, serial, admitted>>
  BY <1>2 DEF Merge, NoTx
<1>4. \A e \in Event : row[e] \in Nat /\ tx.rows[e] \in Nat
  BY DEF TypeOK
<1>5. NoneLost'
  <2>. SUFFICES ASSUME NEW e \in Range(admitted) PROVE outbox[e] > 0 \/ row'[e] > 0
    BY <1>3 DEF NoneLost
  <2>1. e \in Event
    BY InRange, AdmittedEvent
  <2>. QED
    BY <1>3, <2>1 DEF NoneLost
<1>6. Numbered' /\ Once' /\ PendingLast'
  BY <1>3 DEF Numbered, Once, PendingLast
<1>7. RowsAdmitted'
  BY <1>3 DEF RowsAdmitted
<1>8. CommittedFirst'
  <2>. SUFFICES ASSUME NEW i \in DOMAIN admitted, NEW j \in DOMAIN admitted, i < j,
                       row'[admitted[j]] > 0
                PROVE  row'[admitted[i]] > 0 /\ row'[admitted[i]] < row'[admitted[j]]
    BY <1>3 DEF CommittedFirst
  <2>. DEFINE e == admitted[i]
              f == admitted[j]
  <2>1. e \in Event /\ f \in Event
    BY AdmittedEvent
  <2>2. row[f] > 0 => row[e] > 0 /\ row[e] < row[f]
    BY DEF CommittedFirst
  <2>3. tx.rows[f] > 0 => row[e] > 0 \/ (tx.rows[e] > 0 /\ tx.rows[e] < tx.rows[f])
    BY DEF TxFollows
  <2>. HIDE DEF e, f
  <2>4. /\ tx.rows[f] > 0 => row[f] = 0 /\ row[e] < tx.rows[f]
        /\ tx.rows[e] > 0 => row[e] = 0
    BY <2>1 DEF Ids
  <2>5. /\ row'[e] = IF tx.rows[e] > 0 THEN tx.rows[e] ELSE row[e]
        /\ row'[f] = IF tx.rows[f] > 0 THEN tx.rows[f] ELSE row[f]
        /\ row'[f] > 0
    BY <1>3, <2>1 DEF f
  <2>6. row'[e] > 0 /\ row'[e] < row'[f]
    BY <1>4, <2>1, <2>2, <2>3, <2>4, <2>5
  <2>. QED
    BY <2>6 DEF e, f
<1>9. TxFollows'
  <2>1. \A i \in DOMAIN admitted : tx'.rows[admitted[i]] = 0
    BY <1>3, AdmittedEvent
  <2>. QED
    BY <1>3, <2>1 DEF TxFollows
<1>10. Ids'
  <2>1. \A e \in Event : row'[e] <= serial /\ tx'.rows[e] <= serial
    BY <1>3, <1>4 DEF Ids
  <2>. QED
    BY <1>3, <2>1 DEF Ids
<1>11. \/ worker.pc = "commit" /\ worker'.pc = "ack" /\ worker'.batch = worker.batch
       \/ worker.pc # "commit" /\ UNCHANGED worker
  BY DEF Commit, TxCommits, At, Goto, TypeOK, Progress
<1>12. BatchFirst'
  BY <1>3, <1>11 DEF BatchFirst, Pending
<1>13. Progress'
  <2>1. \A e \in Event : row[e] > 0 \/ tx.rows[e] > 0 => row'[e] > 0
    BY <1>3
  <2>2. worker.batch \subseteq Event
    BY DEF TypeOK
  <2>3. worker'.pc = "ack" => \A e \in worker'.batch : row'[e] > 0
    BY <1>11, <2>1, <2>2 DEF Progress
  <2>. QED
    BY <1>3, <1>11, <2>3 DEF Progress
<1>. QED
  BY <1>1, <1>5, <1>6, <1>7, <1>8, <1>9, <1>10, <1>12, <1>13

LEMMA AckIInv == ASSUME IInv, Ack PROVE IInv'
<1>. USE DEF IInv
<1>1. /\ worker.pc = "ack" /\ worker'.pc = "poll" /\ worker'.batch = {}
      /\ \A e \in Event : outbox'[e] = IF e \in worker.batch THEN 0 ELSE outbox[e]
      /\ UNCHANGED <<at, tx, row, serial, admitted>>
  BY DEF Ack, At, calls, database
<1>2. TypeOK'
  BY AckTypeOK
<1>3. Once' /\ RowsAdmitted' /\ CommittedFirst' /\ TxFollows' /\ Ids' /\ Numbered' /\ BatchFirst'
  BY <1>1 DEF Once, RowsAdmitted, CommittedFirst, TxFollows, Ids, Numbered, BatchFirst
<1>4. NoneLost'
  <2>. SUFFICES ASSUME NEW e \in Range(admitted) PROVE outbox'[e] > 0 \/ row[e] > 0
    BY <1>1 DEF NoneLost
  <2>1. e \in Event
    BY InRange, AdmittedEvent
  <2>. QED
    BY <1>1, <2>1 DEF NoneLost, Progress
<1>5. PendingLast'
  <2>. SUFFICES ASSUME NEW i \in DOMAIN admitted, NEW j \in DOMAIN admitted, i < j,
                       outbox'[admitted[i]] > 0
                PROVE  outbox'[admitted[j]] > 0
    BY <1>1 DEF PendingLast
  <2>1. admitted[i] \in Event /\ admitted[j] \in Event
    BY AdmittedEvent
  <2>2. outbox[admitted[i]] > 0 /\ admitted[i] \notin worker.batch
    BY <1>1, <2>1
  <2>3. outbox[admitted[j]] > 0
    BY <2>2 DEF PendingLast
  <2>4. admitted[j] \notin worker.batch
    BY <2>2 DEF BatchFirst
  <2>. QED
    BY <1>1, <2>1, <2>3, <2>4
<1>6. Progress'
  BY <1>1 DEF Progress
<1>. QED
  BY <1>2, <1>3, <1>4, <1>5, <1>6

LEMMA StutterIInv == ASSUME IInv, UNCHANGED vars PROVE IInv'
<1>1. UNCHANGED <<service, at, fate, effected, outbox, worker, tx, row, serial, faults, admitted>>
  BY DEF vars, calls, database
<1>2. Pending' = Pending
  BY <1>1 DEF Pending
<1>3. TypeOK'
  BY <1>1, <1>2 DEF IInv, TypeOK
<1>. QED
  BY <1>1, <1>2, <1>3
     DEF IInv, NoneLost, Numbered, Once, RowsAdmitted, PendingLast, CommittedFirst, BatchFirst,
         TxFollows, Ids, Progress

LEMMA StepIInv == ASSUME IInv, [Next]_vars PROVE IInv'
<1>1. CASE \E c \in Call : Admit(c)
  BY <1>1, AdmitIInv
<1>2. CASE Quiet
  BY <1>2, QuietIInv
<1>3. CASE Poll
  BY <1>3, PollIInv
<1>4. CASE Insert
  BY <1>4, InsertIInv
<1>5. CASE Commit \/ TxCommits
  BY <1>5, MergeIInv
<1>6. CASE Ack
  BY <1>6, AckIInv
<1>7. CASE CommitFails \/ TxAborts \/ Crash \/ Start
  BY <1>7, GoneIInv
<1>8. CASE UNCHANGED vars
  BY <1>8, StutterIInv
<1>. QED
  BY <1>1, <1>2, <1>3, <1>4, <1>5, <1>6, <1>7, <1>8 DEF Next, Worker, Quiet

\* The inductive invariant holds in every reachable state, whatever fails.
THEOREM OutboxInvariance == Spec => []IInv
<1>1. Init => IInv
  BY InitIInv
<1>2. IInv /\ [Next]_vars => IInv'
  BY StepIInv
<1>. QED
  BY <1>1, <1>2, PTL DEF Spec

\* Types, and the outbox never holds more than its limit.
THEOREM OutboxTypeCorrect == Spec => []TypeOK
<1>1. IInv => TypeOK
  BY DEF IInv
<1>. QED
  BY <1>1, OutboxInvariance, PTL

\* An admitted event stays in the outbox until its row is committed
\* (AuditSpool.acknowledge after conn.commit, persistence.py 115-116).
THEOREM NoEventLost == Spec => []NoneLost
<1>1. IInv => NoneLost
  BY DEF IInv
<1>. QED
  BY <1>1, OutboxInvariance, PTL

-------------------------------------------------------------------------------
(***************************************************************************)
(* What a reader of the table sees.                                        *)
(***************************************************************************)
\* The table changes only when a transaction commits.
LEMMA TableSteps ==
  ASSUME [Next]_vars
  PROVE  \/ UNCHANGED <<row, admitted>>
         \/ row' = row /\ \E c \in Call : Admit(c)
         \/ Merge
<1>1. CASE \E c \in Call : Admit(c)
  BY <1>1 DEF Admit, database
<1>2. CASE Quiet
  BY <1>2 DEF Quiet, Refuse, AppendFails, Effect, EffectFails, Close, CloseSpool, Stop,
              PollFails, InsertRefused, ConnectionFails, AckFails, Retry, database
<1>3. CASE Poll \/ Insert \/ Ack \/ CommitFails \/ TxAborts \/ Crash \/ Start
  BY <1>3 DEF Poll, Insert, Ack, CommitFails, TxAborts, Crash, Start, database
<1>4. CASE Commit \/ TxCommits
  BY <1>4 DEF Commit, TxCommits, Merge, calls
<1>5. CASE UNCHANGED vars
  BY <1>5 DEF vars, database
<1>. QED
  BY <1>1, <1>2, <1>3, <1>4, <1>5 DEF Next, Worker, Quiet

\* A committed row keeps its id, a new one gets a larger id than all others.
RowStep ==
  \A e, f \in Event :
    row[f] > 0 => /\ row'[f] = row[f]
                  /\ row[e] = 0 /\ row'[e] > 0 => row'[e] > row[f]

LEMMA RowsStep == ASSUME IInv, [Next]_vars PROVE RowStep
<1>1. CASE row' = row
  BY <1>1 DEF RowStep
<1>2. CASE Merge
  <2>. SUFFICES ASSUME NEW e \in Event, NEW f \in Event, row[f] > 0
                PROVE  /\ row'[f] = row[f]
                       /\ row[e] = 0 /\ row'[e] > 0 => row'[e] > row[f]
    BY DEF RowStep
  <2>1. /\ row'[e] = IF tx.rows[e] > 0 THEN tx.rows[e] ELSE row[e]
        /\ row'[f] = IF tx.rows[f] > 0 THEN tx.rows[f] ELSE row[f]
    BY <1>2 DEF Merge
  <2>2. /\ tx.rows[f] > 0 => row[f] = 0
        /\ tx.rows[e] > 0 => row[f] < tx.rows[e]
    BY DEF IInv, Ids
  <2>3. /\ row[e] \in Nat /\ row[f] \in Nat
        /\ tx.rows[e] \in Nat /\ tx.rows[f] \in Nat
    BY DEF IInv, TypeOK
  <2>. QED
    BY <2>1, <2>2, <2>3
<1>. QED
  BY <1>1, <1>2, TableSteps

\* A reader that asks for ids above the last one it saw misses no row, and sees
\* none change: a commit replayed after an uncertain one touches nothing
\* (ON CONFLICT DO NOTHING, persistence.py 113).
THEOREM CursorNeverMisses == Spec => CursorSafe
<1>1. IInv /\ [Next]_vars => [RowStep]_vars
  BY RowsStep
<1>. QED
  BY <1>1, OutboxInvariance, PTL DEF Spec, CursorSafe, RowStep

\* The positions with a row are 1 .. n.
LEMMA CommittedPositions ==
  ASSUME IInv
  PROVE  LET n == Cardinality(Committed) IN
         /\ n \in 0 .. Len(admitted)
         /\ \A i \in DOMAIN admitted : row[admitted[i]] > 0 <=> i <= n
<1>. DEFINE N == Len(admitted)
            P == {i \in 1 .. N : row[admitted[i]] > 0}
            n == Cardinality(P)
<1>1. /\ N \in Nat /\ DOMAIN admitted = 1 .. N
      /\ \A i \in 1 .. N : admitted[i] \in Event
  BY DEF IInv, TypeOK
<1>2. IsFiniteSet(1 .. N) /\ Cardinality(1 .. N) = N
  <2>1. 1 \in Int /\ N \in Int
    BY <1>1
  <2>2. IsFiniteSet(1 .. N) /\ Cardinality(1 .. N) = IF 1 > N THEN 0 ELSE N - 1 + 1
    BY <2>1, FS_Interval
  <2>. QED
    BY <1>1, <2>2
<1>3. P \subseteq 1 .. N
  OBVIOUS
<1>4. IsFiniteSet(P) /\ n \in Nat /\ n <= N
  BY <1>2, <1>3, FS_Subset, FS_CardinalityType
<1>5. \A i, j \in 1 .. N : i < j /\ j \in P => i \in P
  BY <1>1 DEF IInv, CommittedFirst
<1>. HIDE DEF P
<1>6. ASSUME NEW i \in P PROVE i <= n
  <2>1. i \in Nat \ {0} /\ i <= N
    BY <1>1, <1>3
  <2>2. 1 .. i \subseteq P
    BY <1>1, <1>5, <2>1
  <2>3. Cardinality(1 .. i) = i
    <3>1. 1 \in Int /\ i \in Int
      BY <2>1
    <3>2. Cardinality(1 .. i) = IF 1 > i THEN 0 ELSE i - 1 + 1
      BY <3>1, FS_Interval
    <3>. QED
      BY <2>1, <3>2
  <2>4. Cardinality(1 .. i) <= n
    BY <1>4, <2>2, FS_Subset
  <2>. QED
    BY <2>3, <2>4
<1>7. P = 1 .. n
  <2>1. P \subseteq 1 .. n
    BY <1>1, <1>3, <1>4, <1>6
  <2>2. 1 \in Int /\ n \in Int
    BY <1>4
  <2>3. IsFiniteSet(1 .. n) /\ Cardinality(1 .. n) = IF 1 > n THEN 0 ELSE n - 1 + 1
    BY <2>2, FS_Interval
  <2>4. Cardinality(1 .. n) = Cardinality(P)
    BY <1>4, <2>3
  <2>. QED
    BY <2>1, <2>3, <2>4, FS_Subset
<1>8. Cardinality(Committed) = n
  <2>. DEFINE f == [i \in P |-> admitted[i]]
  <2>1. f \in [P -> Committed]
    BY <1>1, <1>3 DEF Committed, P
  <2>2. ASSUME NEW e \in Committed PROVE \E i \in P : f[i] = e
    <3>1. e \in Event /\ row[e] > 0 /\ e \in Range(admitted)
      BY DEF Committed, IInv, RowsAdmitted
    <3>2. PICK i \in 1 .. N : admitted[i] = e
      BY <1>1, <3>1, InRange
    <3>3. i \in P
      BY <3>1, <3>2 DEF P
    <3>. QED
      BY <3>2, <3>3
  <2>3. ASSUME NEW i \in P, NEW j \in P, f[i] = f[j] PROVE i = j
    BY <1>1, <1>3, <2>3 DEF IInv, Once
  <2>4. f \in Bijection(P, Committed)
    BY <2>1, <2>2, <2>3 DEF Bijection, Injection, Surjection, IsInjective
  <2>5. ExistsBijection(P, Committed)
    BY <2>4 DEF ExistsBijection
  <2>. QED
    BY <1>4, <2>5, FS_Bijection
<1>9. \A i \in 1 .. N : row[admitted[i]] > 0 <=> i <= n
  <2>1. \A i \in 1 .. N : i \in P <=> i <= n
    BY <1>1, <1>4, <1>7
  <2>. QED
    BY <2>1 DEF P
<1>10. n \in 0 .. N
  BY <1>1, <1>4
<1>. HIDE DEF n
<1>. QED
  BY <1>1, <1>8, <1>9, <1>10

\* Below the row of the i-th admitted event there are i - 1 rows.
LEMMA RankOfRow ==
  ASSUME IInv, NEW i \in DOMAIN admitted, row[admitted[i]] > 0
  PROVE  Cardinality(RowsBelow(admitted[i])) = i - 1
<1>. DEFINE S == 1 .. i - 1
            T == RowsBelow(admitted[i])
            f == [k \in S |-> admitted[k]]
<1>1. /\ Len(admitted) \in Nat /\ DOMAIN admitted = 1 .. Len(admitted)
      /\ \A k \in DOMAIN admitted : admitted[k] \in Event
      /\ i \in Nat \ {0} /\ \A k \in S : k \in DOMAIN admitted /\ k < i
  <2>1. admitted \in Seq(Event)
    BY DEF IInv, TypeOK
  <2>2. /\ Len(admitted) \in Nat /\ DOMAIN admitted = 1 .. Len(admitted)
        /\ \A k \in DOMAIN admitted : admitted[k] \in Event
    BY <2>1
  <2>. QED
    BY <2>2
<1>2. f \in [S -> T]
  <2>. SUFFICES ASSUME NEW k \in S PROVE admitted[k] \in T
    OBVIOUS
  <2>1. row[admitted[k]] > 0 /\ row[admitted[k]] < row[admitted[i]]
    BY <1>1 DEF IInv, CommittedFirst
  <2>. QED
    BY <1>1, <2>1 DEF RowsBelow, Committed
<1>3. ASSUME NEW e \in T PROVE \E k \in S : f[k] = e
  <2>1. e \in Event /\ row[e] > 0 /\ row[e] < row[admitted[i]] /\ e \in Range(admitted)
    BY DEF RowsBelow, Committed, IInv, RowsAdmitted
  <2>2. PICK k \in DOMAIN admitted : admitted[k] = e
    BY <2>1, InRange
  <2>3. row[e] \in Nat /\ row[admitted[i]] \in Nat
    BY <1>1, <2>1 DEF IInv, TypeOK
  <2>4. k # i /\ ~(i < k)
    BY <2>1, <2>2, <2>3 DEF IInv, CommittedFirst
  <2>5. k \in S
    BY <1>1, <2>4
  <2>. QED
    BY <2>2, <2>5
<1>4. ASSUME NEW j \in S, NEW k \in S, f[j] = f[k] PROVE j = k
  BY <1>1, <1>4 DEF IInv, Once
<1>. HIDE DEF T
<1>5. f \in Bijection(S, T)
  BY <1>2, <1>3, <1>4 DEF Bijection, Injection, Surjection, IsInjective
<1>6. ExistsBijection(S, T)
  BY <1>5 DEF ExistsBijection
<1>7. IsFiniteSet(S) /\ Cardinality(S) = i - 1
  <2>1. 1 \in Int /\ i - 1 \in Int
    BY <1>1
  <2>2. IsFiniteSet(S) /\ Cardinality(S) = IF 1 > i - 1 THEN 0 ELSE (i - 1) - 1 + 1
    BY <2>1, FS_Interval
  <2>. QED
    BY <1>1, <2>2
<1>8. Cardinality(T) = i - 1
  BY <1>6, <1>7, FS_Bijection
<1>. QED
  BY <1>8 DEF T

\* A reader sees the first part of the history of admissions, whole and in order.
PrefixSeen ==
  LET n == Cardinality(Committed) IN
  /\ n \in 0 .. Len(admitted)
  /\ Visible = SubSeq(admitted, 1, n)
  /\ \A i \in DOMAIN admitted : row[admitted[i]] > 0 <=> i <= n

LEMMA VisibleIsPrefix == IInv => PrefixSeen
<1>. SUFFICES ASSUME IInv
              PROVE  /\ Cardinality(Committed) \in 0 .. Len(admitted)
                     /\ Visible = SubSeq(admitted, 1, Cardinality(Committed))
                     /\ \A i \in DOMAIN admitted :
                          row[admitted[i]] > 0 <=> i <= Cardinality(Committed)
  BY DEF PrefixSeen
<1>. DEFINE n == Cardinality(Committed)
            N == Len(admitted)
<1>1. n \in 0 .. N /\ \A i \in DOMAIN admitted : row[admitted[i]] > 0 <=> i <= n
  BY CommittedPositions
<1>2. /\ admitted \in Seq(Event) /\ N \in Nat /\ DOMAIN admitted = 1 .. N
      /\ \A i \in 1 .. N : admitted[i] \in Event
  <2>1. admitted \in Seq(Event)
    BY DEF IInv, TypeOK
  <2>. QED
    BY <2>1
<1>3. ASSUME NEW i \in 1 .. n
      PROVE  (CHOOSE e \in Committed : Cardinality(RowsBelow(e)) = i - 1) = admitted[i]
  <2>1. i \in 1 .. N /\ i \in Nat /\ i \in DOMAIN admitted /\ i <= n
    BY <1>1, <1>2
  <2>2. admitted[i] \in Committed /\ Cardinality(RowsBelow(admitted[i])) = i - 1
    BY <1>1, <1>2, <2>1, RankOfRow DEF Committed
  <2>3. ASSUME NEW e \in Committed, Cardinality(RowsBelow(e)) = i - 1
        PROVE  e = admitted[i]
    <3>1. e \in Event /\ row[e] > 0 /\ e \in Range(admitted)
      BY DEF Committed, IInv, RowsAdmitted
    <3>2. PICK k \in DOMAIN admitted : admitted[k] = e
      BY <3>1, InRange
    <3>3. Cardinality(RowsBelow(admitted[k])) = k - 1
      BY <3>1, <3>2, RankOfRow
    <3>4. k \in Nat
      BY <1>2, <3>2
    <3>5. k = i
      BY <2>1, <2>3, <3>2, <3>3, <3>4
    <3>. QED
      BY <3>2, <3>5
  <2>. QED
    BY <2>2, <2>3
<1>4. Visible = [i \in 1 .. n |-> admitted[i]]
  BY <1>3 DEF Visible
<1>5. SubSeq(admitted, 1, n) = [i \in 1 .. n |-> admitted[i]]
  <2>. HIDE DEF n
  <2>1. n \in Nat /\ n <= N
    BY <1>1, <1>2
  <2>2. SubSeq(admitted, 1, n) = [i \in 1 .. (1 + n - 1) |-> admitted[i + 1 - 1]]
    BY <1>2, <2>1
  <2>3. 1 + n - 1 = n /\ \A i \in 1 .. n : i + 1 - 1 = i
    BY <2>1
  <2>. QED
    BY <2>2, <2>3
<1>. QED
  BY <1>1, <1>4, <1>5

\* Every step of the outbox is a step of the log it promises, or changes nothing
\* that a reader sees.
LEMMA LogStep ==
  ASSUME IInv, PrefixSeen, PrefixSeen', [Next]_vars
  PROVE  [Log!Next]_<<admitted, Visible>>
<1>1. CASE UNCHANGED <<row, admitted>>
  <2>1. Visible' = Visible
    BY <1>1 DEF Visible, Committed, RowsBelow
  <2>. QED
    BY <1>1, <2>1
<1>2. CASE row' = row /\ \E c \in Call : Admit(c)
  <2>1. PICK c \in Call : Admit(c)
    BY <1>2
  <2>2. Doing(c, "audit") /\ admitted' = Append(admitted, <<c, at[c]>>)
    BY <2>1 DEF Admit
  <2>3. <<c, at[c]>> \in Event /\ <<c, at[c]>> \notin Range(admitted)
    BY <2>2, NextEvent DEF IInv
  <2>4. Visible' = Visible
    BY <1>2 DEF Visible, Committed, RowsBelow
  <2>5. Log!Admit(<<c, at[c]>>)
    BY <2>2, <2>3, <2>4 DEF Log!Admit, Range
  <2>6. \E e \in Event : Log!Admit(e)
    BY <2>3, <2>5
  <2>. QED
    BY <2>6 DEF Log!Next
<1>3. CASE Merge
  <2>. DEFINE n == Cardinality(Committed)
              m == Cardinality(Committed')
              N == Len(admitted)
  <2>1. /\ n \in 0 .. N /\ Visible = SubSeq(admitted, 1, n)
        /\ \A i \in DOMAIN admitted : row[admitted[i]] > 0 <=> i <= n
    BY DEF PrefixSeen
  <2>2. admitted' = admitted
    BY <1>3 DEF Merge
  <2>3. /\ m \in 0 .. N /\ Visible' = SubSeq(admitted, 1, m)
        /\ \A i \in DOMAIN admitted : row'[admitted[i]] > 0 <=> i <= m
    BY <2>2 DEF PrefixSeen
  <2>4. /\ admitted \in Seq(Event) /\ N \in Nat /\ DOMAIN admitted = 1 .. N
    BY DEF IInv, TypeOK
  <2>. HIDE DEF n, m, N
  <2>5. n <= m
    <3>. SUFFICES ASSUME n > m PROVE FALSE
      BY <2>1, <2>3, <2>4
    <3>1. n \in DOMAIN admitted /\ row[admitted[n]] > 0
      BY <2>1, <2>3, <2>4
    <3>2. admitted[n] \in Event
      BY <3>1, AdmittedEvent DEF IInv
    <3>3. row'[admitted[n]] > 0
      BY <1>3, <3>1, <3>2 DEF Merge
    <3>. QED
      BY <2>1, <2>3, <2>4, <3>1, <3>3
  <2>6. CASE m = n
    BY <2>1, <2>2, <2>3, <2>6
  <2>7. CASE m > n
    <3>1. Len(Visible) = n
      BY <2>1, <2>4 DEF N
    <3>2. m \in 1 .. Len(admitted)
      BY <2>1, <2>3, <2>4, <2>7 DEF N
    <3>. QED
      BY <2>2, <2>3, <2>7, <3>1, <3>2 DEF Log!Next, Log!Publish
  <2>. QED
    BY <2>1, <2>3, <2>4, <2>5, <2>6, <2>7
<1>. QED
  BY <1>1, <1>2, <1>3, TableSteps

\* The outbox, the delivery thread and the table implement a log that holds each
\* admitted event exactly once, in the order of admission, and only grows.
THEOREM OutboxImplementsLog == Spec => ImplementsLog
<1>1. Init => Log!Init
  <2>. SUFFICES ASSUME Init PROVE Log!Init
    OBVIOUS
  <2>1. Committed = {}
    BY DEF Init, Committed
  <2>2. Cardinality(Committed) = 0
    BY <2>1, FS_EmptySet
  <2>3. Visible = <<>>
    BY <2>2 DEF Visible
  <2>. QED
    BY <2>3 DEF Init, Log!Init
<1>2. IInv /\ PrefixSeen /\ PrefixSeen' /\ [Next]_vars => [Log!Next]_<<admitted, Visible>>
  BY LogStep
<1>. QED
  BY <1>1, <1>2, OutboxInvariance, VisibleIsPrefix, PTL DEF Spec, ImplementsLog, Log!Spec
===============================================================================
