----------------------------- MODULE AuditOutbox ------------------------------
(***************************************************************************)
(* The audit trail of one process: callers that audit what they do, the    *)
(* bounded SQLite outbox that admits their events (AuditSpool), and the    *)
(* thread that delivers them to PostgreSQL (PersistenceLayer._audit_worker)*)
(* across lost connections, commits of unknown outcome, and crashes.       *)
(*                                                                         *)
(* A call is one FUSE callback or SSH command.  Plan gives, per kind, its  *)
(* audited and its effective steps in the order of the code.  Its event    *)
(* <<c, n>> is the n-th step's, a fresh uuid4 in the code.  Every          *)
(* environment failure is counted in faults and bounded by MaxFaults.      *)
(***************************************************************************)
EXTENDS Naturals, Sequences, FiniteSets, Functions

CONSTANTS
  Call,        \* the calls that audit themselves
  Kind,        \* call -> "unlink", "write", "create" or "command"
  Limit,       \* max_events of the outbox
  Batch,       \* the 100 events of one pending()
  Unstorable,  \* events whose row PostgreSQL refuses whenever it is inserted
  MaxFaults    \* bound on failures of the environment

\* The gateway: audit the command, have it executed, audit its result.
CommandPlan == <<"audit", "effect", "audit">>

\* FUSE: unlink before its script; write before and after; create only after.
Plan == [unlink  |-> <<"audit", "effect">>,
         write   |-> <<"audit", "effect", "audit">>,
         create  |-> <<"effect", "audit">>,
         command |-> CommandPlan]

Steps(c) == Plan[Kind[c]]
Event == UNION {{c} \X {n \in DOMAIN Steps(c) : Steps(c)[n] = "audit"} : c \in Call}

ASSUME OutboxConstants ==
  /\ Call # {} /\ IsFiniteSet(Call)
  /\ Kind \in [Call -> DOMAIN Plan]
  /\ Limit \in Nat \ {0} /\ Batch \in Nat \ {0} /\ MaxFaults \in Nat
  /\ Unstorable \subseteq Event

VARIABLES
  service,     \* "up", "closing" (running = False), "closed" (spool closed), "down"
  at,          \* call -> the next step of its plan; past the end when it returned
  fate,        \* call -> "live", "failed" (it raised), "killed" (with its process)
  effected,    \* calls whose effect took place
  outbox,      \* event -> its sequence number in the outbox, 0 when not there
  worker,      \* the delivery thread: where it is, and the batch it holds
  tx,          \* the transaction PostgreSQL has open
  row,         \* event -> id of its committed audit_log row, 0 when it has none
  serial,      \* last id the BIGSERIAL handed out
  faults,      \* failures so far
  admitted     \* history: the events the outbox accepted, oldest first

calls == <<at, fate, effected>>
database == <<tx, row, serial>>
vars == <<service, calls, outbox, worker, database, faults, admitted>>

Pending == {e \in Event : outbox[e] > 0}
Before(e, S) == {f \in S : outbox[f] < outbox[e]}

\* Mutant of Oldest: DESC for ASC in pending().
NewestFirst == {e \in Pending : Cardinality(Pending \ Before(e, Pending)) <= Batch}

\* pending(): the oldest events, at most Batch of them.
Oldest == {e \in Pending : Cardinality(Before(e, Pending)) < Batch}

NoTx == [state |-> "none", rows |-> [e \in Event |-> 0]]
At(pc) == worker.pc = pc
Goto(pc) == worker' = [worker EXCEPT !.pc = pc]
Process == {"up", "closing", "closed"}
Working == {"poll", "insert", "commit", "ack", "backoff"}

Fault ==
  /\ faults < MaxFaults
  /\ faults' = faults + 1

Init ==
  /\ service = "up"
  /\ at = [c \in Call |-> 1]
  /\ fate = [c \in Call |-> "live"]
  /\ effected = {}
  /\ outbox = [e \in Event |-> 0]
  /\ worker = [pc |-> "poll", batch |-> {}]
  /\ tx = NoTx
  /\ row = [e \in Event |-> 0]
  /\ serial = 0
  /\ faults = 0
  /\ admitted = <<>>

-------------------------------------------------------------------------------
(***************************************************************************)
(* Callers.                                                                *)
(***************************************************************************)
\* Call c is in progress and its next step is of this sort.
Doing(c, sort) ==
  /\ service \in Process
  /\ fate[c] = "live"
  /\ at[c] \in DOMAIN Steps(c)
  /\ Steps(c)[at[c]] = sort

Advance(c) == at' = [at EXCEPT ![c] = @ + 1]
Raise(c) == fate' = [fate EXCEPT ![c] = "failed"]

\* SQLite gives the row the largest sequence in the table plus 1; only the order
\* is ever used, so the model numbers events through.
NextSequence == Len(admitted) + 1

\* Mutant of Admit: > for >= at the limit.
AdmitOneMore(c) ==
  /\ Doing(c, "audit")
  /\ service # "closed"
  /\ Cardinality(Pending) <= Limit
  /\ outbox' = [outbox EXCEPT ![<<c, at[c]>>] = NextSequence]
  /\ admitted' = Append(admitted, <<c, at[c]>>)
  /\ Advance(c)
  /\ UNCHANGED <<service, fate, effected, worker, database, faults>>

\* AuditSpool.append: one IMMEDIATE transaction under the lock.
Admit(c) ==
  /\ Doing(c, "audit")
  /\ service # "closed"
  /\ Cardinality(Pending) < Limit
  /\ outbox' = [outbox EXCEPT ![<<c, at[c]>>] = NextSequence]
  /\ admitted' = Append(admitted, <<c, at[c]>>)
  /\ Advance(c)
  /\ UNCHANGED <<service, fate, effected, worker, database, faults>>

\* The outbox is full, or closed: append raises and so does the caller.
Refuse(c) ==
  /\ Doing(c, "audit")
  /\ service = "closed" \/ Cardinality(Pending) >= Limit
  /\ Raise(c)
  /\ UNCHANGED <<service, at, effected, outbox, worker, database, faults, admitted>>

\* The event exceeds 64 KiB, or the disk fails and the transaction rolls back.
AppendFails(c) ==
  /\ Doing(c, "audit")
  /\ Fault
  /\ Raise(c)
  /\ UNCHANGED <<service, at, effected, outbox, worker, database, admitted>>

\* The script, mutation or dispatch that the audit is about.
Effect(c) ==
  /\ Doing(c, "effect")
  /\ effected' = effected \union {c}
  /\ Advance(c)
  /\ UNCHANGED <<service, fate, outbox, worker, database, faults, admitted>>

\* It raises instead: ENOENT, EEXIST, EFBIG, a Redis error.
EffectFails(c) ==
  /\ Doing(c, "effect")
  /\ Raise(c)
  /\ UNCHANGED <<service, at, effected, outbox, worker, database, faults, admitted>>

-------------------------------------------------------------------------------
(***************************************************************************)
(* The delivery thread.                                                    *)
(***************************************************************************)
Poll ==
  /\ At("poll") /\ service = "up"
  /\ Pending # {}
  /\ worker' = [pc |-> "insert", batch |-> Oldest]
  /\ UNCHANGED <<service, calls, outbox, database, faults, admitted>>

\* while self.running: the thread ends at the head of its loop.
Stop ==
  /\ At("poll") /\ service = "closing"
  /\ Goto("stopped")
  /\ UNCHANGED <<service, calls, outbox, database, faults, admitted>>

\* pending() is outside the loop's try: an SQLite error ends the thread.
PollFails ==
  /\ At("poll") /\ service = "up"
  /\ Fault
  /\ Goto("dead")
  /\ UNCHANGED <<service, calls, outbox, database, admitted>>

\* Mutant of InsertedRows: ON CONFLICT DO UPDATE SET id = EXCLUDED.id.
InsertedAgain ==
  [e \in Event |-> IF e \in worker.batch
                   THEN serial + Cardinality(Before(e, worker.batch)) + 1
                   ELSE 0]

\* The rows of the batch, an id each, in the order of pending(); an event whose
\* row exists uses up its id (the default comes before ON CONFLICT DO NOTHING).
InsertedRows ==
  [e \in Event |-> IF e \in worker.batch /\ row[e] = 0
                   THEN serial + Cardinality(Before(e, worker.batch)) + 1
                   ELSE 0]

\* Mutant of Insert: no ON CONFLICT, a replayed row raises.
InsertUnique ==
  /\ At("insert") /\ tx = NoTx
  /\ worker.batch \intersect Unstorable = {}
  /\ \A e \in worker.batch : row[e] = 0
  /\ tx' = [state |-> "open", rows |-> InsertedRows]
  /\ serial' = serial + Cardinality(worker.batch)
  /\ Goto("commit")
  /\ UNCHANGED <<service, calls, outbox, row, faults, admitted>>

\* execute_batch.  It waits for the unique event_id of a transaction still open.
Insert ==
  /\ At("insert") /\ tx = NoTx
  /\ worker.batch \intersect Unstorable = {}
  /\ tx' = [state |-> "open", rows |-> InsertedRows]
  /\ serial' = serial + Cardinality(worker.batch)
  /\ Goto("commit")
  /\ UNCHANGED <<service, calls, outbox, row, faults, admitted>>

\* A row of the batch is refused: the connection is closed and all of it undone.
InsertRefused ==
  /\ At("insert") /\ tx = NoTx
  /\ worker.batch \intersect Unstorable # {}
  /\ Goto("backoff")
  /\ UNCHANGED <<service, calls, outbox, database, faults, admitted>>

\* No connection, or it breaks before anything was inserted or while waiting.
ConnectionFails ==
  /\ At("insert")
  /\ Fault
  /\ Goto("backoff")
  /\ UNCHANGED <<service, calls, outbox, database, admitted>>

Commit ==
  /\ At("commit")
  /\ row' = [e \in Event |-> IF tx.rows[e] > 0 THEN tx.rows[e] ELSE row[e]]
  /\ tx' = NoTx
  /\ Goto("ack")
  /\ UNCHANGED <<service, calls, outbox, serial, faults, admitted>>

\* The client is gone: COMMIT never left ("lost") or may have arrived ("asked").
Abandoned == {[tx EXCEPT !.state = s] : s \in {"lost", "asked"}}

CommitFails ==
  /\ At("commit")
  /\ Fault
  /\ tx' \in Abandoned
  /\ Goto("backoff")
  /\ UNCHANGED <<service, calls, outbox, row, serial, admitted>>

\* Mutant of Ack: the outbox is emptied, not just of the batch.
AckAll ==
  /\ At("ack")
  /\ outbox' = [e \in Event |-> 0]
  /\ worker' = [pc |-> "poll", batch |-> {}]
  /\ UNCHANGED <<service, calls, database, faults, admitted>>

\* acknowledge: DELETE the batch's events from the outbox.
Ack ==
  /\ At("ack")
  /\ outbox' = [e \in Event |-> IF e \in worker.batch THEN 0 ELSE outbox[e]]
  /\ worker' = [pc |-> "poll", batch |-> {}]
  /\ UNCHANGED <<service, calls, database, faults, admitted>>

AckFails ==
  /\ At("ack")
  /\ Fault
  /\ Goto("backoff")
  /\ UNCHANGED <<service, calls, outbox, database, admitted>>

\* conn = None, sleep(1), and the batch is read again.
Retry ==
  /\ At("backoff")
  /\ worker' = [pc |-> "poll", batch |-> {}]
  /\ UNCHANGED <<service, calls, outbox, database, faults, admitted>>

-------------------------------------------------------------------------------
(***************************************************************************)
(* PostgreSQL and the process.                                             *)
(***************************************************************************)
\* The server notices that the client of its transaction is gone.
TxAborts ==
  /\ tx.state \in {"lost", "asked"}
  /\ tx' = NoTx
  /\ UNCHANGED <<service, calls, outbox, worker, row, serial, faults, admitted>>

\* The COMMIT had arrived.
TxCommits ==
  /\ tx.state = "asked"
  /\ row' = [e \in Event |-> IF tx.rows[e] > 0 THEN tx.rows[e] ELSE row[e]]
  /\ tx' = NoTx
  /\ UNCHANGED <<service, calls, outbox, worker, serial, faults, admitted>>

\* close(): running = False, join; the spool is closed once the thread is over.
Close ==
  /\ service = "up"
  /\ service' = "closing"
  /\ UNCHANGED <<calls, outbox, worker, database, faults, admitted>>

CloseSpool ==
  /\ service = "closing" /\ worker.pc \in {"stopped", "dead"}
  /\ service' = "closed"
  /\ UNCHANGED <<calls, outbox, worker, database, faults, admitted>>

\* The process dies: its calls with it; the outbox file and the table stay.
Crash ==
  /\ service \in Process
  /\ Fault
  /\ service' = "down"
  /\ fate' = [c \in Call |-> IF fate[c] = "live" /\ at[c] \in 2 .. Len(Steps(c))
                             THEN "killed" ELSE fate[c]]
  /\ worker' = [pc |-> "down", batch |-> {}]
  /\ IF tx.state = "open" THEN tx' \in Abandoned ELSE UNCHANGED tx
  /\ UNCHANGED <<at, effected, outbox, row, serial, admitted>>

\* connect(): ALTER TABLE in _init_schema waits for open transactions.
Start ==
  /\ service = "down"
  /\ tx = NoTx
  /\ service' = "up"
  /\ worker' = [pc |-> "poll", batch |-> {}]
  /\ UNCHANGED <<calls, outbox, database, faults, admitted>>

-------------------------------------------------------------------------------
Worker ==
  \/ Poll \/ Stop \/ Insert \/ InsertRefused \/ Commit \/ Ack \/ Retry

Next ==
  \/ \E c \in Call :
       Admit(c) \/ Refuse(c) \/ AppendFails(c) \/ Effect(c) \/ EffectFails(c)
  \/ Worker
  \/ PollFails \/ ConnectionFails \/ CommitFails \/ AckFails
  \/ TxAborts \/ TxCommits
  \/ Close \/ CloseSpool \/ Crash \/ Start

Spec == Init /\ [][Next]_vars

\* The thread is scheduled; PostgreSQL ends the transaction of a lost client.
Fairness == WF_vars(Worker) /\ WF_vars(TxAborts \/ TxCommits)

FairSpec == Spec /\ Fairness
-------------------------------------------------------------------------------
(***************************************************************************)
(* Properties.                                                             *)
(***************************************************************************)
\* Types, with the outbox never above its limit and one id per committed row.
TypeOK ==
  /\ service \in Process \union {"down"}
  /\ at \in [Call -> 1 .. 4]
  /\ fate \in [Call -> {"live", "failed", "killed"}]
  /\ effected \subseteq Call
  /\ outbox \in [Event -> Nat] /\ Cardinality(Pending) <= Limit
  /\ worker \in [pc : Working \union {"stopped", "dead", "down"}, batch : SUBSET Event]
  /\ tx \in [state : {"none", "open", "lost", "asked"}, rows : [Event -> Nat]]
  /\ row \in [Event -> Nat]
  /\ serial \in Nat
  /\ faults \in 0 .. MaxFaults
  /\ admitted \in Seq(Event)

\* "Only acknowledged PostgreSQL rows are removed" from the outbox: whatever
\* fails between the insert, the commit and the acknowledgement, an event that
\* was admitted is in the outbox or has a committed row.
NoneLost == \A e \in Range(admitted) : outbox[e] > 0 \/ row[e] > 0

\* The log streamer asks for ids above the last one it saw: a row must never
\* become visible with an id below that of a row already visible, nor may a
\* visible row change its id when an uncertain commit is replayed.
CursorSafe ==
  [][\A e, f \in Event :
       row[f] > 0 => /\ row'[f] = row[f]
                     /\ row[e] = 0 /\ row'[e] > 0 => row'[e] > row[f]]_vars

Committed == {e \in Event : row[e] > 0}
RowsBelow(e) == {f \in Committed : row[f] < row[e]}

\* SELECT ... ORDER BY id: the i-th event has i - 1 rows below its own.
Visible ==
  [i \in 1 .. Cardinality(Committed) |->
     CHOOSE e \in Committed : Cardinality(RowsBelow(e)) = i - 1]

\* The table in the order of its ids is the admitted events, each exactly once
\* and in order, as far as they are delivered.
Log == INSTANCE DeliveredLog WITH log <- Visible

ImplementsLog == Log!Spec

\* An admitted event gets its row, unless the thread is gone or an event that
\* PostgreSQL refuses holds up the outbox.
Delivered ==
  \A e \in Event :
    e \in Range(admitted) ~> \/ row[e] > 0
                             \/ worker.pc \notin Working
                             \/ Pending \intersect Unstorable # {}

\* "Audit storage full; refusing unaudited operation": a call that is over and
\* took effect has an event that was admitted.
NoUnauditedEffect ==
  \A c \in effected :
    fate[c] = "failed" \/ at[c] \notin DOMAIN Steps(c)
      => \E n \in DOMAIN Steps(c) : <<c, n>> \in Range(admitted)
===============================================================================
