------------------------------- MODULE Evidence -------------------------------
(***************************************************************************)
(* The watcher: AuditLogStreamer follows audit_log by id, and for each row *)
(* EvidenceCollector brings the evidence of the row's session up to date.  *)
(* Evidence lives in three places: evidence_progress in PostgreSQL, which  *)
(* is authoritative, a copy in Redis for the dashboard, and the table      *)
(* session_evidence, written when the session disconnects.  The steps of   *)
(* one row can fail or die anywhere; the streamer then comes back to the   *)
(* row.  Its cursor starts at 0 in each process.                           *)
(*                                                                         *)
(* The log grows by rows a session can produce, in the order of their ids  *)
(* (what AuditOutbox!CursorSafe promises).  Detection scores, time stamps  *)
(* and the traversal graph, a function of the visited paths, are left out. *)
(***************************************************************************)
EXTENDS Naturals, Sequences

CONSTANTS
  Session,
  Command,     \* command ids, fresh uuid4s in the code: numbered as they come
  Suspicious,  \* those whose text scores, or matches a threat
  Path,        \* paths of FUSE events
  MaxRows,     \* bound on the rows of the log
  Batch,       \* LIMIT of one poll, 1000 in the code
  MaxFaults,   \* bound on failed calls of PostgreSQL and Redis
  MaxCrashes   \* bound on deaths of the process

ASSUME EvidenceConstants ==
  /\ Suspicious \subseteq Command /\ Command \subseteq Nat
  /\ MaxRows \in Nat /\ Batch \in Nat \ {0} /\ MaxFaults \in Nat /\ MaxCrashes \in Nat

VARIABLES
  log,       \* the rows of audit_log; the position is the id
  pc,        \* what the streamer's thread does next
  last_id,   \* its cursor
  upto,      \* the last row of the batch in hand
  evidence,  \* what _process_event holds for the row in hand
  progress,  \* session -> row of evidence_progress
  cache,     \* session -> copy in Redis
  final,     \* session -> row of session_evidence
  counted,   \* SESSION_COMMANDS_COUNTER of this process
  faults, crashes

stored == <<progress, cache, final>>
vars == <<log, pc, last_id, upto, evidence, stored, counted, faults, crashes>>

Row == [session : Session, op : {"ssh_command", "ssh_command_result"}, arg : Command]
       \cup [session : Session, op : {"visit"}, arg : Path]
       \cup [session : Session, op : {"ssh_disconnect"}, arg : {0}]
       \cup [session : {0}, op : {"write"}, arg : {0}]

\* Commands and results are kept by the id of their row, suspicious and ended
\* are 0 until there is one.  No evidence has seen no row: last is 0.
Summary == [last : Nat, commands : Seq(Nat), results : SUBSET Nat,
            visited : SUBSET Path, suspicious : Nat, ended : Nat]
NoEvidence == [last |-> 0, commands |-> <<>>, results |-> {},
               visited |-> {}, suspicious |-> 0, ended |-> 0]

Init ==
  /\ log = <<>> /\ pc = "poll" /\ last_id = 0 /\ upto = 0 /\ evidence = NoEvidence
  /\ progress = [s \in Session |-> NoEvidence]
  /\ cache = progress /\ final = progress
  /\ counted = 0 /\ faults = 0 /\ crashes = 0

Has(s, op, arg) ==
  \E i \in DOMAIN log : log[i].session = s /\ log[i].op = op /\ log[i].arg = arg

\* A row appears: a command once, in one session, before its result; nothing of
\* the gateway after the disconnect, but callbacks still under way may follow.
RowAppears(row) ==
  /\ Len(log) < MaxRows
  /\ row.op # "visit" => ~Has(row.session, "ssh_disconnect", 0)
  /\ row.op = "ssh_command" =>
       /\ \A s \in Session : ~Has(s, row.op, row.arg)
       /\ \A c \in Command : c < row.arg => \E s \in Session : Has(s, row.op, c)
  /\ row.op = "ssh_command_result" =>
       Has(row.session, "ssh_command", row.arg) /\ ~Has(row.session, row.op, row.arg)
  /\ log' = Append(log, row)
  /\ UNCHANGED <<pc, last_id, upto, evidence, stored, counted, faults, crashes>>

-----------------------------------------------------------------------------
Id == last_id + 1
Ends == log[Id].op = "ssh_disconnect"

\* The row is done: the cursor moves on, within the batch or to the next poll.
Handled ==
  /\ last_id' = Id
  /\ pc' = IF Id < upto THEN "next" ELSE "poll"

\* Mutant of Newest: a batch is taken to be as long as its limit.
NewestFull == last_id + Batch
Newest == IF last_id + Batch < Len(log) THEN last_id + Batch ELSE Len(log)

Fetch ==
  /\ pc = "poll" /\ last_id < Len(log)
  /\ upto' = Newest
  /\ pc' = "next"
  /\ UNCHANGED <<log, last_id, evidence, stored, counted, faults, crashes>>

\* What one row that was not seen before adds to the evidence of its session.  A
\* row of any other operation only raises last_event_id, as a repeated visit does.
WithCommand(e, i) ==
  [e EXCEPT !.commands = Append(@, i),
            !.suspicious = IF @ = 0 /\ log[i].arg \in Suspicious THEN i ELSE @]
WithResult(e, i) ==
  IF \E j \in DOMAIN e.commands : log[e.commands[j]].arg = log[i].arg
  THEN [e EXCEPT !.results = @ \cup {i}] ELSE e
Seen(e, i) == [e EXCEPT !.last = i]
Applied(e, i) ==
  CASE log[i].op = "ssh_command"        -> WithCommand(Seen(e, i), i)
    [] log[i].op = "ssh_command_result" -> WithResult(Seen(e, i), i)
    [] log[i].op = "visit"              -> [Seen(e, i) EXCEPT !.visited = @ \cup {log[i].arg}]
    [] log[i].op = "ssh_disconnect"     -> [Seen(e, i) EXCEPT !.ended = i]

\* Mutant of Fresh: every row counts as new, as if the last event id were not kept.
FreshAlways(e) == TRUE
Fresh(e) == Id > e.last

\* Mutant of SeenAgain: a disconnect that was saved is not flushed again.
SeenAgainQuietly == Handled
SeenAgain == IF Ends THEN pc' = "flush" /\ last_id' = last_id ELSE Handled

\* A row without a session, or one the stored progress has seen already.
Skip ==
  /\ pc = "next"
  /\ \/ log[Id].session = 0 /\ Handled
     \/ /\ log[Id].session # 0
        /\ LET e == progress[log[Id].session] IN
             /\ ~Fresh(e)
             /\ SeenAgain
  /\ evidence' = IF log[Id].session = 0 THEN evidence ELSE progress[log[Id].session]
  /\ UNCHANGED <<log, upto, stored, counted, faults, crashes>>

\* Load, apply, and for a disconnect count the commands; nothing is stored yet.
Process ==
  /\ pc = "next" /\ log[Id].session # 0
  /\ LET e == progress[log[Id].session] IN
       /\ Fresh(e)
       /\ evidence' = Applied(e, Id)
       /\ counted' = IF Ends THEN counted + Len(e.commands) ELSE counted
  /\ pc' = "save"
  /\ UNCHANGED <<log, last_id, upto, stored, faults, crashes>>

\* INSERT ... ON CONFLICT DO UPDATE ... WHERE last_event_id < EXCLUDED.last_event_id
Upserted(table, s) ==
  IF table[s].last < evidence.last THEN [table EXCEPT ![s] = evidence] ELSE table

Save ==
  /\ pc = "save" /\ pc' = "cache"
  /\ progress' = Upserted(progress, log[Id].session)
  /\ UNCHANGED <<log, last_id, upto, evidence, cache, final, counted, faults, crashes>>

Cache ==
  /\ pc = "cache"
  /\ cache' = [cache EXCEPT ![log[Id].session] = evidence]
  /\ IF Ends THEN pc' = "flush" /\ last_id' = last_id ELSE Handled
  /\ UNCHANGED <<log, upto, evidence, progress, final, counted, faults, crashes>>

Flush ==
  /\ pc = "flush" /\ pc' = "drop"
  /\ final' = Upserted(final, log[Id].session)
  /\ UNCHANGED <<log, last_id, upto, evidence, progress, cache, counted, faults, crashes>>

\* The copy is deleted only after the flush returned True.
Drop ==
  /\ pc = "drop" /\ Handled
  /\ cache' = [cache EXCEPT ![log[Id].session] = NoEvidence]
  /\ UNCHANGED <<log, upto, evidence, progress, final, counted, faults, crashes>>

-----------------------------------------------------------------------------
\* Mutant of Retry: the streamer passes a row its subscriber failed on.
RetryNever == last_id' = Id /\ pc' = "poll"
\* notify returned False: the batch is left, the next poll starts at the same row.
Retry == last_id' = last_id /\ pc' = "poll"

\* A call of PostgreSQL or Redis raises, or flush_evidence returns False.  A
\* commit whose answer is lost may have taken effect.
Fail ==
  /\ faults < MaxFaults /\ faults' = faults + 1
  /\ pc \in {"next", "save", "cache", "flush", "drop"}
  /\ Retry
  /\ \/ pc = "save" /\ progress' = Upserted(progress, log[Id].session) /\ UNCHANGED final
     \/ pc = "flush" /\ final' = Upserted(final, log[Id].session) /\ UNCHANGED progress
     \/ UNCHANGED <<progress, final>>
  /\ UNCHANGED <<log, upto, evidence, cache, counted, crashes>>

\* The process dies and starts again with a cursor at 0 and a counter at 0.
Crash ==
  /\ crashes < MaxCrashes /\ crashes' = crashes + 1
  /\ pc' = "poll" /\ last_id' = 0 /\ upto' = 0 /\ evidence' = NoEvidence /\ counted' = 0
  /\ UNCHANGED <<log, stored, faults>>

\* The copy in Redis runs out (24 h), or Redis loses it.
CacheExpires(s) ==
  /\ cache[s] # NoEvidence
  /\ cache' = [cache EXCEPT ![s] = NoEvidence]
  /\ UNCHANGED <<log, pc, last_id, upto, evidence, progress, final, counted, faults, crashes>>

Streamer == Fetch \/ Skip \/ Process \/ Save \/ Cache \/ Flush \/ Drop
Next ==
  \/ \E row \in Row : RowAppears(row)
  \/ Streamer \/ Fail \/ Crash
  \/ \E s \in Session : CacheExpires(s)

Spec == Init /\ [][Next]_vars
FairSpec == Spec /\ WF_vars(Streamer)
-----------------------------------------------------------------------------
(* Properties *)

\* The rows of session s among the first n that satisfy op.
Rows(s, op, n) == {i \in 1..n : log[i].session = s /\ log[i].op = op}

\* e says of session s exactly what the rows up to e.last say: each command once
\* and in order, each outcome, each path, the first suspicious command, the end.
Exact(s, e) ==
  /\ e.last \in 0..Len(log)
  /\ \A j \in DOMAIN e.commands : e.commands[j] \in Rows(s, "ssh_command", e.last)
  /\ \A j, k \in DOMAIN e.commands : j < k => e.commands[j] < e.commands[k]
  /\ \A i \in Rows(s, "ssh_command", e.last) : \E j \in DOMAIN e.commands : e.commands[j] = i
  /\ e.results = Rows(s, "ssh_command_result", e.last)
  /\ e.visited = {log[i].arg : i \in Rows(s, "visit", e.last)}
  /\ IF e.suspicious = 0
     THEN \A i \in Rows(s, "ssh_command", e.last) : log[i].arg \notin Suspicious
     ELSE /\ e.suspicious \in Rows(s, "ssh_command", e.last)
          /\ log[e.suspicious].arg \in Suspicious
          /\ \A i \in Rows(s, "ssh_command", e.suspicious - 1) : log[i].arg \notin Suspicious
  /\ IF e.ended = 0 THEN Rows(s, "ssh_disconnect", e.last) = {}
     ELSE e.ended \in Rows(s, "ssh_disconnect", e.last)

TypeOK ==
  /\ log \in Seq(Row) /\ Len(log) <= MaxRows
  /\ pc \in {"poll", "next", "save", "cache", "flush", "drop"}
  /\ last_id \in 0..Len(log) /\ upto \in 0..Len(log)
  /\ pc # "poll" => Id <= upto
  /\ evidence \in Summary
  /\ progress \in [Session -> Summary] /\ cache \in [Session -> Summary]
  /\ final \in [Session -> Summary]
  /\ counted \in Nat /\ faults \in 0..MaxFaults /\ crashes \in 0..MaxCrashes

\* Whatever fails, is retried, or dies in between, no row is applied twice and
\* none is left out: every stored summary is that of a prefix of the log.  The copy in
\* Redis and the final table never know more than the progress in PostgreSQL, so
\* "authoritative" (_get_evidence) is true of it at every moment.
EvidenceExact ==
  \A s \in Session :
    /\ Exact(s, progress[s]) /\ Exact(s, cache[s]) /\ Exact(s, final[s])
    /\ cache[s].last <= progress[s].last /\ final[s].last <= progress[s].last

\* What the cursor passed is stored: a row in the progress of its session, a
\* disconnect in the final table too, so nothing waits for a restart.
NoneSkipped ==
  \A i \in 1..last_id : log[i].session # 0 =>
    /\ progress[log[i].session].last >= i
    /\ log[i].op = "ssh_disconnect" => final[log[i].session].last >= i

\* A session that disconnected has its final evidence in the end, however often
\* the row failed or the process died on the way.
EventuallyFinal ==
  \A s \in Session : Has(s, "ssh_disconnect", 0) ~> final[s].ended # 0

=============================================================================
