# A verification project for Apate / Chronos

Chronos is an SSH honeypot whose file system is a FUSE mount. Every session has its own
namespace in Redis, files get their content from a language model on their first read, and
everything that happens goes through an audit trail into PostgreSQL. This directory holds
TLA+ models of the parts whose correctness depends on the order of things, the TLC
configurations that check them, and proofs about six of them.

Paths below are relative to `src/src/chronos/`.

## 1. Inventory

| Component | State it keeps | Operations | Talks to |
|---|---|---|---|
| Content store `core/content.py` | inode hash (`content_hash`, `revision`, `content_state`), `fs:blob:*`, `fs:bytes_allocated` | `mutate_content`, `read_blob` | Redis under WATCH/MULTI/EXEC |
| Generation orchestrator `intelligence/orchestrator.py` | lease `fs:generating:<inode>`, futures, slots, quota windows | `get_or_generate`, `submit_background`, `_submit`, `_resolve`, `_quota`, `_commit`, `close` | content store, inference, FUSE |
| Tree `core/state.py`, `core/lua/*.lua`, `core/database.py` | inode hashes, directory sets, `fs:next_inode`, `fs:initialized`, an initialization lock | create, mkdir, unlink, rmdir (Lua), `initialize_filesystem` | FUSE |
| Namespace keys `core/scoped_redis.py` | none | prefixing of keys and scripts | all of the above |
| FUSE `interface/fuse.py` | descriptor table, session cache, locks | the callbacks, the reaper | tree, content store, orchestrator, audit, PID mapping |
| SSH gateway `gateway/ssh_server.py` | connection slots, worker process and pipe, `session_pid:*`, `active_command` | accept, handle_client, session_worker | worker, audit, Redis |
| Shell `gateway/dispatcher.py`, `shell_parser.py` | environment, working directory | parse, sequences, pipelines, built-ins | the mounted file system |
| Containment `gateway/containment.py` | process root and capabilities | contain_worker | kernel |
| Session cleanup `core/session_cleanup.py` | none | orphan_sessions, delete_namespace | Redis |
| Audit outbox `core/audit_spool.py`, `core/persistence.py` | SQLite outbox, PostgreSQL rows | append, deliver, acknowledge, close, flush_evidence, save progress | FUSE, gateway, watcher |
| Watcher `watcher/*.py` | cursor, evidence per session in Redis and PostgreSQL | poll, notify, process, flush | PostgreSQL, Redis, skills |
| Inference `intelligence/inference.py` | a circuit breaker per model | generate | Ollama over HTTP |
| Policy, prompts, validator, renderer, profile | configuration | pure functions | orchestrator |
| Layer 0 `layer0/src/*.rs` | circuit breaker, verdict cache, rate statistics (atomics, locks) | verdicts on payloads | nothing in the repository |
| Skills `skills/*.py` | rule tables | match, score | watcher |
| World simulation `simulation/*` | subscribers, simulated times | publish, tick | event bus, Redis outside the session namespaces |
| Dashboard, metrics, reports, entry points | display state | read | PostgreSQL, Redis |

What is hard here, and what makes each part correct:

* **Content.** Three kinds of clients change one inode: generator jobs that wait up to a
  minute for a model, writers, and removal. Redis offers optimistic transactions and a lease
  with a TTL that may end while its owner still works. Correct means: generated text never
  replaces bytes, no write is lost, the hash always has its blob, the session's budget
  holds, and nobody waits forever.
* **Tree.** The scripts are atomic, the callbacks around them are not: they resolve a path
  first, act on an inode number, and set owner or mode afterwards. Correct means: entries
  lead to inodes, no file is lost, inode numbers are not used twice, link counts agree.
* **Initialization** is some hundred Redis calls under an expiring lock, resumed after a
  failure. Correct means: the flag stands for a complete tree, and is set in the end.
* **Sessions.** PID mappings with a TTL and PIDs that come back, a reaper that scans while
  sessions start, callbacks still under way when a namespace is deleted, a worker that dies
  with a command in hand. Correct means: what the kernel sees is attributed to the session
  and the command that caused it, a live session keeps its files, a dead one leaves neither
  a slot nor a namespace behind.
* **Audit and evidence.** A bounded outbox, commits of unknown outcome, a process that dies
  between commit and acknowledgement, an event that is retried, three stores for what one
  session did. Correct means: no event is lost, doubled or applied twice, and a session that
  ended gets its final evidence.
* **Slots and breaker.** A callback that the submitter, the pool's thread or `close` may run,
  two locks, a breaker that threads read and write without a lock. Correct means: every job
  gives back its one slot, no inode is generated twice at a time, a half-open circuit has
  somebody to close or open it.
* **Shell.** `mv` without a rename is a copy and a removal, each made of calls that fail or
  are the last; and-or lists, redirections and limits; a directory that is looked up twice.

`PROJECT.json` lists these hazards at their lines with the properties that cover them, and
says of the others why none does.

## 2. Plan

| Order | Module | Models | State |
|---|---|---|---|
| 1 | `FileBytes`, `ContentRegister`, `FileContent` | content store and generator jobs; the abstract register | done, proved |
| 2 | `FsTree` | Lua scripts, FUSE callbacks around them, initialization | done, proved |
| 3 | `AuditOutbox` + abstract `DeliveredLog` | spool at its limit, worker, uncertain commits, restart; refinement "each admitted event exactly once" | done, proved |
| 4 | `Evidence` (reads the table `AuditOutbox` writes) | streamer cursor, retry, evidence in three stores, flush | done, proved |
| 5 | `SessionLife` | gateway thread, worker, pipe, PID mapping and TTL, callbacks, reaper | done, proved |
| 6 | `Generation` | `_submit`: futures, slots, callback; pool and `close`; claims; the circuit breaker of the runtime | done, proved |
| 7 | `Shell` | parser, and-or lists, pipelines, redirections, handlers as system calls | done, proved |

How they compose. `Generation` runs jobs whose inside is `FileContent`. A callback of
`SessionLife` is one of `FsTree` or `FileContent`, audited as in `AuditOutbox`. `Evidence`
takes its rows in the order that `CursorSafe` of `AuditOutbox` promises. Each of these seams
is a sentence one side proves or checks and the other assumes; a model of all of them at
once would be out of reach of the checker and would say no more.

What is left: the descriptor table of FUSE, the Rust library's breaker.

## 3. What is modelled

### FileBytes, ContentRegister and FileContent

`FileBytes` holds the arithmetic of one write or truncate (`core/content.py` 54-58): the
bytes a writer writes are the writer itself, so the model can tell whose bytes survive.
`ContentRegister` is the promise: one register per file, filled once by generated text,
changed by whole writes on the bytes of that instant, lost with removal.

`FileContent` is the implementation. One action is one Redis round trip (or one script, or
one EXEC), which is where other clients can come between.

| Code | Model |
|---|---|
| `content_hash` and `fs:blob:<sha256>` | `inode[f].hash` is the content; `blobs` the stored ones (digest = content, no collisions) |
| `fs:generating:<inode>` with token and TTL | `lease`; a job is its own token (a fresh uuid4); `Expire` |
| WATCH ... EXEC | `dirty`: a client whose watched key another client modified since its WATCH |
| `get_or_generate`, `submit_background` | `Submit` |
| `_resolve` 104-127 | `Claim`, `Poll`, `Deadline`, `ReadMeta` |
| `_resolve` 128-186: policy, quota, model, fallback | `Generate`: some text of `Generated` |
| `_commit` | `CommitWatch` (fence), `CommitExec` |
| `finally` | `Release` (compare and delete), reached from `Fail` too |
| death, or Redis lost in `finally` | `Crash` |
| `mutate_content` | `MutateCall`, `MutateWatch`, `MutateBudget`, `MutateExec` |
| `atomic_unlink.lua` | `Unlink` |
| `fuse.chmod` 342-351 | `ChmodResolve`, `ChmodSet` (HSET creates a hash that is gone) |

`voided` and `held` are history variables: the jobs whose lease was taken from them, and
the contents each file has had. Each job and each writer runs once.

Left out: EISDIR and EINVAL of `mutate_content` (callers resolve regular files and the
kernel passes no negative offsets), sizes and times, `fs:blob_meta` (provenance; a digest
that two files share keeps the last record), hashes without a mode that chown and utimens
can leave behind (`FsTree` has them).

### FsTree

| Code | Model |
|---|---|
| the four scripts | `MakeError`/`MakeDir`/`MakeFile`, `RmdirError`/`RemoveDir`, `UnlinkError`/`RemoveFile`: the first error in the order of the script, or the whole change |
| `_resolve_path` | `Resolve`, in one step (the paths are two names long, one lookup can be stale) |
| `fuse.mkdir`, `create` | `CallStart`, `CallMake`, `CallOwner`, `CallOpen` |
| `fuse.rmdir`, `unlink` | `CallStart`, `CallRmdir`, `CallUnlink` |
| `fuse.chmod`, `chown` | `CallStart`, `CallSet`; utimens is a chown that sets other fields |
| `initialize_filesystem` | `BootLock` ... `BootUnlock`, one action per Redis call; `BootFail` (an exception anywhere), `BootCrash` (death), `LockExpire` |

"." and ".." are not entries: a directory is empty when no other name is in it (ZCARD <= 2).
Times and sizes are left out, owners are one bit. Callbacks start once an initializer of
their process is done (`_session_lock`); two initializers meet only in the namespace
without prefix, and no callback is served there. The model orders callbacks by the code
alone; the kernel's own inode locks may exclude some of these interleavings.

### DeliveredLog and AuditOutbox

`DeliveredLog` is the promise of the audit trail: a log that grows at its end and holds each
admitted event once, in the order of admission. `AuditOutbox` is one process with its SQLite
outbox, its delivery thread and the PostgreSQL table.

| Code | Model |
|---|---|
| unlink, write, create of `fuse.py`, a command of `ssh_server.py` | a call; `Plan` gives its audited and its effective steps in the order of the code |
| table `outbox`, `sequence` | `outbox[e]`, 0 when absent; only the order of the numbers is used |
| `AuditSpool.append` | `Admit`, `Refuse` (full or closed), `AppendFails` |
| `pending`, `acknowledge` | `Oldest`, `Ack` |
| `_audit_worker` | `Poll`, `Insert`, `Commit`, `Ack`, `Retry`; `InsertRefused`, `ConnectionFails`, `CommitFails`, `AckFails`; `PollFails` (outside the try) |
| `ON CONFLICT (event_id) DO NOTHING` | `InsertedRows`: a row that exists is kept, its new id is used up |
| a COMMIT whose answer is lost | `tx` stays, `"asked"` (may still commit) or `"lost"` (will be undone); the next insert of the same event waits for it |
| `close` | `Close`, `CloseSpool` |
| death, `connect` | `Crash`, `Start` (ALTER TABLE waits for the open transaction) |

An event is a call and a step; its uuid4 is unique. `Unstorable` are events whose row
PostgreSQL refuses every time: their batch is retried for ever, which the code does not
prevent. One process writes the table: the core process holds the only outbox that is
read into evidence.

### Evidence

The streamer is one thread; each of its steps is one call of PostgreSQL or Redis, and any of
them can fail or be the last of the process.

| Code | Model |
|---|---|
| table `audit_log` | `log`; the position is the id |
| `AuditLogStreamer`: `last_id`, the poll with LIMIT | `Fetch`, `Handled`; `Batch` |
| a subscriber that returned False | `Retry`, out of `Fail` |
| `_process_event` up to `save_evidence_progress` | `Skip` (no session, or seen), `Process`, `Save` |
| the copy in Redis with its 24 h | `Cache`, `CacheExpires` |
| `flush_evidence`, then DEL | `Flush`, `Drop` |
| `ON CONFLICT ... WHERE last_event_id < EXCLUDED.last_event_id` | `Upserted` |
| a COMMIT whose answer is lost | `Fail` with the effect |
| death; `last_id = 0` in `__init__` | `Crash` |

`RowAppears` adds what a gateway and its callbacks can write: a command once, its result
after it, nothing of the gateway after the disconnect. Metrics are counted in `Process`
before the row is saved, so a row that is retried counts twice (`counted`): this is what
the code does, and no property is stated of it.

### SessionLife

| Code | Model |
|---|---|
| `_limited_client`, `_connections` | `Accept`, `Disconnect`, `free` |
| `handle_client` | `StartWorker` ... `NoAnswer`; every way out is `Shut`; the finally clause is `Join`, `Unmap`, `Disconnect` |
| `audit_log` | rows of `trail`; `AuditRefused` |
| `session_worker` | `Register`, `SendInit`, `Receive`, `Answer`, `WorkerFails`, `Exit`, `Die` |
| the pipe | `down`, `up` |
| `session_pid:<pid>`, its TTL and renewals | `map`, `MapExpires` |
| `session:<id>:active_command` | `active`, `ActiveExpires` |
| `_current_session_id`, `_session`, `_audit` | `Enter`, `Bind`, `Serve` |
| `orphan_sessions`, `delete_namespace`, `_reap_sessions` | `ScanPids`, `ScanNamespaces`, `DeleteKey`, `Forget`, `ReapFails` |
| restart of the container | `Restart`: Redis keeps what it has |

The code's defects that the model shows and the properties step around:

* PIDs are scanned before namespaces. A worker whose first callback falls between the two
  scans loses its namespace while it lives. `SlowStart` is the assumption that this does not
  happen; with `SlowStart = FALSE` TLC finds `LiveNamespaceKept` violated.
* `delete_namespace` deletes keys in the order of the scan, `fs:next_inode` perhaps first,
  and `orphan_sessions` finds a namespace by that key alone. A failure after it, or a
  callback that writes late, leaves keys that no later scan finds, although `fuse.py` 97 says
  that the reaper "will retry". `LeavesNothing` therefore speaks of `fs:next_inode` only.
* `ssh_disconnect` may be refused by a full outbox: the session then has no end row, and
  its final evidence is never written. The slot comes back all the same.

### Generation

| Code | Model |
|---|---|
| `_submit` under `_futures_lock` | `Enter`, `Submit`, `Record`; `LockFree` |
| `add_done_callback` | `Register`: hooked, or run here and now |
| `finished` | `Remove` (under the lock), `Return` (the slot), by a caller, a thread or the reaper |
| `get_or_generate`: result, exception, TimeoutError | `Leave` |
| ThreadPoolExecutor (external) | `jobs`, `Take`, `Done`; `shutdown(cancel_futures=True)` is `Close`, `Drain`, `Joined`, and holds the pool's lock while it cancels (`PoolFree`) |
| `_resolve`: `range(2)`, `_quota` | `Resolve`: `Claim` or `Settle` |
| `can_execute` | `Admit` (without the lock), `Probe` (under it) |
| `record_success`, `record_failure` | `Answers`, `CloseCircuit`; `Fails`, `OpenCircuit`, `BackOff`: each assignment a step |
| other exceptions of `generate` | `Escapes` |

`lost` is a history variable: an exception that is neither a RequestException nor a
ValueError (a TypeError over `eval_duration`, `inference.py` 168) passes by `record_failure`
and leaves the circuit HALF_OPEN, where `can_execute` admits nobody ever after. `ProbeOwned`
says that this is the only way. The window that all sessions share is a choice (`Settle`).

With two workers `close` can deadlock: a caller waits in `pool.submit` for the pool's lock
with `_futures_lock` in hand, while `shutdown` holds the former and runs `finished`, which
wants the latter. `fuse.py` makes one worker to an orchestrator; then a queued job implies
that no slot is left, so no caller is in `submit`, and `EveryAskEnds` holds.

### Shell

A command line is a sequence of tokens; what a word spells is a constant. The parser and
the read-only handlers are operators, the handlers that change the tree are sequences of
system calls (`Calls`), one `Call` or `CallFails` each, so a failure or the gateway's kill
comes between any two.

| Code | Model |
|---|---|
| `ShellParser.parse` | `Split`, `ParsedCommand`, `ParsedSequence`, `ParserError`: the loops over tokens, as folds |
| `execute_sequence`, `_execute_pipeline` | `Enter`, `Skip`, `Begin`, `Over`, `Onward`, `Prompt` |
| redirections of `_execute_pipeline` | `Redirect`, `RedirectFails`, `Write`, `WriteFails` |
| `cd`, `export`, `unset` | `Cd`, `Export`, `Unset` |
| `cat`, `grep`, `head`, `tail`, `ls`, `find`, `stat` | `Read` |
| `touch`, `mkdir`, `rm`, `rmdir`, `cp`, `mv` | `Calls`: `Copy2`, `CopyTree`, `RmTree`, `MoveCall` are those of shutil (external) |
| `resolve_path` | `Expand`, `Resolve`, `Norm` (lexical, as os.path.normpath) |

What the code does and the model keeps: `cp -r d e` takes `-r` for its source and
`mkdir -p x` makes a directory `-p`, because these handlers do not look for options;
a line that starts with `||` has its first pipeline skipped; a parse error returns 1. Left
out: what goes to stderr, `2>` (the lexer splits it), a directory copied into itself.

## 4. Runs

| Run | Question | Bounds |
|---|---|---|
| `content` | Are inode, blob, lease and result consistent, and is the store an atomic register? | 2 jobs, 2 writers, 1 chmod, 1 file; files of at most 2 bytes, budget of 3, 2 attempts |
| `content_live` | Does every job and write end, and every dead owner's lease? | 2 jobs, 1 writer, 1 file |
| `content_budget` | Does the budget hold across files? | 1 job, 2 writers, 2 files |
| `content_blob` | Does unlink clean up the blob, as a docstring says? (no) | 1 job, 1 writer, 2 files |
| `tree` | Do entries, link counts and removal stay consistent under concurrent callbacks? | 4 callbacks, 4 inodes: one number is left, the second caller meets the limit |
| `tree_boot` | Is the flag truthful, are numbers fresh, and does initialization succeed? | 2 initializers, 2 failures or deaths, a directory with one file |
| `outbox` | Is every admitted event delivered exactly once and in order, whatever fails? | 3 calls with 4 events, one of them unstorable; outbox of 3, batches of 2, 2 failures |
| `outbox_full` | Is an operation refused when it cannot be audited? (create is not) | the same calls, outbox of 2, no failure |
| `evidence` | Is every stored summary that of a prefix of the log, and final in the end? | 2 sessions, 4 rows, batches of 2; 1 failed call, 1 death |
| `session` | Are callbacks, trail and clean-up right with PIDs that come back? | 2 connections that share 1 PID, 2 commands, 1 failure or restart |
| `generation` | Do slots, futures and jobs agree, and does every ask end? | 2 callers, 3 asks, 2 inodes, 1 worker; 2 claims a minute, threshold of 2 |
| `shell` | Do mv, and-or lists and cd do what they should? | 2 of 273 lines, 1 failing call, death anywhere; 3 lines of output, 3 pipelines |

Why the bounds are enough. *Jobs*: an overrun lease needs an old and a new owner, two jobs.
*Writers*: a lost update needs two, and a retry needs one EXEC to fail; with two attempts
both retry and EAGAIN happen. *Bytes*: two positions give overwriting, padding and cutting;
a budget of three admits one full write and refuses a second. *Files*: the budget is the only
thing files share. *Callbacks*: the longest known interference takes four (unlink, chmod,
rmdir, create on one directory); with three the exception in `NothingLost` is never needed.
*Events*: four against a limit of
three meet the full outbox; with batches of two a batch is smaller than the outbox, and a
retried batch can be larger than the one that failed. *Rows*: four in batches of two give a
batch that ends in the middle of a session, a failure in each half, and a session with
command, result, visit and disconnect; a death takes the cursor back over all of them.
*PIDs*: one PID for two connections makes each reuse happen. *Commands*: two, so that a late
answer or tag of the first can meet the second. *Threads*: one is what `fuse.py` starts;
three asks make one join a job, one take the slot, one meet the pool shut down; more
threads are left to the proof. *Lines*: one that leaves an effect and one that meets it;
each handler with each kind of argument (file, directory, missing, root, variable), all
pairs of list operators, each redirection. *Failures*: two allow a second failure during the resumption of the first.

What the properties say:

* `ContentAgrees`: hash, state, revision and blob of an inode agree at every instant.
* `LeaseExclusive`: from claim to release a job owns its lease unless a write or the TTL
  took it away; so nobody frees a lease that is not his.
* `ResultWasHeld`: a reader only ever gets bytes the file had.
* `CommitsOwned`: text enters a file under its author's lease and as its first content.
* `ImplementsRegister`: the refinement of `ContentRegister`.
* `BudgetCovers`: `fs:bytes_allocated` never exceeds the limit and pays for every byte
  that writers have in the files.
* `JobsEnd`, `MutationsEnd`, `LeaseFreed`: liveness.
* `EntriesLead`, `LinkCounts`, `NothingLost`: the tree. Two exceptions are part of the
  statements because the code has them: an initializer that runs on after its lock expired
  may reset the root's link count (`core/state.py` 21-22), and a chmod that raced rmdir
  revives a directory that nobody can reach, into which a create that had resolved it
  may still put a file.
* `NumbersFresh`, `InitializedIsComplete`, `EventuallyInitialized`: initialization.
* `NoneLost`: an admitted event is in the outbox or has a committed row, between any two steps.
* `CursorSafe`: a row never appears below a visible id and never changes, which is what the
  log streamer's `WHERE id > last_id` relies on.
* `ImplementsLog`: the refinement of `DeliveredLog`, exactly once and in order.
* `EvidenceExact`: each summary, in PostgreSQL, Redis and the final table, says exactly what
  the rows up to its last id say of its session, whatever was retried or died in between;
  and PostgreSQL is never behind the other two, which is why the code may trust it.
* `NoneSkipped`: what the cursor passed is stored, a disconnect in the final table too.
* `EventuallyFinal`: a session that disconnected gets its final evidence.
* `AttributionTrue`: a callback acts in the session of the worker that caused it, and its
  row carries the command that caused it or none.
* `TrailTrue`: a result follows its own command and is the answer to it; nothing follows
  the disconnect.
* `LiveNamespaceKept`: the reaper deletes no namespace in use (under `SlowStart`).
* `LeavesNothing`: all slots come back, and the reaper deletes every namespace it can find.
* `JobsAccounted`: slots, jobs and callers in submit add up; no two jobs at work for an inode;
  `_futures` knows the one there is.
* `ProbeOwned`: a half-open circuit has a probe at work.
* `EveryAskEnds`: no ask hangs and every slot comes back, `close` included.
* `MvKeeps`: each file that mv was to move is whole at its source or its target at every moment.
* `ListsRight`: a pipeline is executed exactly when the list before it, read as a Boolean
  expression, does not decide it; and the return code is the list's.
* `CwdTrue`: cd goes to a directory that was there, and PWD names where the shell is.
* `Delivered`: every admitted event gets its row, unless the thread is gone (dead, stopped, or
  down with its process) or an unstorable event blocks the outbox.

`outbox_full`: `create` of `fuse.py` makes its file first and audits last (238-254); with the
outbox full the file stays although the caller gets the error "refusing unaudited operation"
(`core/audit_spool.py` 29). `unlink` and `write` audit first and are refused without effect.

`content_blob` is a disagreement between code and docstring: `core/state.py` 142 says that
unlink cleans up the blob, the script deliberately keeps it (another inode may share it).

Every property of a passing run has a mutant in `PROJECT.json`: the definition it is about,
changed as a plausible bug would (a key not watched, a release without comparison, SET
without NX), under which TLC finds the property violated. The mutants are the
operators named in comments right before the definitions they replace.

### Fairness

`FileContent`: weak fairness of each job's and each writer's own steps (threads are
scheduled; the model call has a timeout, `_resolve` 143-161, and a fallback), of a job's
10 s deadline (a clock) and of the lease's expiry (Redis). Calls, failures, deaths, unlink
and chmod are not fair. Retries need no stronger fairness because they are bounded, and a
polling job gives up at its deadline.

`AuditOutbox`: weak fairness of the delivery thread (a scheduled loop with bounded sleeps) and
of PostgreSQL ending a transaction whose client is gone (TCP and server timeouts). Failures
are bounded; a process that is down need not come back, since `Delivered` excuses it.

`Evidence`: weak fairness of the streamer's own steps (a loop that sleeps and polls again).
Failures and deaths are bounded; without a bound a row that fails every time blocks the
stream for all sessions, which the code does not prevent.

`SessionLife`: weak fairness of each connection's thread (every wait has a timeout) and
callback, of the expiry of a mapping, and of the reaper. Not of typing, and not of the
workers: a worker that hangs is terminated by `Join`.

`Generation`: weak fairness of each caller and thread (requests and waits have deadlines)
and of `close` once it began. That the backoff or the minute ends is not assumed.

`Shell` states safety only.

`FsTree`: weak fairness of each initializer's steps, which includes trying again: every
callback of a session calls `initialize_filesystem` until it has succeeded; and of the
lock's expiry. Failures are bounded by `MaxFailures`; with unbounded failures nothing can
be promised. A caller that cannot get the lock in 5 s is the initializer not taking its
step; it comes back with the next callback.

## 5. Proofs

`FileContentProofs` proves, for all values of the constants (any number of jobs, writers
and files, any limits and texts), from the assumptions named in `FileBytes` and
`FileContent`:

| Theorem | States |
|---|---|
| `Invariance` | `Spec => []IInv` |
| `TypeCorrect`, `ContentAlwaysAgrees`, `LeaseIsALock`, `NoPhantomContent` | the four invariants of run `content` |
| `BudgetBounded` | `fs:bytes_allocated` stays within the limit |
| `CommitsAreOwned` | the action property `CommitsOwned` |
| `Refinement` | `Spec => ImplementsRegister` |

None of the invariants is inductive alone. What makes them so is what WATCH is for:
`Watched` says that a client about to EXEC, none of whose watched keys was modified, still
sees what it saw when it read (a job its fence, a writer the old bytes and the room in the
budget). `Owners` says that a lease always names a job that is between claim and release
(or dead) and whose lease was not taken from it; with it an expired owner's release cannot
hit the new owner. `TextReady` ties the text in hand to `Generated`, and `HeldIsCurrent`
says that what a file reads as is in its history. `IInv` is their conjunction with the
four invariants and the budget. There is one lemma per action; frame lemmas (`JobMoves`,
`MutMoves`, `LeaseVoided`, `FrameInv`) carry the parts an action leaves alone. `Refinement`
and `CommitsAreOwned` use `InodeSteps`, which lists the four ways an inode can change.

`AuditOutboxProofs` proves, for any calls, limit, batch size and number of failures, from
`OutboxConstants`:

| Theorem | States |
|---|---|
| `OutboxInvariance` | `Spec => []IInv` |
| `OutboxTypeCorrect`, `NoEventLost` | the invariants of run `outbox`; the limit is part of the first |
| `CursorNeverMisses` | the action property `CursorSafe` |
| `OutboxImplementsLog` | `Spec => ImplementsLog` |

`NoneLost` needs to know what the thread knows: at the acknowledgement every event of its
batch has a row (`Progress`). Order is what the refinement needs: what is committed is a
first part of the history (`CommittedFirst`), what is in the outbox is a last part
(`PendingLast`), a batch is the oldest part of the outbox (`BatchFirst`, from `Oldest` by
cardinalities), and an open transaction continues the table without a gap (`TxFollows`)
with ids above all others (`Ids`). They are all stated of pairs of positions, so each action
disturbs few of them. `VisibleIsPrefix` then counts: the positions with rows are downward
closed, hence `1 .. n`, and the i-th row in the order of ids is the i-th admitted event.

`EvidenceProofs` proves, for any sessions, commands and paths, any batch and any number of
rows, failures and deaths, from `EvidenceConstants`:

| Theorem | States |
|---|---|
| `SpecIInv` | `Spec => []IInv` |
| `SpecTypeOK`, `SpecEvidenceExact`, `SpecNoneSkipped` | the invariants of run `evidence` |

The two need each other. A summary stays exact only if the row that is applied to it is the
next one of its session, that is if no row between its last id and the cursor was skipped;
and nothing is skipped because a summary whose last id is beyond a row has that row in it.
`InHand` says what the thread holds between two calls: the evidence in hand is what the
stored one becomes with this row, and from the cache step on it is stored. `LegalIn` is what
`RowAppears` guarantees of the log (a command once, its result after it), without which a
result could meet the wrong command. Whether a summary is exact is said of one log
(`ExactIn`), so that the lemma about one more row (`AppliedExact`) has no variables and is
used for every step.

`GenerationProofs` proves, for any callers and inodes, any number of threads, asks and any
limit and threshold, from `GenerationConstants`:

| Theorem | States |
|---|---|
| `SpecIInv` | `Spec => []IInv` |
| `SpecTypeOK`, `SpecJobsAccounted`, `SpecProbeOwned` | the invariants of run `generation` |

The question is who ends a job, since three actors may. `CallersHold` says that a caller
that has not registered its callback yet, or runs it itself, has a job of its own that is
not hooked; `ThreadsHold` and `ReaperHolds` that a thread or the reaper that runs the
callback has a hooked job, which is done or cancelled. So no two can have the same one, and
`SlotsCounted` goes on. `OneSubmits` is the lock: from the look at `_futures` to the new
entry nobody else is there, and the entry is still missing. `FuturesKnow` ties each job at
work to `_futures` or to the caller about to record it; hence one job to an inode. For
the breaker it is enough to know where a probe can be (`ProbesWork`).

`SessionLifeProofs` proves, for any connections and PIDs, any number of slots, commands and
failures, from `SessionConstants`:

| Theorem | States |
|---|---|
| `SpecIInv` | `Spec => []IInv` |
| `SpecTypeOK`, `SpecAttributionTrue`, `SpecTrailTrue` | invariants of run `session`; the count of slots is part of the first |
| `SpecLiveNamespaceKept` | `SlowStart /\ Spec => []LiveNamespaceKept` |

Three layers. `Held` is who is who: a PID is used by one worker or callback at a time
(`PidsDistinct`), so nobody else can change the mapping of a worker that has registered
(`MapsLive`), and a callback under way has its worker's session and command (`CallsTrue`):
that is `AttributionTrue` before the row is written. `Pipes` says that a pipe holds at most
one message, that of the latest command or its answer, because every way out of a wait
leaves the loop; `Trails` that a thread which waits has its command as the last row; from
both an answer meets its own command. `Kept` is what the reaper may take: a live session
that has `fs:next_inode` is in the cache (`Rooms`), one in the cache had a mapping at the
scan of PIDs (`Spared`), so what is deleted is dead. Only this layer rests on `SlowStart`,
and only in `Bind`. That PIDs are not used again while a callback of the former holder is
under way is the guard `FreePid`: an assumption about the kernel, on which `Held` rests.

`FsTreeProofs` proves, for any manifest, names, callbacks and initializers, any limit of
inode numbers and any number of failures and deaths, from `ConstantsOK`, `GoneOK` and
`ManifestOK` (no path is listed twice, a file has a class: the manifest of `core/state.py`):

| Theorem | States |
|---|---|
| `SpecIInv` | `Spec => []IInv` |
| `SpecTypeOK`, `SpecEntriesLead`, `SpecLinkCounts`, `SpecNothingLost` | the invariants of runs `tree` and `tree_boot` |
| `SpecNumbersFresh`, `SpecInitializedIsComplete` | their action properties |

The proof is in four layers. *Paths.* `Resolve` is a fold, so first of all it has to be shown
what it computes: the recursive function behind `FoldLeft` exists (`WalkExists`), goes one
name at a time (`WalkStep`), and so a path leads where its last name leads in its parent
(`ResolveStep`); no two paths lead to one inode (`ResolveInjective`), and a new entry
changes only the path to itself and the paths through it (`ResolveGrows`, `ResolveNew`).
*Tree.* Whatever a step is, it does to the tree one of a few things (`TreeStep`: a new entry,
a removed one, a new root, a hash that is set), and the parts of `TreeInv` survive each of
them. `Lead` is `EntriesLead` without its sets, and says of the numbers in use that they
are not beyond the counter (`Fresh`), or a new inode could be an old one. `Kinds` and
`CallsHeld` are what the late HSET of a chmod needs: a number a callback
holds is live or removed, never the root, and the mode it sets is of the kind the inode
had, so a file never turns into a directory. `Counted` is `LinkCounts` by cardinalities of
the sets of subdirectories. *Phases.* No callback is served before an initializer is done,
and then all of them are (`Phases`); while none is served, what the manifest's paths
lead to is as the manifest says (`Profiled`). *Initializers.* Unless one outlived its lock,
the one that runs holds it (`Locked`), so the HSET of the root comes first. `Booting` says
that what it holds is what its path leads to now, `Progress` that the entries it
passed are complete; with several initializers at once (after a lock expired), each
step of one must keep that of the others, and does since hashes are only completed. From
`Progress` at the last entry follows `InitializedIsComplete`.

`nlink` is an integer in the model, not a natural number: HINCRBY does not stop at zero, and
when an initializer that outlived its lock has reset the root, rmdir can count below it. The
exception in `LinkCounts` is that very case.

`BudgetAlwaysCovers` of `FileContentProofs` is about a sum over the files, which the model
takes with `MapThenSumSet`. `TotalAdds` unfolds it file by file, `AddsBound` says that a
sum grows by at most what one of its terms grows, and `InodeSteps` that only a write makes
one grow, by no more than it pays for.

`ShellProofs` proves, for any words, names and texts, any command lines, any limits, any tree to
begin with and any number of failing calls, from `ShellConstants` (what a word spells, and
that a token of a line is a word or an operator) and `TreeConstants` (each path of the
first tree has a parent, which is a directory):

| Theorem | States |
|---|---|
| `SpecTyped` | `Spec => []Typed` |
| `SpecTypeOK`, `SpecListsRight`, `SpecMvKeeps` | invariants of run `shell` |
| `SpecCwdTrue` | its action property |

*Types.* `Typed` is inductive: `Sound(tree)` says that the tree is one, the rest what a
command, a pipeline, a job and a system call are. Most of the work is in the folds: what
the parser returns is a list of commands (`SplitTyped`, `CommandTyped`, `LineTyped`),
what `Norm` returns is a path without dots (`NormTyped`), and what shutil does is a list of
calls on paths (`CopyTreeTyped`, `RmTreeTyped`). A call keeps the tree a tree because the
guards in `Fits` are those of the kernel: a name is made only in a directory, and only an
empty one is removed (`EffectSound`). *PWD.* `cd` looks at `cwd` and stores a path worked
out from `PWD`; that both are one is in `ShellTyped`, and holds because `export`
refuses the protected names and lines cannot set them otherwise. *And-or lists.*
`ListsRight` speaks of lists that are behind, the code of the one in hand: it decides by
`last`, the return code of whatever ran last. `ListsSound` ties the two: `last` is 0 exactly
when the list up to here holds (`LastRight`), whatever was skipped since; and while a
pipeline runs it was wanted. A new entry of `ran` does not change what an earlier
prefix is worth (`HoldsSame`), so one step adds one pipeline. *Moves.* `MvKeeps` is not
inductive: between two calls it matters what is left to do. `MoveSound` says it of every end
of the list of calls. Its `Plan` is what no call changes: removals come last and never hit
a file of the target, nothing is written to a file of the source, and every call that only
spoils a copytree is followed by the check that raises. Beyond that, as long as anything but
removals is left every file is whole at its source (`AtSource`), and unless a failure was
noted every file is whole at its target or about to be: the list opens its file and writes
it next, once (`Copied`). A noted failure meets the check before the first removal, so the
source stays. `MovingCall` and `MovingFails` carry this over a call that succeeds or fails;
the rest shows that the lists `copytree`, `rmtree` and `copy2` make have this shape (`MovedTree`,
`MovedFile`): where each entry's calls are in the list (`FlatSpread`), that `Down` lists
every entry once (`DownLists`), and that nothing is beneath both source and target, as
shutil refuses to move a directory into itself and the target is no directory yet (`Apart`).

All three use `FoldFacts`, which has what every fold needs: the community modules define them by
`CHOOSE`, over a function that is recursive in sets. That it exists and what it is for
a given set is shown with the least-number principle (`Least`: a non-empty set of numbers
has a least element), since the library's induction theorems take an operator as parameter
and cannot be used.

Only model-checked: liveness, which is beyond the prover.

## 6. Not modelled

* Policies, prompts, validation, rendering and the profile: functions from text to text.
  What they produce is the set `Generated` of `FileContent`.
* Command analysis and threat matching: regular expressions and scores. `Evidence` takes
  their verdict as a constant, `Suspicious`.
* `watcher/event_processor.py`: tests and a demonstration use it, the core process does not.
* Containment: calls of the operating system in a fixed order. That it fails is `WorkerFails`.
* `ScopedRedis` is taken as what it is for: each model is one namespace, `SessionLife` has
  the namespaces of several sessions as sets of keys.
* The descriptor table of FUSE and its copy in the reaper, readdir and getattr.
* The world simulation, its event bus and the plugins; reports, metrics and the dashboard,
  which only display; the log file of `data_logger`.
* Layer 0, the library in Rust: no Python code of the repository calls it. Its breaker and
  its adaptive threshold are hazards of their own, listed without a property.
