------------------------------ MODULE Generation ------------------------------
(***************************************************************************)
(* How model calls are rationed: GenerationOrchestrator, which admits      *)
(* reads that miss the cache to a bounded pool, one job for each inode,    *)
(* and the circuit breaker of its runtime, which the threads of the pool   *)
(* share.  What a job reads and commits is FileContent's subject; here a   *)
(* job is the calls it makes.                                              *)
(*                                                                         *)
(* Three actors run `finished' for a job: the thread that ran it, the      *)
(* caller that registers the callback too late, and the reaper, when close *)
(* cancels the job.  Two locks meet in it: _futures_lock, and the lock of  *)
(* the pool, which shutdown holds while it cancels and submit takes.       *)
(* Time is left out: a deadline may pass in every state that has one.      *)
(***************************************************************************)
EXTENDS Integers, Sequences, FiniteSets

CONSTANTS
  Caller,     \* FUSE threads of the session that may be in get_or_generate
  Worker,     \* threads of the pool, and slots: one in fuse.py, 8 by default
  Inode,
  MaxAsks,    \* bound on the calls of get_or_generate
  Limit,      \* max_generations_per_minute
  Threshold   \* failure_threshold of the breaker, 3 in the code

ASSUME GenerationConstants ==
  /\ IsFiniteSet(Caller) /\ IsFiniteSet(Worker)
  /\ MaxAsks \in Nat /\ Limit \in Nat /\ Threshold \in Nat \ {0}

VARIABLES
  ask,       \* caller -> where it is, and for which inode and job
  asks,      \* asks so far
  slots,     \* what _slots has left
  futures,   \* _futures: inode -> job, 0 where there is none
  jobs,      \* the futures of the pool, in the order of submission
  thread,    \* worker -> where it is
  reaper,    \* where close is, and the job it has just cancelled
  state, failures,  \* ModelHealth of the model
  due,       \* time.time() >= next_retry
  used,      \* claims of the session in this minute's window
  lost       \* an exception other than a network or value error left a probe

callers == <<ask, asks>>
pool == <<slots, futures, jobs>>
breaker == <<state, failures, due, lost>>
vars == <<callers, pool, thread, reaper, breaker, used>>

NoAsk == [at |-> "idle", inode |-> 0, job |-> 0]
NoWork == [at |-> "idle", job |-> 0, attempt |-> 0, probe |-> FALSE]

Init ==
  /\ ask = [c \in Caller |-> NoAsk] /\ asks = 0
  /\ slots = Cardinality(Worker)
  /\ futures = [i \in Inode |-> 0] /\ jobs = <<>>
  /\ thread = [w \in Worker |-> NoWork]
  /\ reaper = [at |-> "off", job |-> 0]
  /\ state = "CLOSED" /\ failures = 0 /\ due = TRUE /\ lost = FALSE
  /\ used = 0

\* Mutant of LockFree: the callback is registered before the lock is let go.
LockFreeLate == \A c \in Caller : ask[c].at \notin {"submit", "record", "register", "finish"}
\* _futures_lock is held from the look at _futures to the new entry.
LockFree == \A c \in Caller : ask[c].at \notin {"submit", "record"}
\* The lock of the pool is held while queued jobs are cancelled.
PoolFree == reaper.at \notin {"draining", "finish", "release"}

Set(j, what) == jobs' = [jobs EXCEPT ![j].state = what]
Complete(j) == jobs[j].state \in {"done", "cancelled", "over"}

\* `finished', in two steps: the entry goes under the lock, then the slot returns.
Remove(j) ==
  /\ LockFree
  /\ futures' = IF futures[jobs[j].inode] = j
                THEN [futures EXCEPT ![jobs[j].inode] = 0] ELSE futures
  /\ UNCHANGED <<slots, jobs>>
Return(j) ==
  /\ slots' = slots + 1
  /\ Set(j, "over")
  /\ UNCHANGED futures

-----------------------------------------------------------------------------
(* A caller: get_or_generate, submit_background, _submit *)

Goto(c, at) == ask' = [ask EXCEPT ![c].at = at]
Wait(c) == ask' = [ask EXCEPT ![c] = [NoAsk EXCEPT !.at = "wait"]]

\* The inode has no content yet and its class is one that is generated.
Ask(c, i) ==
  /\ ask[c].at = "idle" /\ asks < MaxAsks
  /\ ask' = [ask EXCEPT ![c] = [at |-> "enter", inode |-> i, job |-> 0]]
  /\ asks' = asks + 1
  /\ UNCHANGED <<pool, thread, reaper, breaker, used>>

Known(i) == futures[i] # 0

\* Under the lock: join the job of the inode, or take a slot, or leave with None.
Enter(c) ==
  LET i == ask[c].inode IN
  /\ ask[c].at = "enter" /\ LockFree
  /\ \/ /\ Known(i)
        /\ Wait(c)
        /\ slots' = slots
     \/ /\ ~Known(i) /\ slots = 0
        /\ ask' = [ask EXCEPT ![c] = NoAsk]
        /\ slots' = slots
     \/ /\ ~Known(i) /\ slots > 0
        /\ Goto(c, "submit")
        /\ slots' = slots - 1
  /\ UNCHANGED <<asks, futures, jobs, thread, reaper, breaker, used>>

\* Mutant of Refused: the slot is not given back when submit raises.
RefusedKeepsSlot == slots' = slots
Refused == slots' = slots + 1

\* pool.submit: raises once the pool is shut down, and waits while it is being so.
Submit(c) ==
  /\ ask[c].at = "submit" /\ PoolFree
  /\ IF reaper.at # "off"
     THEN /\ Refused
          /\ ask' = [ask EXCEPT ![c] = NoAsk] /\ jobs' = jobs
     ELSE /\ jobs' = Append(jobs, [inode |-> ask[c].inode, state |-> "queued", hooked |-> FALSE])
          /\ ask' = [ask EXCEPT ![c] = [@ EXCEPT !.at = "record", !.job = Len(jobs) + 1]]
          /\ slots' = slots
  /\ UNCHANGED <<asks, futures, thread, reaper, breaker, used>>

Record(c) ==
  /\ ask[c].at = "record"
  /\ futures' = [futures EXCEPT ![ask[c].inode] = ask[c].job]
  /\ Goto(c, "register")
  /\ UNCHANGED <<asks, slots, jobs, thread, reaper, breaker, used>>

\* add_done_callback: on a job that is complete the callback runs here and now.
Register(c) ==
  LET j == ask[c].job IN
  /\ ask[c].at = "register"
  /\ IF Complete(j) THEN Goto(c, "finish") /\ jobs' = jobs
     ELSE Wait(c) /\ jobs' = [jobs EXCEPT ![j].hooked = TRUE]
  /\ UNCHANGED <<asks, slots, futures, thread, reaper, breaker, used>>

CallerFinish(c) ==
  /\ ask[c].at = "finish" /\ Remove(ask[c].job) /\ Goto(c, "release")
  /\ UNCHANGED <<asks, thread, reaper, breaker, used>>
CallerRelease(c) ==
  /\ ask[c].at = "release" /\ Return(ask[c].job) /\ Wait(c)
  /\ UNCHANGED <<asks, thread, reaper, breaker, used>>

\* The result, the job's exception, or TimeoutError after 10 s; submit_background
\* does not wait at all.
Leave(c) ==
  /\ ask[c].at = "wait"
  /\ ask' = [ask EXCEPT ![c] = NoAsk]
  /\ UNCHANGED <<asks, pool, thread, reaper, breaker, used>>

-----------------------------------------------------------------------------
(* A thread of the pool: _resolve, and generate of the runtime *)

Work(w, at) == thread' = [thread EXCEPT ![w].at = at]
Finished(w) ==
  thread' = [thread EXCEPT ![w] = [at |-> "done", job |-> @.job, attempt |-> 0, probe |-> FALSE]]
Attempted(w) == thread' = [thread EXCEPT ![w] = [@ EXCEPT !.at = "again", !.probe = FALSE]]
Others == UNCHANGED <<callers, reaper>>

Take(w) ==
  /\ thread[w].at = "idle"
  /\ \E j \in DOMAIN jobs :
       /\ jobs[j].state = "queued"
       /\ \A k \in 1..(j - 1) : jobs[k].state # "queued"
       /\ Set(j, "running")
       /\ thread' = [thread EXCEPT ![w] = [at |-> "resolve", job |-> j, attempt |-> 0, probe |-> FALSE]]
  /\ Others /\ UNCHANGED <<slots, futures, breaker, used>>

\* Mutant of Claim: range(2) is taken to allow a third attempt.
ClaimOften(w) ==
  /\ thread[w].attempt <= 2
  /\ used < Limit /\ used' = used + 1
  /\ thread' = [thread EXCEPT ![w] = [@ EXCEPT !.at = "admit", !.attempt = thread[w].attempt + 1]]
\* An attempt, the first of at most two, is paid with a claim in the window.
Claim(w) ==
  /\ thread[w].attempt < 2
  /\ used < Limit /\ used' = used + 1
  /\ thread' = [thread EXCEPT ![w] = [@ EXCEPT !.at = "admit", !.attempt = thread[w].attempt + 1]]

\* Without one there is no call: content the job finds or renders, no claim left in
\* the session's window or the global one, the deadline of the job, a failure.
Settle(w) == Finished(w) /\ used' = used

Resolve(w) ==
  /\ thread[w].at \in {"resolve", "again"}
  /\ Claim(w) \/ Settle(w)
  /\ Others /\ UNCHANGED <<pool, breaker>>

\* can_execute: a look without the lock, then for a probe a second one under it.
Admit(w) ==
  /\ thread[w].at = "admit"
  /\ Work(w, CASE state = "CLOSED"        -> "call"
               [] state = "OPEN" /\ due   -> "probe"
               [] OTHER                   -> "again")
  /\ Others /\ UNCHANGED <<pool, breaker, used>>
Probe(w) ==
  /\ thread[w].at = "probe"
  /\ IF state = "OPEN" /\ due
     THEN /\ state' = "HALF_OPEN"
          /\ thread' = [thread EXCEPT ![w] = [@ EXCEPT !.at = "call", !.probe = TRUE]]
     ELSE state' = state /\ Work(w, "again")
  /\ Others /\ UNCHANGED <<pool, failures, due, lost, used>>

\* record_success, without a lock: failures, then the state.
Answers(w) ==
  /\ thread[w].at = "call"
  /\ failures' = 0 /\ Work(w, "close")
  /\ Others /\ UNCHANGED <<pool, state, due, lost, used>>
\* Then the validator accepts the answer, or rejects it.
CloseCircuit(w) ==
  /\ thread[w].at = "close"
  /\ state' = "CLOSED"
  /\ Attempted(w) \/ Finished(w)
  /\ Others /\ UNCHANGED <<pool, failures, due, lost, used>>

Trips == state = "HALF_OPEN" \/ failures + 1 >= Threshold

\* Mutant of Fails: value errors, of a broken stream say, are not recorded.
FailsUnrecorded(w) ==
  /\ thread[w].at = "call"
  /\ \/ failures' = failures /\ Attempted(w)
     \/ /\ failures' = IF failures < Threshold THEN failures + 1 ELSE failures
        /\ IF Trips THEN Work(w, "trip") ELSE Attempted(w)
  /\ Others /\ UNCHANGED <<pool, state, due, lost, used>>
\* record_failure, without a lock: failures (above the threshold they only lengthen
\* the backoff), then the state, then next_retry.
Fails(w) ==
  /\ thread[w].at = "call"
  /\ failures' = IF failures < Threshold THEN failures + 1 ELSE failures
  /\ IF Trips THEN Work(w, "trip")
     ELSE Attempted(w)
  /\ Others /\ UNCHANGED <<pool, state, due, lost, used>>
OpenCircuit(w) ==
  /\ thread[w].at = "trip"
  /\ state' = "OPEN"
  /\ thread' = [thread EXCEPT ![w] = [@ EXCEPT !.at = "backoff", !.probe = FALSE]]
  /\ Others /\ UNCHANGED <<pool, failures, due, lost, used>>
BackOff(w) ==
  /\ thread[w].at = "backoff"
  /\ due' = FALSE /\ Work(w, "again")
  /\ Others /\ UNCHANGED <<pool, state, failures, lost, used>>

\* Another exception, a TypeError over eval_duration say, passes the except clause
\* of generate and leaves the breaker as it is.
Escapes(w) ==
  /\ thread[w].at = "call"
  /\ lost' = (lost \/ thread[w].probe)
  /\ Attempted(w)
  /\ Others /\ UNCHANGED <<pool, state, failures, due, used>>

\* The future gets its result and calls what is registered by now.
Done(w) ==
  LET j == thread[w].job IN
  /\ thread[w].at = "done"
  /\ Set(j, "done")
  /\ IF jobs[j].hooked THEN Work(w, "finish") ELSE thread' = [thread EXCEPT ![w] = NoWork]
  /\ Others /\ UNCHANGED <<slots, futures, breaker, used>>
ThreadFinish(w) ==
  /\ thread[w].at = "finish" /\ Remove(thread[w].job) /\ Work(w, "release")
  /\ Others /\ UNCHANGED <<breaker, used>>
ThreadRelease(w) ==
  /\ thread[w].at = "release" /\ Return(thread[w].job)
  /\ thread' = [thread EXCEPT ![w] = NoWork]
  /\ Others /\ UNCHANGED <<breaker, used>>

\* next_retry comes; the next minute begins.
BackoffEnds ==
  /\ ~due /\ due' = TRUE
  /\ UNCHANGED <<callers, pool, thread, reaper, state, failures, lost, used>>
Minute ==
  /\ used > 0 /\ used' = 0
  /\ UNCHANGED <<callers, pool, thread, reaper, breaker>>

-----------------------------------------------------------------------------
(* The reaper: close *)

Unmoved == UNCHANGED <<callers, thread, breaker, used>>

\* shutdown: no more jobs from here on, and those in the queue are cancelled.
Close ==
  /\ reaper.at = "off" /\ reaper' = [at |-> "draining", job |-> 0]
  /\ Unmoved /\ UNCHANGED pool
Drain ==
  /\ reaper.at = "draining"
  /\ \/ \E j \in DOMAIN jobs :
          /\ jobs[j].state = "queued"
          /\ \A k \in 1..(j - 1) : jobs[k].state # "queued"
          /\ Set(j, "cancelled")
          /\ reaper' = IF jobs[j].hooked THEN [at |-> "finish", job |-> j] ELSE reaper
     \/ /\ \A j \in DOMAIN jobs : jobs[j].state # "queued"
        /\ reaper' = [at |-> "join", job |-> 0] /\ jobs' = jobs
  /\ Unmoved /\ UNCHANGED <<slots, futures>>
ReaperFinish ==
  /\ reaper.at = "finish" /\ Remove(reaper.job)
  /\ reaper' = [reaper EXCEPT !.at = "release"] /\ Unmoved
ReaperRelease ==
  /\ reaper.at = "release" /\ Return(reaper.job)
  /\ reaper' = [at |-> "draining", job |-> 0] /\ Unmoved
Joined ==
  /\ reaper.at = "join" /\ \A w \in Worker : thread[w].at = "idle"
  /\ reaper' = [at |-> "closed", job |-> 0] /\ Unmoved /\ UNCHANGED pool

-----------------------------------------------------------------------------
CallerNext(c) ==
  Enter(c) \/ Submit(c) \/ Record(c) \/ Register(c) \/ CallerFinish(c) \/ CallerRelease(c)
    \/ Leave(c)
ThreadNext(w) ==
  \/ Take(w) \/ Resolve(w) \/ Admit(w) \/ Probe(w) \/ Answers(w) \/ CloseCircuit(w)
  \/ Fails(w) \/ OpenCircuit(w) \/ BackOff(w) \/ Escapes(w)
  \/ Done(w) \/ ThreadFinish(w) \/ ThreadRelease(w)
ReaperNext == Drain \/ ReaperFinish \/ ReaperRelease \/ Joined
Next ==
  \/ \E c \in Caller, i \in Inode : Ask(c, i)
  \/ \E c \in Caller : CallerNext(c)
  \/ \E w \in Worker : ThreadNext(w)
  \/ Close \/ ReaperNext
  \/ BackoffEnds \/ Minute

Spec == Init /\ [][Next]_vars
\* Threads are scheduled, requests and waits have deadlines.
FairSpec ==
  /\ Spec
  /\ \A c \in Caller : WF_vars(CallerNext(c))
  /\ \A w \in Worker : WF_vars(ThreadNext(w))
  /\ WF_vars(ReaperNext)

-----------------------------------------------------------------------------
(* Properties *)

TypeOK ==
  /\ ask \in [Caller -> [at : {"idle", "enter", "submit", "record", "register", "finish",
                               "release", "wait"},
                         inode : Inode \cup {0}, job : Nat]]
  /\ asks \in 0..MaxAsks /\ slots \in Nat /\ used \in 0..Limit
  /\ jobs \in Seq([inode : Inode, state : {"queued", "running", "done", "cancelled", "over"},
                   hooked : BOOLEAN])
  /\ futures \in [Inode -> 0..Len(jobs)]
  /\ thread \in [Worker -> [at : {"idle", "resolve", "admit", "probe", "call", "close", "trip",
                                  "backoff", "again", "done", "finish", "release"},
                            job : 0..Len(jobs), attempt : 0..2, probe : BOOLEAN]]
  /\ reaper \in [at : {"off", "draining", "finish", "release", "join", "closed"},
                 job : 0..Len(jobs)]
  /\ state \in {"CLOSED", "OPEN", "HALF_OPEN"} /\ failures \in 0..Threshold
  /\ due \in BOOLEAN /\ lost \in BOOLEAN

\* Whoever runs `finished', each job gives back the one slot it took, no inode has
\* two jobs at work, and the one it has is in _futures as soon as the lock is free.
JobsAccounted ==
  /\ slots + Cardinality({j \in DOMAIN jobs : jobs[j].state # "over"})
           + Cardinality({c \in Caller : ask[c].at = "submit"}) = Cardinality(Worker)
  /\ \A j, k \in DOMAIN jobs :
       j # k /\ ~Complete(j) /\ ~Complete(k) => jobs[j].inode # jobs[k].inode
  /\ LockFree => \A j \in DOMAIN jobs : ~Complete(j) => futures[jobs[j].inode] = j

\* A half-open circuit admits nobody, so whoever opened it halfway must still be at
\* work, ready to close or open it (CircuitBreaker), in any order of late answers,
\* or have lost it to an exception that generate does not count.
ProbeOwned ==
  state = "HALF_OPEN" => lost \/ \E w \in Worker : thread[w].probe

\* Every ask comes to an end and every job gives back its slot, whatever the order of
\* callback, registration, lock and close ("add_done_callback can run immediately").
\* With two workers it fails during close: a caller then waits for the pool with the
\* lock in hand that `finished' wants.  fuse.py has one worker to an orchestrator.
EveryAskEnds == <>[]((\A c \in Caller : ask[c].at = "idle") /\ slots = Cardinality(Worker))

=============================================================================
