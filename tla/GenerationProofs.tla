--------------------------- MODULE GenerationProofs ---------------------------
(***************************************************************************)
(* Proofs about Generation for every set of callers, any number of workers *)
(* and every limit.                                                        *)
(***************************************************************************)
EXTENDS Generation, FiniteSetTheorems, TLAPS

(***************************************************************************)
(* The inductive invariant.                                                *)
(***************************************************************************)
Holding == {"record", "register", "finish", "release"}
Ending == {"finish", "release"}

\* A caller that still has to register the callback of its job, or runs it itself, is
\* the only one that can end that job.
CallersHold ==
  /\ \A c \in Caller : ask[c].at \notin {"idle", "wait"} => ask[c].inode \in Inode
  /\ \A c \in Caller : ask[c].at \in Holding =>
       /\ ask[c].job \in DOMAIN jobs
       /\ jobs[ask[c].job].inode = ask[c].inode
       /\ ~jobs[ask[c].job].hooked
       /\ jobs[ask[c].job].state # "over"
       /\ ask[c].at \in Ending => jobs[ask[c].job].state \in {"done", "cancelled"}
  /\ \A c, d \in Caller :
       c # d /\ ask[c].at \in Holding /\ ask[d].at \in Holding => ask[c].job # ask[d].job

\* A thread works on a job of its own.
ThreadsHold ==
  /\ \A w \in Worker : thread[w].at # "idle" =>
       /\ thread[w].job \in DOMAIN jobs
       /\ IF thread[w].at \in Ending
          THEN jobs[thread[w].job].state = "done" /\ jobs[thread[w].job].hooked
          ELSE jobs[thread[w].job].state = "running"
  /\ \A v, w \in Worker :
       v # w /\ thread[v].at # "idle" /\ thread[w].at # "idle" => thread[v].job # thread[w].job

ReaperHolds ==
  reaper.at \in Ending =>
    reaper.job \in DOMAIN jobs /\ jobs[reaper.job].state = "cancelled" /\ jobs[reaper.job].hooked

\* The lock admits one caller, and what it saw of _futures is still so.
OneSubmits ==
  /\ \A c, d \in Caller :
       ask[c].at \in {"submit", "record"} /\ ask[d].at \in {"submit", "record"} => c = d
  /\ \A c \in Caller : ask[c].at \in {"submit", "record"} => futures[ask[c].inode] = 0

\* A job that is not complete is the one of its inode, or about to be recorded as such.
FuturesKnow ==
  \A j \in DOMAIN jobs : ~Complete(j) =>
    \/ futures[jobs[j].inode] = j
    \/ \E c \in Caller : ask[c].at = "record" /\ ask[c].job = j

Open == {j \in DOMAIN jobs : jobs[j].state # "over"}
Submitting == {c \in Caller : ask[c].at = "submit"}
SlotsCounted == slots + Cardinality(Open) + Cardinality(Submitting) = Cardinality(Worker)

\* Only a thread that calls the model, or has its answer or failure in hand, is a probe.
ProbesWork == \A w \in Worker : thread[w].probe => thread[w].at \in {"call", "close", "trip"}

PoolInv == CallersHold /\ ThreadsHold /\ ReaperHolds /\ OneSubmits /\ FuturesKnow /\ SlotsCounted
IInv == TypeOK /\ PoolInv /\ ProbesWork /\ ProbeOwned

-----------------------------------------------------------------------------
(***************************************************************************)
(* Jobs and slots.                                                         *)
(***************************************************************************)
JobRecord == [inode : Inode, state : {"queued", "running", "done", "cancelled", "over"},
              hooked : BOOLEAN]
JobStates == {"queued", "running", "done", "cancelled", "over"}
\* A caller, one that holds no job, a thread, the reaper.
AskRecord == [at : {"idle", "enter", "submit", "record", "register", "finish", "release", "wait"},
              inode : Inode \cup {0}, job : Nat]
FreeRecord == [at : {"idle", "enter", "wait", "submit"}, inode : Inode \cup {0}, job : Nat]
ThreadRecord == [at : {"idle", "resolve", "admit", "probe", "call", "close", "trip", "backoff",
                       "again", "done", "finish", "release"},
                 job : 0..Len(jobs), attempt : 0..2, probe : BOOLEAN]
ReaperRecord == [at : {"off", "draining", "finish", "release", "join", "closed"},
                 job : 0..Len(jobs)]

\* Jobs are records of their type.
LEMMA JobsTyped ==
  ASSUME TypeOK
  PROVE  /\ jobs \in Seq(JobRecord) /\ Len(jobs) \in Nat /\ DOMAIN jobs = 1..Len(jobs)
         /\ \A k \in DOMAIN jobs : /\ jobs[k] \in JobRecord
                                   /\ jobs[k].inode \in Inode
                                   /\ jobs[k].state \in JobStates
                                   /\ jobs[k].hooked \in BOOLEAN
<1>1. jobs \in Seq(JobRecord)
  BY DEF TypeOK, JobRecord
<1>2. \A k \in DOMAIN jobs : jobs[k] \in JobRecord
  BY <1>1
<1> QED
  BY <1>1, <1>2 DEF JobRecord, JobStates

\* A change of one job's state changes nothing else of the jobs.
LEMMA SetFacts ==
  ASSUME TypeOK, NEW j \in DOMAIN jobs, NEW what \in JobStates, Set(j, what)
  PROVE  /\ jobs' \in Seq(JobRecord) /\ Len(jobs') = Len(jobs) /\ DOMAIN jobs' = DOMAIN jobs
         /\ jobs'[j].state = what
         /\ \A k \in DOMAIN jobs : k # j => jobs'[k] = jobs[k]
         /\ \A k \in DOMAIN jobs : /\ jobs'[k].inode = jobs[k].inode
                                   /\ jobs'[k].hooked = jobs[k].hooked
                                   /\ jobs[k] \in JobRecord
<1>1. jobs \in Seq(JobRecord)
  BY DEF TypeOK, JobRecord
<1>2. \A k \in DOMAIN jobs : jobs[k] \in JobRecord
  BY <1>1
<1>3. [jobs[j] EXCEPT !.state = what] \in JobRecord
  BY <1>2 DEF JobRecord, JobStates
<1>4. jobs' = [jobs EXCEPT ![j] = [jobs[j] EXCEPT !.state = what]]
  BY DEF Set
<1>5. jobs' \in Seq(JobRecord) /\ Len(jobs') = Len(jobs) /\ DOMAIN jobs' = DOMAIN jobs
  BY <1>1, <1>3, <1>4
<1>6. /\ jobs'[j] = [jobs[j] EXCEPT !.state = what]
      /\ \A k \in DOMAIN jobs : k # j => jobs'[k] = jobs[k]
  BY <1>4
<1>7. \A k \in DOMAIN jobs : jobs'[k].inode = jobs[k].inode /\ jobs'[k].hooked = jobs[k].hooked
  BY <1>2, <1>6 DEF JobRecord
<1>8. jobs'[j].state = what
  BY <1>2, <1>6 DEF JobRecord
<1> QED
  BY <1>2, <1>5, <1>6, <1>7, <1>8

\* The sets that are counted are finite.
LEMMA CountedFinite ==
  ASSUME TypeOK
  PROVE  /\ IsFiniteSet(Open) /\ Cardinality(Open) \in Nat
         /\ IsFiniteSet(Submitting) /\ Cardinality(Submitting) \in Nat
         /\ Cardinality(Worker) \in Nat
<1>1. Open \in SUBSET (1..Len(jobs)) /\ Len(jobs) \in Nat
  BY DEF Open, TypeOK
<1>2. IsFiniteSet(1..Len(jobs))
  BY <1>1, FS_Interval, 1 \in Int, Len(jobs) \in Int
<1>3. IsFiniteSet(Open)
  BY <1>1, <1>2, FS_Subset
<1>4. Submitting \in SUBSET Caller
  BY DEF Submitting
<1>5. IsFiniteSet(Submitting)
  BY <1>4, FS_Subset, GenerationConstants
<1> QED
  BY <1>3, <1>5, FS_CardinalityType, GenerationConstants

\* A change between states other than over leaves the count of open jobs as it is.
LEMMA SetKeepsCount ==
  ASSUME TypeOK, SlotsCounted, NEW j \in DOMAIN jobs, NEW what \in JobStates \ {"over"},
         Set(j, what), jobs[j].state # "over", Submitting' = Submitting, slots' = slots
  PROVE  SlotsCounted'
<1>1. Open' = Open
  BY SetFacts DEF Open, JobStates
<1> QED
  BY <1>1 DEF SlotsCounted

\* The slot that comes back is the one of the job that is over from then on.
LEMMA ReturnKeepsCount ==
  ASSUME TypeOK, SlotsCounted, NEW j \in DOMAIN jobs, Return(j), jobs[j].state # "over",
         Submitting' = Submitting
  PROVE  SlotsCounted'
<1>0. Set(j, "over") /\ slots' = slots + 1
  BY DEF Return
<1>1. Open' = Open \ {j}
  BY <1>0, SetFacts DEF Open, JobStates
<1>2. j \in Open
  BY DEF Open
<1>3. Cardinality(Open') = Cardinality(Open) - 1
  BY <1>1, <1>2, CountedFinite, FS_RemoveElement
<1>4. slots \in Nat
  BY DEF TypeOK
<1> QED
  BY <1>0, <1>3, <1>4, CountedFinite DEF SlotsCounted

\* Where neither jobs, slots nor the callers in submit change, the count stays.
LEMMA CountStays ==
  ASSUME SlotsCounted, UNCHANGED <<slots, jobs>>, Submitting' = Submitting
  PROVE  SlotsCounted'
<1>1. Open' = Open
  BY DEF Open
<1> QED
  BY <1>1 DEF SlotsCounted

\* A caller that moves between places other than submit does not change who is in it.
LEMMA SubmittingStays ==
  ASSUME TypeOK, NEW c \in Caller, ask[c].at # "submit",
         NEW x, x.at # "submit", ask' = [ask EXCEPT ![c] = x]
  PROVE  Submitting' = Submitting
BY DEF Submitting, TypeOK

\* `finished' takes the entry of a complete job only.
LEMMA RemoveKeeps ==
  ASSUME TypeOK, FuturesKnow, OneSubmits, NEW j \in DOMAIN jobs, Complete(j), Remove(j),
         \A c \in Caller : ask[c].at \in {"submit", "record"} => ask'[c] = ask[c],
         \A c \in Caller : ask'[c].at \in {"submit", "record"} => ask'[c] = ask[c]
  PROVE  /\ FuturesKnow' /\ OneSubmits' /\ futures' \in [Inode -> 0..Len(jobs)]
         /\ UNCHANGED <<slots, jobs>>
<1>1. UNCHANGED <<slots, jobs>> /\ LockFree
  BY DEF Remove
<1>2. \A c \in Caller : ask'[c].at \notin {"submit", "record"}
  BY <1>1 DEF LockFree
<1>3. OneSubmits'
  BY <1>2 DEF OneSubmits
<1>4. jobs[j].inode \in Inode /\ futures \in [Inode -> 0..Len(jobs)] /\ Len(jobs) \in Nat
  BY JobsTyped DEF TypeOK
<1>5. futures' \in [Inode -> 0..Len(jobs)]
  BY <1>4 DEF Remove
<1>6. \A k \in DOMAIN jobs : jobs[k].inode \in Inode
  BY JobsTyped
<1>7. ASSUME NEW k \in DOMAIN jobs, ~Complete(k) PROVE futures'[jobs[k].inode] = k
  <2>1. futures[jobs[k].inode] = k
    BY <1>1, <1>7 DEF FuturesKnow, LockFree
  <2>2. k # j
    BY <1>7
  <2> QED
    BY <2>1, <2>2, <1>4, <1>6 DEF Remove
<1>8. FuturesKnow'
  BY <1>7, <1>1 DEF FuturesKnow, Complete
<1> QED
  BY <1>1, <1>3, <1>5, <1>8

-----------------------------------------------------------------------------
(***************************************************************************)
(* What an action leaves alone.                                            *)
(***************************************************************************)
RunningAt == {"resolve", "admit", "probe", "call", "close", "trip", "backoff", "again", "done"}

\* Each part of the invariant depends on some of the variables only.
LEMMA Frame ==
  /\ CallersHold /\ UNCHANGED <<ask, jobs>> => CallersHold'
  /\ ThreadsHold /\ UNCHANGED <<thread, jobs>> => ThreadsHold'
  /\ ReaperHolds /\ UNCHANGED <<reaper, jobs>> => ReaperHolds'
  /\ OneSubmits /\ UNCHANGED <<ask, futures>> => OneSubmits'
  /\ FuturesKnow /\ UNCHANGED <<ask, futures, jobs>> => FuturesKnow'
  /\ SlotsCounted /\ UNCHANGED <<ask, slots, jobs>> => SlotsCounted'
  /\ ProbesWork /\ UNCHANGED thread => ProbesWork'
  /\ ProbeOwned /\ UNCHANGED <<thread, state, lost>> => ProbeOwned'
<1>1. CallersHold /\ UNCHANGED <<ask, jobs>> => CallersHold'
  BY DEF CallersHold
<1>2. ThreadsHold /\ UNCHANGED <<thread, jobs>> => ThreadsHold'
  BY DEF ThreadsHold
<1>3. ReaperHolds /\ UNCHANGED <<reaper, jobs>> => ReaperHolds'
  BY DEF ReaperHolds
<1>4. OneSubmits /\ UNCHANGED <<ask, futures>> => OneSubmits'
  BY DEF OneSubmits
<1>5. FuturesKnow /\ UNCHANGED <<ask, futures, jobs>> => FuturesKnow'
  BY DEF FuturesKnow, Complete
<1>6. SlotsCounted /\ UNCHANGED <<ask, slots, jobs>> => SlotsCounted'
  BY DEF SlotsCounted, Open, Submitting
<1>7. ProbesWork /\ UNCHANGED thread => ProbesWork'
  BY DEF ProbesWork
<1>8. ProbeOwned /\ UNCHANGED <<thread, state, lost>> => ProbeOwned'
  BY DEF ProbeOwned
<1> QED
  BY <1>1, <1>2, <1>3, <1>4, <1>5, <1>6, <1>7, <1>8

\* A thread that stays with its running job leaves the pool as it is.
LEMMA ThreadMoves ==
  ASSUME TypeOK, PoolInv, NEW w \in Worker, thread[w].at \in RunningAt,
         NEW x, x.at \in RunningAt, x.job = thread[w].job,
         thread' = [thread EXCEPT ![w] = x], UNCHANGED <<ask, pool, reaper>>
  PROVE  PoolInv'
<1>1. UNCHANGED <<slots, futures, jobs>>
  BY DEF pool
<1>2. thread \in [Worker -> [at : RunningAt \cup Ending \cup {"idle"}, job : 0..Len(jobs),
                             attempt : 0..2, probe : BOOLEAN]]
  BY DEF TypeOK, RunningAt, Ending
<1>3. ThreadsHold
  BY DEF PoolInv
<1>4. \A v \in Worker : /\ thread'[v].job = thread[v].job
                        /\ thread'[v].at = "idle" <=> thread[v].at = "idle"
                        /\ thread'[v].at \in Ending <=> thread[v].at \in Ending
  BY <1>2 DEF RunningAt, Ending
<1>5. ThreadsHold'
  BY <1>1, <1>3, <1>4 DEF ThreadsHold
<1> QED
  BY <1>1, <1>5, Frame DEF PoolInv

\* The state of a job changes, and nobody who relies on it is left behind.
LEMMA SetKeeps ==
  ASSUME TypeOK, NEW j \in DOMAIN jobs, NEW what \in JobStates, Set(j, what)
  PROVE  /\ CallersHold /\ UNCHANGED ask
            /\ (jobs[j].hooked \/ (jobs[j].state \in {"queued", "running"} /\ what # "over"))
              => CallersHold'
         /\ ThreadsHold /\ UNCHANGED thread
            /\ (\A w \in Worker : thread[w].at # "idle" => thread[w].job # j) => ThreadsHold'
         /\ ReaperHolds /\ UNCHANGED reaper
            /\ (reaper.at \in Ending => reaper.job # j) => ReaperHolds'
         /\ FuturesKnow /\ UNCHANGED futures
            /\ (Complete(j) => what \in {"done", "cancelled", "over"})
            /\ (\A c \in Caller : ask[c].at = "record" => ask'[c] = ask[c]) => FuturesKnow'
<1>1. CallersHold /\ UNCHANGED ask
      /\ (jobs[j].hooked \/ (jobs[j].state \in {"queued", "running"} /\ what # "over"))
        => CallersHold'
  <2>1. SUFFICES ASSUME CallersHold, UNCHANGED ask,
                        jobs[j].hooked \/ (jobs[j].state \in {"queued", "running"} /\ what # "over")
                 PROVE  CallersHold'
    OBVIOUS
  <2>2. ASSUME NEW c \in Caller, ask[c].at \in Holding
        PROVE  /\ ask[c].job \in DOMAIN jobs'
               /\ jobs'[ask[c].job].inode = ask[c].inode
               /\ ~jobs'[ask[c].job].hooked
               /\ jobs'[ask[c].job].state # "over"
               /\ ask[c].at \in Ending => jobs'[ask[c].job].state \in {"done", "cancelled"}
    <3>1. /\ ask[c].job \in DOMAIN jobs /\ ~jobs[ask[c].job].hooked
          /\ jobs[ask[c].job].inode = ask[c].inode
          /\ jobs[ask[c].job].state # "over"
          /\ ask[c].at \in Ending => jobs[ask[c].job].state \in {"done", "cancelled"}
      BY <2>1, <2>2 DEF CallersHold
    <3>2. CASE ask[c].job = j
      BY <2>1, <3>1, <3>2, SetFacts
    <3>3. CASE ask[c].job # j
      BY <3>1, <3>3, SetFacts
    <3> QED
      BY <3>2, <3>3
  <2> QED
    BY <2>1, <2>2 DEF CallersHold
<1>2. ThreadsHold /\ UNCHANGED thread
      /\ (\A w \in Worker : thread[w].at # "idle" => thread[w].job # j) => ThreadsHold'
  BY SetFacts DEF ThreadsHold
<1>3. ReaperHolds /\ UNCHANGED reaper
      /\ (reaper.at \in Ending => reaper.job # j) => ReaperHolds'
  BY SetFacts DEF ReaperHolds
<1>4. FuturesKnow /\ UNCHANGED futures /\ (Complete(j) => what \in {"done", "cancelled", "over"})
      /\ (\A c \in Caller : ask[c].at = "record" => ask'[c] = ask[c]) => FuturesKnow'
  BY SetFacts DEF FuturesKnow, Complete
<1> QED
  BY <1>1, <1>2, <1>3, <1>4

-----------------------------------------------------------------------------
(***************************************************************************)
(* The steps of a caller.                                                  *)
(***************************************************************************)
\* A caller moves while holding nothing, or lets go: its own conjuncts only.
LEMMA CallerMoves ==
  ASSUME TypeOK, NEW c \in Caller, NEW x,
         x \in FreeRecord,
         x.at \in {"enter", "submit"} => x.inode \in Inode,
         ask' = [ask EXCEPT ![c] = x]
  PROVE  /\ ask' \in [Caller -> AskRecord]
         /\ CallersHold /\ UNCHANGED jobs => CallersHold'
         /\ OneSubmits /\ UNCHANGED futures /\ x.at # "submit" => OneSubmits'
         /\ FuturesKnow /\ UNCHANGED <<futures, jobs>> /\ ask[c].at # "record" => FuturesKnow'
<1>1. ask' \in [Caller -> AskRecord]
  BY DEF TypeOK, AskRecord, FreeRecord
<1>2. ask'[c] = x /\ \A d \in Caller : d # c => ask'[d] = ask[d]
  BY DEF TypeOK
<1>3. x.at \notin Holding
  BY DEF Holding, FreeRecord
<1>4. CallersHold /\ UNCHANGED jobs => CallersHold'
  BY <1>2, <1>3 DEF CallersHold, FreeRecord
<1>5. OneSubmits /\ UNCHANGED futures /\ x.at # "submit" => OneSubmits'
  BY <1>2, <1>3 DEF OneSubmits, Holding
<1>6. FuturesKnow /\ UNCHANGED <<futures, jobs>> /\ ask[c].at # "record" => FuturesKnow'
  BY <1>2 DEF FuturesKnow, Complete
<1> QED
  BY <1>1, <1>4, <1>5, <1>6

\* A new ask holds nothing yet.
LEMMA AskKeeps ==
  ASSUME IInv, NEW c \in Caller, NEW i \in Inode, Ask(c, i)
  PROVE  IInv'
<1>0. TypeOK /\ PoolInv /\ ProbesWork /\ ProbeOwned
  BY DEF IInv
<1> DEFINE x == [at |-> "enter", inode |-> i, job |-> 0]
<1>1. /\ ask' = [ask EXCEPT ![c] = x] /\ ask[c].at = "idle" /\ asks' = asks + 1 /\ asks < MaxAsks
      /\ UNCHANGED <<slots, futures, jobs, thread, reaper, state, failures, due, lost, used>>
  BY DEF Ask, pool, breaker
<1>2. x \in FreeRecord
      /\ x.at = "enter" /\ x.inode \in Inode
  BY DEF FreeRecord
<1> HIDE DEF x
<1>3. /\ ask' \in [Caller -> AskRecord]
      /\ CallersHold' /\ OneSubmits' /\ FuturesKnow'
  BY <1>0, <1>1, <1>2, CallerMoves DEF PoolInv
<1>4. TypeOK'
  BY <1>0, <1>1, <1>3, GenerationConstants DEF TypeOK, AskRecord
<1>5. Submitting' = Submitting
  BY <1>0, <1>1, <1>2, SubmittingStays
<1>6. SlotsCounted'
  BY <1>0, <1>1, <1>5, CountStays DEF PoolInv
<1> QED
  BY <1>0, <1>1, <1>3, <1>4, <1>6, Frame DEF IInv, PoolInv

\* Joining and leaving hold nothing; taking a slot counts one more in submit.
LEMMA EnterKeeps ==
  ASSUME IInv, NEW c \in Caller, Enter(c)
  PROVE  IInv'
<1>0. TypeOK /\ PoolInv /\ ProbesWork /\ ProbeOwned
  BY DEF IInv
<1>1. /\ ask[c].at = "enter" /\ LockFree
      /\ UNCHANGED <<asks, futures, jobs, thread, reaper, state, failures, due, lost, used>>
  BY DEF Enter, breaker
<1>2. ask[c].inode \in Inode /\ slots \in Nat
      /\ ask[c] \in AskRecord
  BY <1>0, <1>1 DEF PoolInv, CallersHold, TypeOK, AskRecord
<1>3. CASE UNCHANGED slots /\ (Wait(c) \/ ask' = [ask EXCEPT ![c] = NoAsk])
  <2>1. PICK x \in {NoAsk, [NoAsk EXCEPT !.at = "wait"]} : ask' = [ask EXCEPT ![c] = x]
    BY <1>3 DEF Wait
  <2>2. /\ x \in FreeRecord
        /\ x.at \in {"idle", "wait"}
    BY DEF NoAsk, FreeRecord
  <2>3. /\ ask' \in [Caller -> AskRecord]
        /\ CallersHold' /\ OneSubmits' /\ FuturesKnow'
    BY <1>0, <1>1, <2>1, <2>2, CallerMoves DEF PoolInv
  <2>4. TypeOK'
    BY <1>0, <1>1, <1>3, <2>3 DEF TypeOK, AskRecord
  <2>5. Submitting' = Submitting
    BY <1>0, <1>1, <2>1, <2>2, SubmittingStays
  <2>6. SlotsCounted'
    BY <1>0, <1>1, <1>3, <2>5, CountStays DEF PoolInv
  <2> QED
    BY <1>0, <1>1, <2>3, <2>4, <2>6, Frame DEF IInv, PoolInv
<1>4. CASE ~Known(ask[c].inode) /\ slots > 0 /\ Goto(c, "submit") /\ slots' = slots - 1
  <2> DEFINE x == [ask[c] EXCEPT !.at = "submit"]
  <2>1. ask' = [ask EXCEPT ![c] = x]
    BY <1>0, <1>4 DEF Goto, TypeOK
  <2>2. /\ x \in FreeRecord
        /\ x.at = "submit" /\ x.inode = ask[c].inode
    BY <1>2 DEF AskRecord, FreeRecord
  <2> HIDE DEF x
  <2>3. /\ ask' \in [Caller -> AskRecord]
        /\ CallersHold' /\ FuturesKnow'
    BY <1>0, <1>1, <1>2, <2>1, <2>2, CallerMoves DEF PoolInv
  <2>4. TypeOK'
    BY <1>0, <1>1, <1>2, <1>4, <2>3 DEF TypeOK, AskRecord
  <2>5. ask'[c] = x /\ \A d \in Caller : d # c => ask'[d] = ask[d]
    BY <1>0, <2>1 DEF TypeOK
  <2>6. OneSubmits'
    BY <1>1, <1>4, <2>2, <2>5 DEF OneSubmits, LockFree, Known
  <2>7. Submitting' = Submitting \cup {c} /\ c \notin Submitting
    BY <1>1, <2>2, <2>5 DEF Submitting
  <2>8. Cardinality(Submitting') = Cardinality(Submitting) + 1
    BY <1>0, <2>7, CountedFinite, FS_AddElement
  <2>9. Open' = Open
    BY <1>1 DEF Open
  <2>10. SlotsCounted'
    BY <1>0, <1>2, <1>4, <2>8, <2>9, CountedFinite DEF SlotsCounted, PoolInv
  <2> QED
    BY <1>0, <1>1, <2>3, <2>4, <2>6, <2>10, Frame DEF IInv, PoolInv
<1> QED
  BY <1>3, <1>4 DEF Enter

\* Who waits holds nothing.
LEMMA LeaveKeeps ==
  ASSUME IInv, NEW c \in Caller, Leave(c)
  PROVE  IInv'
<1>0. TypeOK /\ PoolInv /\ ProbesWork /\ ProbeOwned
  BY DEF IInv
<1>1. /\ ask[c].at = "wait" /\ ask' = [ask EXCEPT ![c] = NoAsk]
      /\ UNCHANGED <<asks, slots, futures, jobs, thread, reaper, state, failures, due, lost, used>>
  BY DEF Leave, pool, breaker
<1>2. /\ NoAsk \in FreeRecord
      /\ NoAsk.at = "idle"
  BY DEF NoAsk, FreeRecord
<1>3. /\ ask' \in [Caller -> AskRecord]
      /\ CallersHold' /\ OneSubmits' /\ FuturesKnow'
  BY <1>0, <1>1, <1>2, CallerMoves DEF PoolInv
<1>4. TypeOK'
  BY <1>0, <1>1, <1>3 DEF TypeOK, AskRecord
<1>5. Submitting' = Submitting
  BY <1>0, <1>1, <1>2, SubmittingStays
<1>6. SlotsCounted'
  BY <1>0, <1>1, <1>5, CountStays DEF PoolInv
<1> QED
  BY <1>0, <1>1, <1>3, <1>4, <1>6, Frame DEF IInv, PoolInv

\* The new job is open, and its caller is about to record it.
LEMMA SubmitKeeps ==
  ASSUME IInv, NEW c \in Caller, Submit(c)
  PROVE  IInv'
<1>0. TypeOK /\ PoolInv /\ ProbesWork /\ ProbeOwned
  BY DEF IInv
<1>1. /\ ask[c].at = "submit"
      /\ UNCHANGED <<asks, futures, thread, reaper, state, failures, due, lost, used>>
  BY DEF Submit, breaker
<1>2. /\ ask[c].inode \in Inode /\ slots \in Nat /\ futures[ask[c].inode] = 0
      /\ ask[c] \in AskRecord
      /\ \A d \in Caller : d # c => ask[d].at \notin {"submit", "record"}
  BY <1>0, <1>1 DEF PoolInv, CallersHold, OneSubmits, TypeOK, AskRecord
<1>3. ASSUME NEW x, x.at # "submit", ask' = [ask EXCEPT ![c] = x]
      PROVE  Cardinality(Submitting') = Cardinality(Submitting) - 1
  <2>1. Submitting' = Submitting \ {c} /\ c \in Submitting
    BY <1>0, <1>1, <1>3 DEF Submitting, TypeOK
  <2> QED
    BY <1>0, <2>1, CountedFinite, FS_RemoveElement
<1>4. CASE Refused /\ ask' = [ask EXCEPT ![c] = NoAsk] /\ jobs' = jobs
  <2>1. /\ NoAsk \in FreeRecord
        /\ NoAsk.at = "idle"
    BY DEF NoAsk, FreeRecord
  <2>2. /\ ask' \in [Caller -> AskRecord]
        /\ CallersHold' /\ OneSubmits' /\ FuturesKnow'
    BY <1>0, <1>1, <1>4, <2>1, CallerMoves DEF PoolInv
  <2>3. TypeOK'
    BY <1>0, <1>1, <1>2, <1>4, <2>2 DEF TypeOK, Refused, AskRecord
  <2>4. Open' = Open
    BY <1>4 DEF Open
  <2>5. SlotsCounted'
    <3>1. Cardinality(Submitting') = Cardinality(Submitting) - 1
      BY <1>3, <1>4, <2>1
    <3> QED
      BY <1>0, <1>2, <1>4, <2>4, <3>1, CountedFinite DEF SlotsCounted, PoolInv, Refused
  <2> QED
    BY <1>0, <1>1, <1>4, <2>2, <2>3, <2>5, Frame DEF IInv, PoolInv
<1>5. CASE /\ jobs' = Append(jobs, [inode |-> ask[c].inode, state |-> "queued", hooked |-> FALSE])
           /\ ask' = [ask EXCEPT ![c] = [@ EXCEPT !.at = "record", !.job = Len(jobs) + 1]]
           /\ slots' = slots
  <2> DEFINE new == [inode |-> ask[c].inode, state |-> "queued", hooked |-> FALSE]
             j == Len(jobs) + 1
  <2>1. jobs \in Seq(JobRecord) /\ Len(jobs) \in Nat /\ DOMAIN jobs = 1..Len(jobs)
        /\ \A k \in DOMAIN jobs : jobs[k] \in JobRecord
    BY <1>0, JobsTyped
  <2>2. new \in JobRecord
    BY <1>2 DEF JobRecord
  <2>3. /\ jobs' \in Seq(JobRecord) /\ Len(jobs') = j /\ DOMAIN jobs' = DOMAIN jobs \cup {j}
        /\ jobs'[j] = new /\ j \notin DOMAIN jobs /\ j \in Nat
        /\ \A k \in DOMAIN jobs : jobs'[k] = jobs[k]
    BY <1>5, <2>1, <2>2
  <2>4. /\ ask'[c].at = "record" /\ ask'[c].inode = ask[c].inode /\ ask'[c].job = j
        /\ \A d \in Caller : d # c => ask'[d] = ask[d]
        /\ ask' \in [Caller -> AskRecord]
    BY <1>0, <1>2, <1>5, <2>3 DEF TypeOK, AskRecord
  <2>5. TypeOK'
    <3>1. futures' \in [Inode -> 0..Len(jobs')]
      BY <1>0, <1>1, <2>1, <2>3 DEF TypeOK
    <3>2. thread' \in [Worker -> [at : {"idle", "resolve", "admit", "probe", "call", "close",
                                        "trip", "backoff", "again", "done", "finish", "release"},
                                  job : 0..Len(jobs'), attempt : 0..2, probe : BOOLEAN]]
      BY <1>0, <1>1, <2>1, <2>3 DEF TypeOK
    <3>3. reaper' \in [at : {"off", "draining", "finish", "release", "join", "closed"},
                       job : 0..Len(jobs')]
      BY <1>0, <1>1, <2>1, <2>3 DEF TypeOK
    <3> QED
      BY <1>0, <1>1, <1>5, <2>3, <2>4, <3>1, <3>2, <3>3 DEF TypeOK, JobRecord
  <2>6. CallersHold'
    <3>1. \A d \in Caller : d # c /\ ask'[d].at \in Holding =>
             ask'[d] = ask[d] /\ ask[d].job \in DOMAIN jobs /\ jobs'[ask[d].job] = jobs[ask[d].job]
      BY <1>0, <2>3, <2>4 DEF PoolInv, CallersHold
    <3>2. jobs'[j].inode = ask[c].inode /\ ~jobs'[j].hooked /\ jobs'[j].state # "over"
      BY <2>3
    <3>3. CallersHold
      BY <1>0 DEF PoolInv
    <3>4. \A d \in Caller : ask'[d].at \notin {"idle", "wait"} => ask'[d].inode \in Inode
      BY <1>2, <2>4, <3>3 DEF CallersHold
    <3>5. \A d \in Caller : ask'[d].at \in Holding =>
            /\ ask'[d].job \in DOMAIN jobs'
            /\ jobs'[ask'[d].job].inode = ask'[d].inode
            /\ ~jobs'[ask'[d].job].hooked
            /\ jobs'[ask'[d].job].state # "over"
            /\ ask'[d].at \in Ending => jobs'[ask'[d].job].state \in {"done", "cancelled"}
      <4> SUFFICES ASSUME NEW d \in Caller, ask'[d].at \in Holding
                   PROVE  /\ ask'[d].job \in DOMAIN jobs'
                          /\ jobs'[ask'[d].job].inode = ask'[d].inode
                          /\ ~jobs'[ask'[d].job].hooked
                          /\ jobs'[ask'[d].job].state # "over"
                          /\ ask'[d].at \in Ending
                               => jobs'[ask'[d].job].state \in {"done", "cancelled"}
        OBVIOUS
      <4>1. CASE d = c
        BY <4>1, <2>3, <2>4, <3>2 DEF Ending
      <4>2. CASE d # c
        BY <4>2, <2>3, <2>4, <3>1, <3>3 DEF CallersHold
      <4> QED
        BY <4>1, <4>2
    <3>6. \A d, e \in Caller :
            d # e /\ ask'[d].at \in Holding /\ ask'[e].at \in Holding => ask'[d].job # ask'[e].job
      BY <2>3, <2>4, <3>1, <3>3 DEF CallersHold
    <3> QED
      BY <3>4, <3>5, <3>6 DEF CallersHold
  <2>7. ThreadsHold'
    BY <1>0, <1>1, <2>3 DEF PoolInv, ThreadsHold
  <2>8. ReaperHolds'
    BY <1>0, <1>1, <2>3 DEF PoolInv, ReaperHolds
  <2>9. OneSubmits'
    BY <1>0, <1>1, <1>2, <2>4 DEF PoolInv, OneSubmits
  <2>10. FuturesKnow'
    <3>1. ASSUME NEW k \in DOMAIN jobs, ~Complete(k)
          PROVE  futures[jobs[k].inode] = k
      BY <1>0, <1>1, <1>2, <3>1 DEF PoolInv, FuturesKnow
    <3> QED
      BY <1>1, <2>3, <2>4, <3>1 DEF FuturesKnow, Complete
  <2>11. Cardinality(Open') = Cardinality(Open) + 1
    <3>1. Open' = Open \cup {j} /\ j \notin Open
      BY <2>3 DEF Open
    <3> QED
      BY <1>0, <3>1, CountedFinite, FS_AddElement
  <2>12. Cardinality(Submitting') = Cardinality(Submitting) - 1
    <3>1. [ask[c] EXCEPT !.at = "record", !.job = Len(jobs) + 1].at # "submit"
      BY <1>2
    <3> QED
      BY <1>3, <1>5, <3>1
  <2>13. SlotsCounted'
    BY <1>0, <1>2, <1>5, <2>11, <2>12, CountedFinite DEF SlotsCounted, PoolInv
  <2> QED
    BY <1>0, <1>1, <2>5, <2>6, <2>7, <2>8, <2>9, <2>10, <2>13, Frame DEF IInv, PoolInv
<1> QED
  BY <1>4, <1>5 DEF Submit

\* No other job of the inode was in _futures, so none is forgotten.
LEMMA RecordKeeps ==
  ASSUME IInv, NEW c \in Caller, Record(c)
  PROVE  IInv'
<1>0. TypeOK /\ PoolInv /\ ProbesWork /\ ProbeOwned
  BY DEF IInv
<1>1. /\ ask[c].at = "record" /\ futures' = [futures EXCEPT ![ask[c].inode] = ask[c].job]
      /\ ask' = [ask EXCEPT ![c].at = "register"]
      /\ UNCHANGED <<asks, slots, jobs, thread, reaper, state, failures, due, lost, used>>
  BY DEF Record, Goto, breaker
<1>2. /\ ask[c].inode \in Inode /\ futures[ask[c].inode] = 0
      /\ ask[c].job \in DOMAIN jobs /\ jobs[ask[c].job].inode = ask[c].inode
      /\ \A d \in Caller : d # c => ask[d].at \notin {"submit", "record"}
  BY <1>0, <1>1 DEF PoolInv, CallersHold, OneSubmits, Holding
<1>3. /\ ask'[c].at = "register" /\ ask'[c].inode = ask[c].inode /\ ask'[c].job = ask[c].job
      /\ \A d \in Caller : d # c => ask'[d] = ask[d]
      /\ ask' \in [Caller -> AskRecord]
  BY <1>0, <1>1 DEF TypeOK, AskRecord
<1>4. /\ DOMAIN jobs = 1..Len(jobs) /\ Len(jobs) \in Nat
      /\ \A k \in DOMAIN jobs : jobs[k].inode \in Inode
  BY <1>0, JobsTyped
<1>5. futures' \in [Inode -> 0..Len(jobs)] /\ futures'[ask[c].inode] = ask[c].job
      /\ \A i \in Inode : i # ask[c].inode => futures'[i] = futures[i]
  BY <1>0, <1>1, <1>2, <1>4 DEF TypeOK
<1>6. TypeOK'
  BY <1>0, <1>1, <1>3, <1>5 DEF TypeOK
<1>7. CallersHold'
  BY <1>0, <1>1, <1>3 DEF PoolInv, CallersHold, Holding, Ending
<1>8. OneSubmits'
  BY <1>2, <1>3 DEF OneSubmits
<1>9. FuturesKnow'
  <2>1. ASSUME NEW k \in DOMAIN jobs, ~Complete(k) PROVE futures'[jobs[k].inode] = k
    <3>1. CASE futures[jobs[k].inode] = k
      BY <1>2, <1>4, <1>5, <3>1
    <3>2. CASE k = ask[c].job
      BY <1>2, <1>5, <3>2
    <3> QED
      BY <1>0, <1>2, <2>1, <3>1, <3>2 DEF PoolInv, FuturesKnow
  <2> QED
    BY <1>1, <2>1 DEF FuturesKnow, Complete
<1>10. Submitting' = Submitting
  BY <1>1, <1>3 DEF Submitting
<1>11. SlotsCounted'
  BY <1>0, <1>1, <1>10, CountStays DEF PoolInv
<1> QED
  BY <1>0, <1>1, <1>6, <1>7, <1>8, <1>9, <1>11, Frame DEF IInv, PoolInv

\* Registered, the job is handed to whoever completes it; complete, it is kept.
LEMMA RegisterKeeps ==
  ASSUME IInv, NEW c \in Caller, Register(c)
  PROVE  IInv'
<1>0. TypeOK /\ PoolInv /\ ProbesWork /\ ProbeOwned
  BY DEF IInv
<1> DEFINE j == ask[c].job
<1>1. /\ ask[c].at = "register"
      /\ UNCHANGED <<asks, slots, futures, thread, reaper, state, failures, due, lost, used>>
  BY DEF Register, breaker
<1>2. /\ j \in DOMAIN jobs /\ ask[c].inode \in Inode /\ jobs[j].inode = ask[c].inode
      /\ ~jobs[j].hooked /\ jobs[j].state # "over" /\ CallersHold
  BY <1>0, <1>1 DEF PoolInv, CallersHold, Holding
<1>3. CASE Complete(j) /\ Goto(c, "finish") /\ jobs' = jobs
  <2>1. ask' = [ask EXCEPT ![c].at = "finish"] /\ jobs[j].state \in {"done", "cancelled"}
    BY <1>2, <1>3 DEF Goto, Complete
  <2>2. /\ ask'[c].at = "finish" /\ ask'[c].inode = ask[c].inode /\ ask'[c].job = j
        /\ \A d \in Caller : d # c => ask'[d] = ask[d]
        /\ ask' \in [Caller -> AskRecord]
    BY <1>0, <2>1 DEF TypeOK, AskRecord
  <2>3. TypeOK'
    BY <1>0, <1>1, <1>3, <2>2 DEF TypeOK, AskRecord
  <2>4. CallersHold'
    BY <1>1, <1>2, <1>3, <2>1, <2>2 DEF CallersHold, Holding, Ending
  <2>5. OneSubmits'
    BY <1>0, <1>1, <2>2 DEF PoolInv, OneSubmits
  <2>6. FuturesKnow'
    BY <1>0, <1>1, <1>3, <2>2 DEF PoolInv, FuturesKnow, Complete
  <2>7. Submitting' = Submitting
    BY <1>1, <2>2 DEF Submitting
  <2>8. SlotsCounted'
    BY <1>0, <1>1, <1>3, <2>7, CountStays DEF PoolInv
  <2> QED
    BY <1>0, <1>1, <1>3, <2>3, <2>4, <2>5, <2>6, <2>8, Frame DEF IInv, PoolInv
<1>4. CASE ~Complete(j) /\ Wait(c) /\ jobs' = [jobs EXCEPT ![j].hooked = TRUE]
  <2>1. /\ ask'[c] = [NoAsk EXCEPT !.at = "wait"] /\ ask'[c].at = "wait"
        /\ \A d \in Caller : d # c => ask'[d] = ask[d]
        /\ ask' \in [Caller -> AskRecord]
    BY <1>0, <1>4 DEF TypeOK, Wait, NoAsk, AskRecord
  <2>2. /\ jobs \in Seq(JobRecord) /\ \A k \in DOMAIN jobs : jobs[k] \in JobRecord
        /\ [jobs[j] EXCEPT !.hooked = TRUE] \in JobRecord
        /\ jobs' = [jobs EXCEPT ![j] = [jobs[j] EXCEPT !.hooked = TRUE]]
    BY <1>0, <1>2, <1>4, JobsTyped DEF JobRecord
  <2>3. /\ jobs' \in Seq(JobRecord) /\ Len(jobs') = Len(jobs) /\ DOMAIN jobs' = DOMAIN jobs
        /\ jobs'[j] = [jobs[j] EXCEPT !.hooked = TRUE]
        /\ \A k \in DOMAIN jobs : k # j => jobs'[k] = jobs[k]
    BY <1>2, <2>2
  <2>4. /\ jobs'[j].hooked
        /\ \A k \in DOMAIN jobs : jobs'[k].state = jobs[k].state /\ jobs'[k].inode = jobs[k].inode
    BY <1>2, <2>2, <2>3 DEF JobRecord
  <2>5. TypeOK'
    BY <1>0, <1>1, <2>1, <2>3 DEF TypeOK, JobRecord, AskRecord
  <2>6. CallersHold'
    <3>1. \A d \in Caller : ask'[d].at \in Holding =>
            d # c /\ ask'[d] = ask[d] /\ ask[d].job \in DOMAIN jobs /\ ask[d].job # j
      BY <1>1, <1>2, <2>1 DEF CallersHold, Holding
    <3>2. \A d \in Caller : ask'[d].at \notin {"idle", "wait"} => ask'[d].inode \in Inode
      BY <1>2, <2>1 DEF CallersHold
    <3>3. \A d \in Caller : ask'[d].at \in Holding => jobs'[ask'[d].job] = jobs[ask[d].job]
      BY <3>1, <2>3
    <3>4. \A d \in Caller : ask'[d].at \in Holding =>
            /\ ask'[d].job \in DOMAIN jobs'
            /\ jobs'[ask'[d].job].inode = ask'[d].inode
            /\ ~jobs'[ask'[d].job].hooked
            /\ jobs'[ask'[d].job].state # "over"
            /\ ask'[d].at \in Ending => jobs'[ask'[d].job].state \in {"done", "cancelled"}
      BY <1>2, <2>3, <3>1, <3>3 DEF CallersHold
    <3>5. \A d, e \in Caller :
            d # e /\ ask'[d].at \in Holding /\ ask'[e].at \in Holding => ask'[d].job # ask'[e].job
      BY <1>2, <3>1 DEF CallersHold
    <3> QED
      BY <3>2, <3>4, <3>5 DEF CallersHold
  <2>7. ThreadsHold'
    <3>1. \A w \in Worker : thread[w].at # "idle" => thread[w].job \in DOMAIN jobs
            /\ (thread[w].at \in Ending => jobs'[thread[w].job] = jobs[thread[w].job])
      BY <1>0, <1>2, <2>3 DEF PoolInv, ThreadsHold
    <3> QED
      BY <1>0, <1>1, <2>3, <2>4, <3>1 DEF PoolInv, ThreadsHold
  <2>8. ReaperHolds'
    <3>1. reaper.at \in Ending => reaper.job # j
      BY <1>0, <1>2 DEF PoolInv, ReaperHolds
    <3> QED
      BY <1>0, <1>1, <2>3, <3>1 DEF PoolInv, ReaperHolds
  <2>9. OneSubmits'
    BY <1>0, <1>1, <2>1 DEF PoolInv, OneSubmits
  <2>10. FuturesKnow'
    <3>1. \A k \in DOMAIN jobs : ~Complete(k) =>
            \/ futures[jobs[k].inode] = k
            \/ \E d \in Caller : ask[d].at = "record" /\ ask[d].job = k
      BY <1>0 DEF PoolInv, FuturesKnow
    <3>2. \A k \in DOMAIN jobs' : Complete(k)' = Complete(k)
      BY <2>3, <2>4 DEF Complete
    <3>3. \A d \in Caller : ask[d].at = "record" => ask'[d] = ask[d]
      BY <1>1, <2>1
    <3>4. \A k \in DOMAIN jobs : futures'[jobs'[k].inode] = futures[jobs[k].inode]
      BY <1>1, <2>4
    <3>5. \A k \in DOMAIN jobs' : ~Complete(k)' =>
            \/ futures'[jobs'[k].inode] = k
            \/ \E d \in Caller : ask'[d].at = "record" /\ ask'[d].job = k
      BY <2>3, <3>1, <3>2, <3>3, <3>4
    <3> QED
      BY <3>5 DEF FuturesKnow
  <2>11. Submitting' = Submitting /\ Open' = Open
    <3>1. Submitting' = Submitting
      BY <1>1, <2>1 DEF Submitting
    <3>2. Open' = Open
      BY <2>3, <2>4 DEF Open
    <3> QED BY <3>1, <3>2
  <2>12. SlotsCounted'
    BY <1>0, <1>1, <2>11 DEF SlotsCounted, PoolInv
  <2> QED
    BY <1>0, <1>1, <2>5, <2>6, <2>7, <2>8, <2>9, <2>10, <2>12, Frame DEF IInv, PoolInv
<1> QED
  BY <1>3, <1>4 DEF Register

\* The caller that came too late removes the entry ...
LEMMA CallerFinishKeeps ==
  ASSUME IInv, NEW c \in Caller, CallerFinish(c)
  PROVE  IInv'
<1>0. TypeOK /\ PoolInv /\ ProbesWork /\ ProbeOwned
  BY DEF IInv
<1> DEFINE j == ask[c].job
<1>1. /\ ask[c].at = "finish" /\ Remove(j) /\ ask' = [ask EXCEPT ![c].at = "release"]
      /\ UNCHANGED <<asks, thread, reaper, state, failures, due, lost, used>>
  BY DEF CallerFinish, Goto, breaker
<1>2. j \in DOMAIN jobs /\ jobs[j].state \in {"done", "cancelled"} /\ CallersHold
  BY <1>0, <1>1 DEF PoolInv, CallersHold, Holding, Ending
<1>3. /\ ask'[c].at = "release" /\ ask'[c].inode = ask[c].inode /\ ask'[c].job = j
      /\ \A d \in Caller : d # c => ask'[d] = ask[d]
      /\ ask' \in [Caller -> AskRecord]
  BY <1>0, <1>1 DEF TypeOK, AskRecord
<1>4. /\ \A d \in Caller : ask[d].at \in {"submit", "record"} => ask'[d] = ask[d]
      /\ \A d \in Caller : ask'[d].at \in {"submit", "record"} => ask'[d] = ask[d]
  BY <1>1, <1>3
<1>5. /\ FuturesKnow' /\ OneSubmits' /\ futures' \in [Inode -> 0..Len(jobs)]
      /\ UNCHANGED <<slots, jobs>>
  <2>1. Complete(j)
    BY <1>2 DEF Complete
  <2>2. FuturesKnow /\ OneSubmits
    BY <1>0 DEF PoolInv
  <2> QED
    BY <1>0, <1>1, <1>2, <1>4, <2>1, <2>2, RemoveKeeps
<1>6. TypeOK'
  BY <1>0, <1>1, <1>3, <1>5 DEF TypeOK
<1>7. CallersHold'
  BY <1>1, <1>2, <1>3, <1>5 DEF CallersHold, Holding, Ending
<1>8. Submitting' = Submitting
  BY <1>1, <1>3 DEF Submitting
<1>9. SlotsCounted'
  BY <1>0, <1>5, <1>8, CountStays DEF PoolInv
<1> QED
  BY <1>0, <1>1, <1>5, <1>6, <1>7, <1>9, Frame DEF IInv, PoolInv

\* ... and returns the slot: the job is not hooked, and no other caller has it.
LEMMA CallerReleaseKeeps ==
  ASSUME IInv, NEW c \in Caller, CallerRelease(c)
  PROVE  IInv'
<1>0. TypeOK /\ PoolInv /\ ProbesWork /\ ProbeOwned
  BY DEF IInv
<1> DEFINE j == ask[c].job
<1>1. /\ ask[c].at = "release" /\ Return(j) /\ Wait(c)
      /\ Set(j, "over") /\ slots' = slots + 1
      /\ UNCHANGED <<asks, futures, thread, reaper, state, failures, due, lost, used>>
  BY DEF CallerRelease, Return, breaker
<1>2. /\ j \in DOMAIN jobs /\ ~jobs[j].hooked /\ jobs[j].state \in {"done", "cancelled"}
      /\ CallersHold
  BY <1>0, <1>1 DEF PoolInv, CallersHold, Holding, Ending
<1>3. /\ ask'[c].at = "wait"
      /\ \A d \in Caller : d # c => ask'[d] = ask[d]
      /\ ask' \in [Caller -> AskRecord]
  BY <1>0, <1>1 DEF TypeOK, Wait, NoAsk, AskRecord
<1>4. /\ jobs' \in Seq(JobRecord) /\ Len(jobs') = Len(jobs) /\ DOMAIN jobs' = DOMAIN jobs
      /\ \A k \in DOMAIN jobs : k # j => jobs'[k] = jobs[k]
  BY <1>0, <1>1, <1>2, SetFacts DEF JobStates
<1>5. TypeOK'
  BY <1>0, <1>1, <1>3, <1>4 DEF TypeOK, JobRecord, AskRecord
<1>6. CallersHold'
  <2>1. \A d \in Caller : ask'[d].at \in Holding =>
          d # c /\ ask'[d] = ask[d] /\ ask[d].job \in DOMAIN jobs /\ ask[d].job # j
    BY <1>1, <1>2, <1>3 DEF CallersHold, Holding
  <2>2. \A d \in Caller : ask'[d].at \notin {"idle", "wait"} => ask'[d].inode \in Inode
    BY <1>2, <1>3 DEF CallersHold
  <2>3. \A d \in Caller : ask'[d].at \in Holding => jobs'[ask'[d].job] = jobs[ask[d].job]
    BY <2>1, <1>4
  <2>4. \A d \in Caller : ask'[d].at \in Holding =>
          /\ ask'[d].job \in DOMAIN jobs'
          /\ jobs'[ask'[d].job].inode = ask'[d].inode
          /\ ~jobs'[ask'[d].job].hooked
          /\ jobs'[ask'[d].job].state # "over"
          /\ ask'[d].at \in Ending => jobs'[ask'[d].job].state \in {"done", "cancelled"}
    BY <1>2, <1>4, <2>1, <2>3 DEF CallersHold
  <2>5. \A d, e \in Caller :
          d # e /\ ask'[d].at \in Holding /\ ask'[e].at \in Holding => ask'[d].job # ask'[e].job
    BY <1>2, <2>1 DEF CallersHold
  <2> QED
    BY <2>2, <2>4, <2>5 DEF CallersHold
<1>7. ThreadsHold' /\ ReaperHolds' /\ FuturesKnow'
  <2>1. \A w \in Worker : thread[w].at # "idle" => thread[w].job # j
    BY <1>0, <1>2 DEF PoolInv, ThreadsHold
  <2>2. reaper.at \in Ending => reaper.job # j
    BY <1>0, <1>2 DEF PoolInv, ReaperHolds
  <2>3. \A d \in Caller : ask[d].at = "record" => ask'[d] = ask[d]
    BY <1>1, <1>3
  <2>4. "over" \in JobStates
    BY DEF JobStates
  <2> QED
    BY <1>0, <1>1, <1>2, <2>1, <2>2, <2>3, <2>4, SetKeeps DEF PoolInv
<1>8. OneSubmits'
  BY <1>0, <1>1, <1>3 DEF PoolInv, OneSubmits
<1>9. Submitting' = Submitting
  BY <1>1, <1>3 DEF Submitting
<1>10. SlotsCounted'
  BY <1>0, <1>1, <1>2, <1>9, ReturnKeepsCount DEF PoolInv
<1> QED
  BY <1>0, <1>1, <1>5, <1>6, <1>7, <1>8, <1>10, Frame DEF IInv, PoolInv

-----------------------------------------------------------------------------
(***************************************************************************)
(* The steps of a thread.                                                  *)
(***************************************************************************)
\* A thread moves on with its job: types, and what the pool knows, are kept.
LEMMA WorkKeeps ==
  ASSUME TypeOK, PoolInv, NEW w \in Worker, thread[w].at \in RunningAt,
         NEW x \in ThreadRecord, x.at \in RunningAt, x.job = thread[w].job,
         thread' = [thread EXCEPT ![w] = x], UNCHANGED <<callers, pool, reaper>>,
         used' \in 0..Limit, state' \in {"CLOSED", "OPEN", "HALF_OPEN"},
         failures' \in 0..Threshold, due' \in BOOLEAN, lost' \in BOOLEAN
  PROVE  TypeOK' /\ PoolInv' /\ thread'[w] = x /\ \A v \in Worker : v # w => thread'[v] = thread[v]
<1>1. PoolInv'
  BY ThreadMoves DEF callers
<1>2. thread \in [Worker -> ThreadRecord]
  BY DEF TypeOK, ThreadRecord
<1>3. thread' \in [Worker -> ThreadRecord]
  BY <1>2
<1>4. thread'[w] = x /\ \A v \in Worker : v # w => thread'[v] = thread[v]
  BY <1>2
<1>5. TypeOK'
  BY <1>3 DEF TypeOK, ThreadRecord, callers, pool
<1> QED
  BY <1>1, <1>4, <1>5

\* What is known of a thread at work.
LEMMA ThreadTyped ==
  ASSUME TypeOK, NEW w \in Worker
  PROVE  /\ thread[w] \in ThreadRecord /\ thread \in [Worker -> ThreadRecord]
         /\ thread[w].job \in 0..Len(jobs) /\ thread[w].attempt \in 0..2
         /\ thread[w].probe \in BOOLEAN
         /\ used \in 0..Limit /\ Limit \in Nat /\ Threshold \in Nat \ {0}
         /\ state \in {"CLOSED", "OPEN", "HALF_OPEN"} /\ failures \in 0..Threshold
         /\ due \in BOOLEAN /\ lost \in BOOLEAN
<1>1. thread[w] \in ThreadRecord /\ thread \in [Worker -> ThreadRecord]
  BY DEF TypeOK, ThreadRecord
<1> QED
  BY <1>1, GenerationConstants DEF TypeOK, ThreadRecord

\* A thread that is not a probe can neither make nor lose one.
LEMMA ProbesStay ==
  ASSUME TypeOK, ProbesWork, ProbeOwned, NEW w \in Worker, NEW x, ~x.probe, ~thread[w].probe,
         thread' = [thread EXCEPT ![w] = x], UNCHANGED <<state, lost>>
  PROVE  ProbesWork' /\ ProbeOwned'
<1>1. thread'[w] = x /\ \A v \in Worker : v # w => thread'[v] = thread[v]
  BY DEF TypeOK
<1> QED
  BY <1>1 DEF ProbesWork, ProbeOwned

\* A thread between two attempts is no probe.
LEMMA ResolveKeeps ==
  ASSUME IInv, NEW w \in Worker, Resolve(w)
  PROVE  IInv'
<1>0. TypeOK /\ PoolInv /\ ProbesWork /\ ProbeOwned
  BY DEF IInv
<1>1. /\ thread[w].at \in {"resolve", "again"} /\ thread[w].at \in RunningAt
      /\ UNCHANGED <<callers, pool, reaper, state, failures, due, lost>> /\ ~thread[w].probe
  BY <1>0 DEF Resolve, Others, breaker, RunningAt, ProbesWork
<1>2. \E x \in ThreadRecord : /\ x.at \in RunningAt /\ x.job = thread[w].job /\ ~x.probe
                              /\ thread' = [thread EXCEPT ![w] = x] /\ used' \in 0..Limit
  <2>1. CASE Claim(w)
    <3> DEFINE x == [thread[w] EXCEPT !.at = "admit", !.attempt = thread[w].attempt + 1]
    <3>1. thread[w] \in ThreadRecord /\ used \in 0..Limit /\ Limit \in Nat
      BY <1>0, ThreadTyped
    <3>2. /\ thread[w].attempt < 2 /\ used < Limit /\ used' = used + 1
          /\ thread' = [thread EXCEPT ![w] = x]
      BY <2>1 DEF Claim
    <3>6. thread[w].attempt + 1 \in 0..2
      BY <1>0, <3>2, ThreadTyped
    <3>3. x \in ThreadRecord /\ x.at = "admit" /\ x.job = thread[w].job /\ x.probe = thread[w].probe
      BY <3>1, <3>6 DEF ThreadRecord
    <3>4. used' \in 0..Limit
      BY <3>1, <3>2
    <3>5. x.at \in RunningAt /\ ~x.probe
      BY <1>1, <3>3 DEF RunningAt
    <3> QED
      BY <3>2, <3>3, <3>4, <3>5
  <2>2. CASE Settle(w)
    <3> DEFINE x == [at |-> "done", job |-> thread[w].job, attempt |-> 0, probe |-> FALSE]
    <3>0. thread[w].job \in 0..Len(jobs)
      BY <1>0, ThreadTyped
    <3>1. /\ x \in ThreadRecord /\ x.at \in RunningAt /\ x.job = thread[w].job /\ ~x.probe
      BY <3>0 DEF ThreadRecord, RunningAt
    <3>2. thread' = [thread EXCEPT ![w] = x] /\ used' \in 0..Limit
      BY <1>0, <2>2, ThreadTyped DEF Settle, Finished
    <3> QED
      BY <3>1, <3>2
  <2> QED
    BY <2>1, <2>2 DEF Resolve
<1>3. PICK x \in ThreadRecord : /\ x.at \in RunningAt /\ x.job = thread[w].job /\ ~x.probe
                                /\ thread' = [thread EXCEPT ![w] = x] /\ used' \in 0..Limit
  BY <1>2
<1>4. TypeOK' /\ PoolInv'
  BY <1>0, <1>1, <1>3, ThreadTyped, WorkKeeps
<1>5. ProbesWork' /\ ProbeOwned'
  BY <1>0, <1>1, <1>3, ProbesStay
<1> QED
  BY <1>4, <1>5 DEF IInv

\* The first look takes no lock and changes nothing.
LEMMA AdmitKeeps ==
  ASSUME IInv, NEW w \in Worker, Admit(w)
  PROVE  IInv'
<1>0. TypeOK /\ PoolInv /\ ProbesWork /\ ProbeOwned
  BY DEF IInv
<1>1. /\ thread[w].at = "admit" /\ thread[w].at \in RunningAt
      /\ UNCHANGED <<callers, pool, reaper, state, failures, due, lost, used>> /\ ~thread[w].probe
  BY <1>0 DEF Admit, Others, breaker, RunningAt, ProbesWork
<1>2. PICK p \in {"call", "probe", "again"} : thread' = [thread EXCEPT ![w].at = p]
  BY DEF Admit, Work
<1> DEFINE x == [thread[w] EXCEPT !.at = p]
<1>3. x \in ThreadRecord /\ x.at \in RunningAt /\ x.job = thread[w].job /\ ~x.probe
  BY <1>0, <1>1, ThreadTyped DEF ThreadRecord, RunningAt
<1>4. thread' = [thread EXCEPT ![w] = x]
  BY <1>2
<1> HIDE DEF x
<1>5. TypeOK' /\ PoolInv'
  BY <1>0, <1>1, <1>3, <1>4, ThreadTyped, WorkKeeps
<1>6. ProbesWork' /\ ProbeOwned'
  BY <1>0, <1>1, <1>3, <1>4, ProbesStay
<1> QED
  BY <1>5, <1>6 DEF IInv

\* The second look: the thread that opens the circuit halfway is its probe.
LEMMA ProbeKeeps ==
  ASSUME IInv, NEW w \in Worker, Probe(w)
  PROVE  IInv'
<1>0. TypeOK /\ PoolInv /\ ProbesWork /\ ProbeOwned
  BY DEF IInv
<1>1. /\ thread[w].at = "probe" /\ thread[w].at \in RunningAt
      /\ UNCHANGED <<callers, pool, reaper, failures, due, lost, used>> /\ ~thread[w].probe
  BY <1>0 DEF Probe, Others, RunningAt, ProbesWork
<1>2. CASE state' = "HALF_OPEN"
           /\ thread' = [thread EXCEPT ![w] = [@ EXCEPT !.at = "call", !.probe = TRUE]]
  <2> DEFINE x == [thread[w] EXCEPT !.at = "call", !.probe = TRUE]
  <2>1. x \in ThreadRecord /\ x.at \in RunningAt /\ x.job = thread[w].job
        /\ x.probe = TRUE /\ x.at = "call"
    BY <1>0, <1>1, ThreadTyped DEF ThreadRecord, RunningAt
  <2>2. thread' = [thread EXCEPT ![w] = x]
    BY <1>2
  <2> HIDE DEF x
  <2>3. /\ TypeOK' /\ PoolInv' /\ thread'[w] = x
        /\ \A v \in Worker : v # w => thread'[v] = thread[v]
    BY <1>0, <1>1, <1>2, <2>1, <2>2, ThreadTyped, WorkKeeps
  <2>4. ProbesWork'
    BY <1>0, <2>1, <2>3 DEF ProbesWork
  <2>5. ProbeOwned'
    BY <2>1, <2>3 DEF ProbeOwned
  <2> QED
    BY <2>3, <2>4, <2>5 DEF IInv
<1>3. CASE state' = state /\ Work(w, "again")
  <2> DEFINE x == [thread[w] EXCEPT !.at = "again"]
  <2>1. x \in ThreadRecord /\ x.at \in RunningAt /\ x.job = thread[w].job /\ ~x.probe
    BY <1>0, <1>1, ThreadTyped DEF ThreadRecord, RunningAt
  <2>2. thread' = [thread EXCEPT ![w] = x]
    BY <1>3 DEF Work
  <2> HIDE DEF x
  <2>3. TypeOK' /\ PoolInv'
    BY <1>0, <1>1, <1>3, <2>1, <2>2, ThreadTyped, WorkKeeps
  <2>4. ProbesWork' /\ ProbeOwned'
    BY <1>0, <1>1, <1>3, <2>1, <2>2, ProbesStay
  <2> QED
    BY <2>3, <2>4 DEF IInv
<1> QED
  BY <1>2, <1>3 DEF Probe

\* record_success changes failures, CloseCircuit then the state.
LEMMA AnswersKeeps ==
  ASSUME IInv, NEW w \in Worker, Answers(w)
  PROVE  IInv'
<1>0. TypeOK /\ PoolInv /\ ProbesWork /\ ProbeOwned
  BY DEF IInv
<1>1. /\ thread[w].at = "call" /\ thread[w].at \in RunningAt
      /\ failures' = 0 /\ thread' = [thread EXCEPT ![w].at = "close"]
      /\ UNCHANGED <<callers, pool, reaper, state, due, lost, used>>
  BY DEF Answers, Work, Others, RunningAt
<1>2. 0 \in 0..Threshold
  BY <1>0, ThreadTyped
<1> DEFINE x == [thread[w] EXCEPT !.at = "close"]
<1>3. x \in ThreadRecord /\ x.at = "close" /\ x.job = thread[w].job /\ x.probe = thread[w].probe
  BY <1>0, ThreadTyped DEF ThreadRecord
<1>4. thread' = [thread EXCEPT ![w] = x] /\ x.at \in RunningAt
  BY <1>1, <1>3 DEF RunningAt
<1> HIDE DEF x
<1>5. /\ TypeOK' /\ PoolInv' /\ thread'[w] = x
      /\ \A v \in Worker : v # w => thread'[v] = thread[v]
  BY <1>0, <1>1, <1>2, <1>3, <1>4, ThreadTyped, WorkKeeps
<1>6. ProbesWork'
  BY <1>0, <1>3, <1>5 DEF ProbesWork
<1>7. ProbeOwned'
  BY <1>0, <1>1, <1>3, <1>5 DEF ProbeOwned
<1> QED
  BY <1>5, <1>6, <1>7 DEF IInv

\* The two ways in which an attempt ends: the next one, or the job is done.
LEMMA AttemptEnds ==
  ASSUME TypeOK, NEW w \in Worker, Attempted(w) \/ Finished(w)
  PROVE  \E x \in ThreadRecord : /\ x.at \in RunningAt /\ x.job = thread[w].job /\ ~x.probe
                                 /\ thread' = [thread EXCEPT ![w] = x]
<1>1. thread[w] \in ThreadRecord /\ thread[w].job \in 0..Len(jobs)
  BY ThreadTyped
<1>2. CASE Attempted(w)
  <2> DEFINE x == [thread[w] EXCEPT !.at = "again", !.probe = FALSE]
  <2>1. x \in ThreadRecord /\ x.at = "again" /\ x.job = thread[w].job /\ ~x.probe
    BY <1>1 DEF ThreadRecord
  <2>2. thread' = [thread EXCEPT ![w] = x] /\ x.at \in RunningAt
    BY <1>2, <2>1 DEF Attempted, RunningAt
  <2> QED
    BY <2>1, <2>2
<1>3. CASE Finished(w)
  <2> DEFINE x == [at |-> "done", job |-> thread[w].job, attempt |-> 0, probe |-> FALSE]
  <2>2. x \in ThreadRecord /\ x.at \in RunningAt /\ x.job = thread[w].job /\ ~x.probe
    BY <1>1 DEF ThreadRecord, RunningAt
  <2>3. thread' = [thread EXCEPT ![w] = x]
    BY <1>3 DEF Finished
  <2> QED
    BY <2>2, <2>3
<1> QED
  BY <1>2, <1>3

\* A thread that ceases to be a probe leaves no half-open circuit without one.
LEMMA ProbeGoes ==
  ASSUME TypeOK, ProbesWork, ProbeOwned, NEW w \in Worker, NEW x, ~x.probe,
         thread' = [thread EXCEPT ![w] = x],
         \/ state' # "HALF_OPEN"
         \/ UNCHANGED state /\ (lost => lost') /\ (thread[w].probe => lost')
  PROVE  ProbesWork' /\ ProbeOwned'
<1>1. thread'[w] = x /\ \A v \in Worker : v # w => thread'[v] = thread[v]
  BY DEF TypeOK
<1> QED
  BY <1>1 DEF ProbesWork, ProbeOwned

\* A success closes the circuit, whoever is the probe.
LEMMA CloseCircuitKeeps ==
  ASSUME IInv, NEW w \in Worker, CloseCircuit(w)
  PROVE  IInv'
<1>0. TypeOK /\ PoolInv /\ ProbesWork /\ ProbeOwned
  BY DEF IInv
<1>1. /\ thread[w].at = "close" /\ thread[w].at \in RunningAt
      /\ state' = "CLOSED" /\ (Attempted(w) \/ Finished(w))
      /\ UNCHANGED <<callers, pool, reaper, failures, due, lost, used>>
  BY DEF CloseCircuit, Others, RunningAt
<1>2. PICK x \in ThreadRecord : /\ x.at \in RunningAt /\ x.job = thread[w].job /\ ~x.probe
                                /\ thread' = [thread EXCEPT ![w] = x]
  BY <1>0, <1>1, AttemptEnds
<1>3. TypeOK' /\ PoolInv'
  BY <1>0, <1>1, <1>2, ThreadTyped, WorkKeeps
<1>4. ProbesWork' /\ ProbeOwned'
  BY <1>0, <1>1, <1>2, ProbeGoes
<1> QED
  BY <1>3, <1>4 DEF IInv

\* A failure of the probe always trips, whatever the counter is.
LEMMA FailsKeeps ==
  ASSUME IInv, NEW w \in Worker, Fails(w)
  PROVE  IInv'
<1>0. TypeOK /\ PoolInv /\ ProbesWork /\ ProbeOwned
  BY DEF IInv
<1>1. /\ thread[w].at = "call" /\ thread[w].at \in RunningAt
      /\ UNCHANGED <<callers, pool, reaper, state, due, lost, used>>
  BY DEF Fails, Others, RunningAt
<1>2. failures' \in 0..Threshold
  BY <1>0, ThreadTyped DEF Fails
<1>3. CASE Trips /\ Work(w, "trip")
  <2> DEFINE x == [thread[w] EXCEPT !.at = "trip"]
  <2>1. x \in ThreadRecord /\ x.at = "trip" /\ x.job = thread[w].job /\ x.probe = thread[w].probe
    BY <1>0, ThreadTyped DEF ThreadRecord
  <2>2. thread' = [thread EXCEPT ![w] = x] /\ x.at \in RunningAt
    BY <1>3, <2>1 DEF Work, RunningAt
  <2> HIDE DEF x
  <2>3. /\ TypeOK' /\ PoolInv' /\ thread'[w] = x
        /\ \A v \in Worker : v # w => thread'[v] = thread[v]
    BY <1>0, <1>1, <1>2, <2>1, <2>2, ThreadTyped, WorkKeeps
  <2>4. ProbesWork'
    BY <1>0, <2>1, <2>3 DEF ProbesWork
  <2>5. ProbeOwned'
    BY <1>0, <1>1, <2>1, <2>3 DEF ProbeOwned
  <2> QED
    BY <2>3, <2>4, <2>5 DEF IInv
<1>4. CASE ~Trips /\ Attempted(w)
  <2>1. PICK x \in ThreadRecord : /\ x.at \in RunningAt /\ x.job = thread[w].job /\ ~x.probe
                                  /\ thread' = [thread EXCEPT ![w] = x]
    BY <1>0, <1>4, AttemptEnds
  <2>2. TypeOK' /\ PoolInv'
    BY <1>0, <1>1, <1>2, <2>1, ThreadTyped, WorkKeeps
  <2>3. ProbesWork' /\ ProbeOwned'
    BY <1>0, <1>1, <1>4, <2>1, ProbeGoes DEF Trips
  <2> QED
    BY <2>2, <2>3 DEF IInv
<1> QED
  BY <1>3, <1>4 DEF Fails

\* A failure opens it.
LEMMA OpenCircuitKeeps ==
  ASSUME IInv, NEW w \in Worker, OpenCircuit(w)
  PROVE  IInv'
<1>0. TypeOK /\ PoolInv /\ ProbesWork /\ ProbeOwned
  BY DEF IInv
<1> DEFINE x == [thread[w] EXCEPT !.at = "backoff", !.probe = FALSE]
<1>1. /\ thread[w].at = "trip" /\ thread[w].at \in RunningAt
      /\ state' = "OPEN" /\ thread' = [thread EXCEPT ![w] = x]
      /\ UNCHANGED <<callers, pool, reaper, failures, due, lost, used>>
  BY DEF OpenCircuit, Others, RunningAt
<1>2. x \in ThreadRecord /\ x.at = "backoff" /\ x.job = thread[w].job /\ ~x.probe
  BY <1>0, ThreadTyped DEF ThreadRecord
<1>3. x.at \in RunningAt
  BY <1>2 DEF RunningAt
<1> HIDE DEF x
<1>4. TypeOK' /\ PoolInv'
  BY <1>0, <1>1, <1>2, <1>3, ThreadTyped, WorkKeeps
<1>5. ProbesWork' /\ ProbeOwned'
  BY <1>0, <1>1, <1>2, ProbeGoes
<1> QED
  BY <1>4, <1>5 DEF IInv

\* next_retry is no part of the invariant.
LEMMA BackOffKeeps ==
  ASSUME IInv, NEW w \in Worker, BackOff(w)
  PROVE  IInv'
<1>0. TypeOK /\ PoolInv /\ ProbesWork /\ ProbeOwned
  BY DEF IInv
<1> DEFINE x == [thread[w] EXCEPT !.at = "again"]
<1>1. /\ thread[w].at = "backoff" /\ thread[w].at \in RunningAt /\ ~thread[w].probe
      /\ due' = FALSE /\ thread' = [thread EXCEPT ![w] = x]
      /\ UNCHANGED <<callers, pool, reaper, state, failures, lost, used>>
  BY <1>0 DEF BackOff, Work, Others, RunningAt, ProbesWork
<1>2. x \in ThreadRecord /\ x.at = "again" /\ x.job = thread[w].job /\ x.probe = thread[w].probe
  BY <1>0, ThreadTyped DEF ThreadRecord
<1>3. x.at \in RunningAt
  BY <1>2 DEF RunningAt
<1> HIDE DEF x
<1>4. TypeOK' /\ PoolInv'
  BY <1>0, <1>1, <1>2, <1>3, ThreadTyped, WorkKeeps
<1>5. ProbesWork' /\ ProbeOwned'
  BY <1>0, <1>1, <1>2, ProbesStay
<1> QED
  BY <1>4, <1>5 DEF IInv

\* An exception that is not counted is what lost records.
LEMMA EscapesKeeps ==
  ASSUME IInv, NEW w \in Worker, Escapes(w)
  PROVE  IInv'
<1>0. TypeOK /\ PoolInv /\ ProbesWork /\ ProbeOwned
  BY DEF IInv
<1>1. /\ thread[w].at = "call" /\ thread[w].at \in RunningAt
      /\ lost' = (lost \/ thread[w].probe) /\ Attempted(w)
      /\ UNCHANGED <<callers, pool, reaper, state, failures, due, used>>
  BY DEF Escapes, Others, RunningAt
<1>2. PICK x \in ThreadRecord : /\ x.at \in RunningAt /\ x.job = thread[w].job /\ ~x.probe
                                /\ thread' = [thread EXCEPT ![w] = x]
  BY <1>0, <1>1, AttemptEnds
<1>3. lost' \in BOOLEAN /\ (lost => lost') /\ (thread[w].probe => lost')
  BY <1>1
<1>4. TypeOK' /\ PoolInv'
  BY <1>0, <1>1, <1>2, <1>3, ThreadTyped, WorkKeeps
<1>5. ProbesWork' /\ ProbeOwned'
  BY <1>0, <1>1, <1>2, <1>3, ProbeGoes
<1> QED
  BY <1>4, <1>5 DEF IInv

\* Where a thread is, as a record, agrees with the state of the job it has.
Carries(x, j, what) ==
  x.at # "idle" => /\ x.job = j
                   /\ IF x.at \in Ending THEN what = "done" /\ jobs[j].hooked
                      ELSE what = "running"

\* A thread moves together with the state of its job.
LEMMA ThreadTakes ==
  ASSUME TypeOK, PoolInv, NEW w \in Worker, NEW j \in DOMAIN jobs, NEW what \in JobStates,
         Set(j, what), NEW x \in ThreadRecord, thread' = [thread EXCEPT ![w] = x],
         Carries(x, j, what),
         \A v \in Worker : v # w /\ thread[v].at # "idle" => thread[v].job # j
  PROVE  /\ ThreadsHold' /\ thread' \in [Worker -> ThreadRecord] /\ thread'[w] = x
         /\ \A v \in Worker : v # w => thread'[v] = thread[v]
<1>1. thread \in [Worker -> ThreadRecord]
  BY DEF TypeOK, ThreadRecord
<1>2. /\ thread' \in [Worker -> ThreadRecord] /\ thread'[w] = x
      /\ \A v \in Worker : v # w => thread'[v] = thread[v]
  BY <1>1
<1>3. ThreadsHold
  BY DEF PoolInv
<1>4. /\ DOMAIN jobs' = DOMAIN jobs /\ jobs'[j].state = what
      /\ jobs'[j].hooked = jobs[j].hooked
      /\ \A k \in DOMAIN jobs : k # j => jobs'[k] = jobs[k]
  BY SetFacts
<1>5. \A v \in Worker : thread'[v].at # "idle" =>
        /\ thread'[v].job \in DOMAIN jobs'
        /\ IF thread'[v].at \in Ending
           THEN jobs'[thread'[v].job].state = "done" /\ jobs'[thread'[v].job].hooked
           ELSE jobs'[thread'[v].job].state = "running"
  <2> SUFFICES ASSUME NEW v \in Worker, thread'[v].at # "idle"
               PROVE  /\ thread'[v].job \in DOMAIN jobs'
                      /\ IF thread'[v].at \in Ending
                         THEN jobs'[thread'[v].job].state = "done" /\ jobs'[thread'[v].job].hooked
                         ELSE jobs'[thread'[v].job].state = "running"
    OBVIOUS
  <2>1. CASE v = w
    BY <2>1, <1>2, <1>4 DEF Carries
  <2>2. CASE v # w
    BY <2>2, <1>2, <1>3, <1>4 DEF ThreadsHold
  <2> QED
    BY <2>1, <2>2
<1>6. \A u, v \in Worker :
        u # v /\ thread'[u].at # "idle" /\ thread'[v].at # "idle" => thread'[u].job # thread'[v].job
  BY <1>2, <1>3 DEF ThreadsHold, Carries
<1> QED
  BY <1>2, <1>5, <1>6 DEF ThreadsHold

\* An idle thread is no probe.
LEMMA TakeKeeps ==
  ASSUME IInv, NEW w \in Worker, Take(w)
  PROVE  IInv'
<1>0. TypeOK /\ PoolInv /\ ProbesWork /\ ProbeOwned
  BY DEF IInv
<1>1. PICK j \in DOMAIN jobs :
        /\ jobs[j].state = "queued" /\ Set(j, "running")
        /\ thread' = [thread EXCEPT ![w] =
                        [at |-> "resolve", job |-> j, attempt |-> 0, probe |-> FALSE]]
  BY DEF Take
<1>2. /\ thread[w].at = "idle" /\ ~thread[w].probe
      /\ UNCHANGED <<ask, asks, reaper, slots, futures, state, failures, due, lost, used>>
  BY <1>0 DEF Take, Others, callers, breaker, ProbesWork
<1> DEFINE x == [at |-> "resolve", job |-> j, attempt |-> 0, probe |-> FALSE]
<1>3. DOMAIN jobs = 1..Len(jobs) /\ Len(jobs) \in Nat /\ "running" \in JobStates \ {"over"}
  BY <1>0, JobsTyped DEF JobStates
<1>4. x \in ThreadRecord /\ x.at = "resolve" /\ x.job = j /\ ~x.probe
  BY <1>1, <1>3 DEF ThreadRecord
<1> HIDE DEF x
<1>5. \A v \in Worker : thread[v].at # "idle" => thread[v].job # j
  BY <1>0, <1>1 DEF PoolInv, ThreadsHold
<1>6. thread' = [thread EXCEPT ![w] = x]
  BY <1>1 DEF x
<1>7. ThreadsHold' /\ thread' \in [Worker -> ThreadRecord]
  <2>1. Carries(x, j, "running")
    BY <1>4 DEF Ending, Carries
  <2>2. "running" \in JobStates
    BY <1>3
  <2>3. Set(j, "running")
    BY <1>1
  <2>4. \A v \in Worker : v # w /\ thread[v].at # "idle" => thread[v].job # j
    BY <1>5
  <2>5. x \in ThreadRecord
    BY <1>4
  <2> QED
    BY <1>0, <1>6, <2>1, <2>2, <2>3, <2>4, <2>5, ThreadTakes
<1>8. jobs' \in Seq(JobRecord) /\ Len(jobs') = Len(jobs)
  BY <1>0, <1>1, <1>3, SetFacts
<1>9. TypeOK'
  BY <1>0, <1>2, <1>7, <1>8 DEF TypeOK, ThreadRecord, JobRecord
<1>10. CallersHold' /\ ReaperHolds' /\ FuturesKnow'
  <2>1. reaper.at \in Ending => reaper.job # j
    BY <1>0, <1>1 DEF PoolInv, ReaperHolds
  <2>2. ~Complete(j)
    BY <1>1 DEF Complete
  <2> QED
    BY <1>0, <1>1, <1>2, <1>3, <2>1, <2>2, SetKeeps DEF PoolInv
<1>11. SlotsCounted'
  <2>1. Submitting' = Submitting
    BY <1>2 DEF Submitting
  <2> QED
    BY <1>0, <1>1, <1>2, <1>3, <2>1, SetKeepsCount DEF PoolInv
<1>12. ProbesWork' /\ ProbeOwned'
  BY <1>0, <1>2, <1>4, <1>6, ProbesStay
<1> QED
  BY <1>0, <1>2, <1>7, <1>9, <1>10, <1>11, <1>12, Frame DEF IInv, PoolInv

\* A hooked job is ended by its thread, another one by its caller.
LEMMA DoneKeeps ==
  ASSUME IInv, NEW w \in Worker, Done(w)
  PROVE  IInv'
<1>0. TypeOK /\ PoolInv /\ ProbesWork /\ ProbeOwned
  BY DEF IInv
<1> DEFINE j == thread[w].job
<1>1. /\ thread[w].at = "done" /\ ~thread[w].probe /\ Set(j, "done")
      /\ UNCHANGED <<ask, asks, reaper, slots, futures, state, failures, due, lost, used>>
  BY <1>0 DEF Done, Others, callers, breaker, ProbesWork
<1>2. /\ j \in DOMAIN jobs /\ jobs[j].state = "running"
      /\ \A v \in Worker : v # w /\ thread[v].at # "idle" => thread[v].job # j
  BY <1>0, <1>1 DEF PoolInv, ThreadsHold, Ending
<1>3. PICK x \in ThreadRecord :
        /\ thread' = [thread EXCEPT ![w] = x] /\ ~x.probe
        /\ x.at # "idle" => x.at \in Ending /\ x.job = j /\ jobs[j].hooked
  <2>1. CASE jobs[j].hooked /\ Work(w, "finish")
    <3> DEFINE x == [thread[w] EXCEPT !.at = "finish"]
    <3>1. x \in ThreadRecord /\ x.at = "finish" /\ x.job = j /\ ~x.probe
      BY <1>0, <1>1, ThreadTyped DEF ThreadRecord
    <3>2. thread' = [thread EXCEPT ![w] = x]
      BY <2>1 DEF Work
    <3> QED
      BY <2>1, <3>1, <3>2 DEF Ending
  <2>2. CASE thread' = [thread EXCEPT ![w] = NoWork]
    <3>1. NoWork \in ThreadRecord /\ NoWork.at = "idle" /\ ~NoWork.probe
      BY <1>0, JobsTyped DEF NoWork, ThreadRecord
    <3> QED
      BY <2>2, <3>1
  <2> QED
    BY <2>1, <2>2 DEF Done
<1>4. "done" \in JobStates \ {"over"}
  BY DEF JobStates
<1>5. ThreadsHold' /\ thread' \in [Worker -> ThreadRecord]
  <2>1. Carries(x, j, "done")
    BY <1>3 DEF Carries
  <2>2. "done" \in JobStates
    BY <1>4
  <2> QED
    BY <1>0, <1>1, <1>2, <1>3, <2>1, <2>2, ThreadTakes
<1>6. jobs' \in Seq(JobRecord) /\ Len(jobs') = Len(jobs)
  BY <1>0, <1>1, <1>2, <1>4, SetFacts
<1>7. TypeOK'
  BY <1>0, <1>1, <1>5, <1>6 DEF TypeOK, ThreadRecord, JobRecord
<1>8. CallersHold' /\ ReaperHolds' /\ FuturesKnow'
  <2>1. reaper.at \in Ending => reaper.job # j
    BY <1>0, <1>2 DEF PoolInv, ReaperHolds
  <2> QED
    BY <1>0, <1>1, <1>2, <1>4, <2>1, SetKeeps DEF PoolInv
<1>9. SlotsCounted'
  <2>1. Submitting' = Submitting
    BY <1>1 DEF Submitting
  <2> QED
    BY <1>0, <1>1, <1>2, <1>4, <2>1, SetKeepsCount DEF PoolInv
<1>10. ProbesWork' /\ ProbeOwned'
  BY <1>0, <1>1, <1>3, ProbesStay
<1> QED
  BY <1>0, <1>1, <1>5, <1>7, <1>8, <1>9, <1>10, Frame DEF IInv, PoolInv

\* The thread removes the entry ...
LEMMA ThreadFinishKeeps ==
  ASSUME IInv, NEW w \in Worker, ThreadFinish(w)
  PROVE  IInv'
<1>0. TypeOK /\ PoolInv /\ ProbesWork /\ ProbeOwned
  BY DEF IInv
<1> DEFINE j == thread[w].job
           x == [thread[w] EXCEPT !.at = "release"]
<1>1. /\ thread[w].at = "finish" /\ ~thread[w].probe /\ Remove(j)
      /\ thread' = [thread EXCEPT ![w] = x]
      /\ UNCHANGED <<ask, asks, reaper, state, failures, due, lost, used>>
  BY <1>0 DEF ThreadFinish, Work, Others, callers, breaker, ProbesWork
<1>2. j \in DOMAIN jobs /\ Complete(j)
  BY <1>0, <1>1 DEF PoolInv, ThreadsHold, Ending, Complete
<1>3. x \in ThreadRecord /\ x.at = "release" /\ x.job = j /\ ~x.probe
  BY <1>0, <1>1, ThreadTyped DEF ThreadRecord
<1> HIDE DEF x
<1>4. /\ FuturesKnow' /\ OneSubmits' /\ futures' \in [Inode -> 0..Len(jobs)]
      /\ UNCHANGED <<slots, jobs>>
  <2>1. FuturesKnow /\ OneSubmits
    BY <1>0 DEF PoolInv
  <2> QED
    BY <1>0, <1>1, <1>2, <2>1, RemoveKeeps
<1>5. /\ thread \in [Worker -> ThreadRecord] /\ thread' \in [Worker -> ThreadRecord]
      /\ thread'[w] = x /\ \A v \in Worker : v # w => thread'[v] = thread[v]
  BY <1>0, <1>1, <1>3, ThreadTyped
<1>6. TypeOK'
  BY <1>0, <1>1, <1>4, <1>5 DEF TypeOK, ThreadRecord
<1>7. ThreadsHold'
  <2>1. \A v \in Worker : /\ thread'[v].job = thread[v].job
                          /\ thread'[v].at = "idle" <=> thread[v].at = "idle"
                          /\ thread'[v].at \in Ending <=> thread[v].at \in Ending
    BY <1>1, <1>3, <1>5 DEF Ending
  <2> QED
    BY <1>0, <1>4, <2>1 DEF PoolInv, ThreadsHold
<1>8. ProbesWork' /\ ProbeOwned'
  BY <1>0, <1>1, <1>3, ProbesStay
<1> QED
  BY <1>0, <1>1, <1>4, <1>6, <1>7, <1>8, Frame DEF IInv, PoolInv

\* ... and returns the slot: nobody else holds a job that is hooked and done.
LEMMA ThreadReleaseKeeps ==
  ASSUME IInv, NEW w \in Worker, ThreadRelease(w)
  PROVE  IInv'
<1>0. TypeOK /\ PoolInv /\ ProbesWork /\ ProbeOwned
  BY DEF IInv
<1> DEFINE j == thread[w].job
<1>1. /\ thread[w].at = "release" /\ ~thread[w].probe /\ Return(j)
      /\ Set(j, "over") /\ slots' = slots + 1 /\ futures' = futures
      /\ thread' = [thread EXCEPT ![w] = NoWork]
      /\ UNCHANGED <<ask, asks, reaper, state, failures, due, lost, used>>
  BY <1>0 DEF ThreadRelease, Return, Others, callers, breaker, ProbesWork
<1>2. /\ j \in DOMAIN jobs /\ jobs[j].state = "done" /\ jobs[j].hooked
      /\ \A v \in Worker : v # w /\ thread[v].at # "idle" => thread[v].job # j
  BY <1>0, <1>1 DEF PoolInv, ThreadsHold, Ending
<1>3. NoWork \in ThreadRecord /\ NoWork.at = "idle" /\ ~NoWork.probe /\ "over" \in JobStates
  BY <1>0, JobsTyped DEF NoWork, ThreadRecord, JobStates
<1>4. ThreadsHold' /\ thread' \in [Worker -> ThreadRecord]
  <2>1. Carries(NoWork, j, "over")
    BY <1>3 DEF Carries
  <2> QED
    BY <1>0, <1>1, <1>2, <1>3, <2>1, ThreadTakes
<1>5. jobs' \in Seq(JobRecord) /\ Len(jobs') = Len(jobs) /\ slots \in Nat
  BY <1>0, <1>1, <1>2, <1>3, SetFacts DEF TypeOK
<1>6. TypeOK'
  BY <1>0, <1>1, <1>4, <1>5 DEF TypeOK, ThreadRecord, JobRecord
<1>7. CallersHold' /\ ReaperHolds' /\ FuturesKnow'
  <2>1. reaper.at \in Ending => reaper.job # j
    BY <1>0, <1>2 DEF PoolInv, ReaperHolds
  <2> QED
    BY <1>0, <1>1, <1>2, <1>3, <2>1, SetKeeps DEF PoolInv
<1>8. SlotsCounted'
  <2>1. Submitting' = Submitting
    BY <1>1 DEF Submitting
  <2> QED
    BY <1>0, <1>1, <1>2, <2>1, ReturnKeepsCount DEF PoolInv
<1>9. ProbesWork' /\ ProbeOwned'
  BY <1>0, <1>1, <1>3, ProbesStay
<1> QED
  BY <1>0, <1>1, <1>4, <1>6, <1>7, <1>8, <1>9, Frame DEF IInv, PoolInv

-----------------------------------------------------------------------------
(***************************************************************************)
(* The steps of the reaper, and of time.                                   *)
(***************************************************************************)
\* Steps that leave callers, threads, breaker and jobs alone.
LEMMA ReaperMoves ==
  ASSUME IInv, UNCHANGED <<callers, pool, thread, breaker, used>>,
         reaper' \in ReaperRecord,
         reaper'.at \notin Ending
  PROVE  IInv'
<1>1. UNCHANGED <<ask, asks, slots, futures, jobs, thread, state, failures, due, lost, used>>
  BY DEF callers, pool, breaker
<1>2. TypeOK'
  BY <1>1 DEF IInv, TypeOK, ReaperRecord
<1>3. ReaperHolds'
  BY DEF ReaperHolds
<1> QED
  BY <1>1, <1>2, <1>3, Frame DEF IInv, PoolInv

\* Shutdown begins.
LEMMA CloseKeeps ==
  ASSUME IInv, Close
  PROVE  IInv'
<1>1. reaper' = [at |-> "draining", job |-> 0] /\ Len(jobs) \in Nat
      /\ UNCHANGED <<callers, pool, thread, breaker, used>>
  BY JobsTyped DEF Close, Unmoved, IInv
<1>2. reaper' \in ReaperRecord /\ reaper'.at \notin Ending
  BY <1>1 DEF Ending, ReaperRecord
<1> QED
  BY <1>1, <1>2, ReaperMoves

\* Shutdown ends.
LEMMA JoinedKeeps ==
  ASSUME IInv, Joined
  PROVE  IInv'
<1>1. reaper' = [at |-> "closed", job |-> 0] /\ Len(jobs) \in Nat
      /\ UNCHANGED <<callers, pool, thread, breaker, used>>
  BY JobsTyped DEF Joined, Unmoved, IInv
<1>2. reaper' \in ReaperRecord /\ reaper'.at \notin Ending
  BY <1>1 DEF Ending, ReaperRecord
<1> QED
  BY <1>1, <1>2, ReaperMoves

\* A job in the queue is cancelled; its callback runs here if it is registered.
LEMMA DrainKeeps ==
  ASSUME IInv, Drain
  PROVE  IInv'
<1>0. TypeOK /\ PoolInv /\ ProbesWork /\ ProbeOwned
  BY DEF IInv
<1>1. /\ reaper.at = "draining"
      /\ UNCHANGED <<ask, asks, thread, slots, futures, state, failures, due, lost, used>>
  BY DEF Drain, Unmoved, callers, breaker
<1>2. CASE reaper' = [at |-> "join", job |-> 0] /\ jobs' = jobs
  <2>1. reaper' \in ReaperRecord /\ reaper'.at \notin Ending
    BY <1>0, <1>2, JobsTyped DEF Ending, ReaperRecord
  <2>2. UNCHANGED <<callers, pool, thread, breaker, used>>
    BY <1>1, <1>2 DEF callers, pool, breaker
  <2> QED
    BY <2>1, <2>2, ReaperMoves
<1>3. ASSUME NEW j \in DOMAIN jobs, jobs[j].state = "queued", Set(j, "cancelled"),
             reaper' = IF jobs[j].hooked THEN [at |-> "finish", job |-> j] ELSE reaper
      PROVE  IInv'
  <2>1. "cancelled" \in JobStates \ {"over"} /\ DOMAIN jobs = 1..Len(jobs) /\ Len(jobs) \in Nat
    BY <1>0, JobsTyped DEF JobStates
  <2>2. /\ jobs' \in Seq(JobRecord) /\ Len(jobs') = Len(jobs) /\ DOMAIN jobs' = DOMAIN jobs
        /\ jobs'[j].state = "cancelled" /\ jobs'[j].hooked = jobs[j].hooked
    BY <1>0, <1>3, <2>1, SetFacts
  <2>3. /\ reaper' \in ReaperRecord
        /\ reaper'.at \in Ending => reaper'.job = j /\ jobs[j].hooked
    <3>1. CASE jobs[j].hooked
      BY <1>3, <2>1, <3>1 DEF ReaperRecord
    <3>2. CASE ~jobs[j].hooked
      BY <1>0, <1>1, <1>3, <3>2 DEF TypeOK, Ending, ReaperRecord
    <3> QED
      BY <3>1, <3>2
  <2>4. TypeOK'
    BY <1>0, <1>1, <2>2, <2>3 DEF TypeOK, JobRecord, ReaperRecord
  <2>5. ReaperHolds'
    BY <2>2, <2>3 DEF ReaperHolds
  <2>6. CallersHold' /\ ThreadsHold' /\ FuturesKnow'
    <3>1. \A w \in Worker : thread[w].at # "idle" => thread[w].job # j
      BY <1>0, <1>3 DEF PoolInv, ThreadsHold
    <3> QED
      BY <1>0, <1>1, <1>3, <2>1, <3>1, SetKeeps DEF PoolInv
  <2>7. SlotsCounted'
    <3>1. Submitting' = Submitting
      BY <1>1 DEF Submitting
    <3> QED
      BY <1>0, <1>1, <1>3, <2>1, <3>1, SetKeepsCount DEF PoolInv
  <2> QED
    BY <1>0, <1>1, <2>4, <2>5, <2>6, <2>7, Frame DEF IInv, PoolInv
<1> QED
  BY <1>2, <1>3 DEF Drain

\* The reaper removes the entry of a job it cancelled ...
LEMMA ReaperFinishKeeps ==
  ASSUME IInv, ReaperFinish
  PROVE  IInv'
<1>0. TypeOK /\ PoolInv /\ ProbesWork /\ ProbeOwned
  BY DEF IInv
<1> DEFINE j == reaper.job
<1>1. /\ reaper.at = "finish" /\ Remove(j) /\ reaper' = [reaper EXCEPT !.at = "release"]
      /\ UNCHANGED <<ask, asks, thread, state, failures, due, lost, used>>
  BY DEF ReaperFinish, Unmoved, callers, breaker
<1>2. j \in DOMAIN jobs /\ Complete(j) /\ jobs[j].state = "cancelled" /\ jobs[j].hooked
  BY <1>0, <1>1 DEF PoolInv, ReaperHolds, Ending, Complete
<1>3. /\ FuturesKnow' /\ OneSubmits' /\ futures' \in [Inode -> 0..Len(jobs)]
      /\ UNCHANGED <<slots, jobs>>
  <2>1. FuturesKnow /\ OneSubmits
    BY <1>0 DEF PoolInv
  <2> QED
    BY <1>0, <1>1, <1>2, <2>1, RemoveKeeps
<1>4. reaper' \in ReaperRecord /\ reaper'.job = j
  BY <1>0, <1>1 DEF TypeOK, ReaperRecord
<1>5. TypeOK'
  BY <1>0, <1>1, <1>3, <1>4 DEF TypeOK
<1>6. ReaperHolds'
  BY <1>2, <1>3, <1>4 DEF ReaperHolds
<1> QED
  BY <1>0, <1>1, <1>3, <1>5, <1>6, Frame DEF IInv, PoolInv

\* ... and returns its slot.
LEMMA ReaperReleaseKeeps ==
  ASSUME IInv, ReaperRelease
  PROVE  IInv'
<1>0. TypeOK /\ PoolInv /\ ProbesWork /\ ProbeOwned
  BY DEF IInv
<1> DEFINE j == reaper.job
<1>1. /\ reaper.at = "release" /\ Return(j) /\ Set(j, "over")
      /\ slots' = slots + 1 /\ futures' = futures
      /\ reaper' = [at |-> "draining", job |-> 0]
      /\ UNCHANGED <<ask, asks, thread, state, failures, due, lost, used>>
  BY DEF ReaperRelease, Return, Unmoved, callers, breaker
<1>2. j \in DOMAIN jobs /\ jobs[j].state = "cancelled" /\ jobs[j].hooked
  BY <1>0, <1>1 DEF PoolInv, ReaperHolds, Ending
<1>3. "over" \in JobStates /\ Len(jobs) \in Nat
  BY <1>0, JobsTyped DEF JobStates
<1>4. jobs' \in Seq(JobRecord) /\ Len(jobs') = Len(jobs) /\ slots \in Nat
  BY <1>0, <1>1, <1>2, <1>3, SetFacts DEF TypeOK
<1>5. reaper' \in ReaperRecord /\ reaper'.at \notin Ending
  BY <1>1, <1>3 DEF Ending, ReaperRecord
<1>6. TypeOK'
  BY <1>0, <1>1, <1>4, <1>5 DEF TypeOK, JobRecord
<1>7. ReaperHolds'
  BY <1>5 DEF ReaperHolds
<1>8. CallersHold' /\ ThreadsHold' /\ FuturesKnow'
  <2>1. \A w \in Worker : thread[w].at # "idle" => thread[w].job # j
    BY <1>0, <1>2 DEF PoolInv, ThreadsHold
  <2> QED
    BY <1>0, <1>1, <1>2, <1>3, <2>1, SetKeeps DEF PoolInv
<1>9. SlotsCounted'
  <2>1. Submitting' = Submitting
    BY <1>1 DEF Submitting
  <2> QED
    BY <1>0, <1>1, <1>2, <2>1, ReturnKeepsCount DEF PoolInv
<1> QED
  BY <1>0, <1>1, <1>6, <1>7, <1>8, <1>9, Frame DEF IInv, PoolInv

\* The clock moves no actor.
LEMMA TimePasses ==
  ASSUME IInv, BackoffEnds \/ Minute
  PROVE  IInv'
<1>1. UNCHANGED <<ask, asks, slots, futures, jobs, thread, reaper, state, failures, lost>>
  BY DEF BackoffEnds, Minute, callers, pool, breaker
<1>2. TypeOK
  BY DEF IInv
<1>3. due' \in BOOLEAN /\ used' \in 0..Limit
  <2>1. due \in BOOLEAN /\ used \in 0..Limit /\ 0 \in 0..Limit
    BY <1>2, GenerationConstants DEF TypeOK
  <2>2. CASE BackoffEnds
    BY <2>1, <2>2 DEF BackoffEnds
  <2>3. CASE Minute
    BY <2>1, <2>3 DEF Minute, breaker
  <2> QED
    BY <2>2, <2>3
<1>4. TypeOK'
  BY <1>1, <1>2, <1>3 DEF TypeOK
<1> QED
  BY <1>1, <1>4, Frame DEF IInv, PoolInv

-----------------------------------------------------------------------------
(***************************************************************************)
(* The invariant holds, and what it says.                                  *)
(***************************************************************************)
\* Nothing is held at the start.
LEMMA InitIInv ==
  ASSUME Init
  PROVE  IInv
<1>1. Cardinality(Worker) \in Nat
  BY FS_CardinalityType, GenerationConstants
<1>2. jobs = <<>> /\ DOMAIN jobs = {} /\ Len(jobs) = 0
  BY DEF Init
<1>3. TypeOK
  <2>1. ask \in [Caller -> AskRecord]
    BY DEF Init, NoAsk, AskRecord
  <2>2. NoWork \in ThreadRecord
    BY <1>2 DEF NoWork, ThreadRecord
  <2>3. thread \in [Worker -> ThreadRecord]
    BY <2>2 DEF Init
  <2>4. /\ futures \in [Inode -> 0..Len(jobs)]
        /\ reaper \in ReaperRecord
        /\ slots \in Nat
    BY <1>1, <1>2 DEF Init, ReaperRecord
  <2>5. asks \in 0..MaxAsks /\ used \in 0..Limit /\ failures \in 0..Threshold
    BY GenerationConstants DEF Init
  <2>6. jobs \in Seq(JobRecord)
    BY <1>2
  <2> QED
    BY <2>1, <2>3, <2>4, <2>5, <2>6
    DEF Init, TypeOK, ThreadRecord, JobRecord, AskRecord, ReaperRecord
<1>4. CallersHold /\ ThreadsHold /\ ReaperHolds /\ OneSubmits /\ FuturesKnow
  BY <1>2 DEF Init, CallersHold, ThreadsHold, ReaperHolds, OneSubmits, FuturesKnow, NoAsk, NoWork,
              Holding, Ending
<1>5. Open = {} /\ Submitting = {}
  BY <1>2 DEF Init, Open, Submitting, NoAsk
<1>6. SlotsCounted
  BY <1>1, <1>5, FS_EmptySet DEF SlotsCounted, Init
<1>7. ProbesWork /\ ProbeOwned
  BY DEF Init, ProbesWork, ProbeOwned, NoWork
<1> QED
  BY <1>3, <1>4, <1>6, <1>7 DEF IInv, PoolInv

\* Stuttering keeps everything.
LEMMA StutterKeeps ==
  ASSUME IInv, UNCHANGED vars
  PROVE  IInv'
<1>1. UNCHANGED <<ask, asks, slots, futures, jobs, thread, reaper, state, failures, due, lost,
                  used>>
  BY DEF vars, callers, pool, breaker
<1>2. TypeOK'
  BY <1>1 DEF IInv, TypeOK
<1> QED
  BY <1>1, <1>2, Frame DEF IInv, PoolInv

\* The invariant is inductive.
LEMMA NextIInv ==
  ASSUME IInv, [Next]_vars
  PROVE  IInv'
<1>1. ASSUME NEW c \in Caller, NEW i \in Inode, Ask(c, i) PROVE IInv'
  BY <1>1, AskKeeps
<1>2. ASSUME NEW c \in Caller, CallerNext(c) PROVE IInv'
  BY <1>2, EnterKeeps, SubmitKeeps, RecordKeeps, RegisterKeeps, CallerFinishKeeps,
     CallerReleaseKeeps, LeaveKeeps DEF CallerNext
<1>3. ASSUME NEW w \in Worker, ThreadNext(w) PROVE IInv'
  BY <1>3, TakeKeeps, ResolveKeeps, AdmitKeeps, ProbeKeeps, AnswersKeeps, CloseCircuitKeeps,
     FailsKeeps, OpenCircuitKeeps, BackOffKeeps, EscapesKeeps, DoneKeeps, ThreadFinishKeeps,
     ThreadReleaseKeeps DEF ThreadNext
<1>4. CASE Close \/ ReaperNext
  BY <1>4, CloseKeeps, DrainKeeps, ReaperFinishKeeps, ReaperReleaseKeeps, JoinedKeeps DEF ReaperNext
<1>5. CASE BackoffEnds \/ Minute
  BY <1>5, TimePasses
<1>6. CASE UNCHANGED vars
  BY <1>6, StutterKeeps
<1> QED
  BY <1>1, <1>2, <1>3, <1>4, <1>5, <1>6 DEF Next

\* The rationing of model calls is consistent at every moment: GenerationOrchestrator
\* and CircuitBreaker.
THEOREM SpecIInv == Spec => []IInv
<1>1. Init => IInv
  BY InitIInv
<1>2. IInv /\ [Next]_vars => IInv'
  BY NextIInv
<1> QED
  BY <1>1, <1>2, PTL DEF Spec

\* The variables have their types; no job makes a third attempt (_resolve, range(2)) and
\* no minute has more claims than max_generations_per_minute.
THEOREM SpecTypeOK == Spec => []TypeOK
<1>1. IInv => TypeOK
  BY DEF IInv
<1> QED
  BY <1>1, SpecIInv, PTL

\* For any number of threads, whoever runs `finished' (_submit): each job gives back
\* the one slot it took, and no inode has two jobs at work.
THEOREM SpecJobsAccounted == Spec => []JobsAccounted
<1>1. ASSUME IInv PROVE JobsAccounted
  <2>0. TypeOK /\ PoolInv
    BY <1>1 DEF IInv
  <2>1. slots + Cardinality({j \in DOMAIN jobs : jobs[j].state # "over"})
              + Cardinality({c \in Caller : ask[c].at = "submit"}) = Cardinality(Worker)
    BY <2>0 DEF PoolInv, SlotsCounted, Open, Submitting
  <2>2. ASSUME NEW j \in DOMAIN jobs, NEW k \in DOMAIN jobs, j # k, ~Complete(j), ~Complete(k)
        PROVE  jobs[j].inode # jobs[k].inode
    <3>1. /\ \/ futures[jobs[j].inode] = j
             \/ \E c \in Caller : ask[c].at = "record" /\ ask[c].job = j
          /\ \/ futures[jobs[k].inode] = k
             \/ \E c \in Caller : ask[c].at = "record" /\ ask[c].job = k
      BY <2>0, <2>2 DEF PoolInv, FuturesKnow
    <3>2. \A c \in Caller : ask[c].at = "record" =>
            futures[jobs[ask[c].job].inode] = 0
            /\ \A d \in Caller : ask[d].at = "record" => c = d
      BY <2>0 DEF PoolInv, OneSubmits, CallersHold, Holding
    <3>3. j # 0 /\ k # 0
      BY <2>0, JobsTyped
    <3> QED
      BY <2>2, <3>1, <3>2, <3>3
  <2>3. LockFree => \A j \in DOMAIN jobs : ~Complete(j) => futures[jobs[j].inode] = j
    BY <2>0 DEF PoolInv, FuturesKnow, LockFree
  <2> QED
    BY <2>1, <2>2, <2>3 DEF JobsAccounted
<1> QED
  BY <1>1, SpecIInv, PTL

\* With any number of threads and any order of late answers, a half-open circuit
\* (can_execute) has a probe at work, or an uncounted exception has lost it.
THEOREM SpecProbeOwned == Spec => []ProbeOwned
<1>1. IInv => ProbeOwned
  BY DEF IInv
<1> QED
  BY <1>1, SpecIInv, PTL

=============================================================================
