----------------------------- MODULE FileContent -----------------------------
(***************************************************************************)
(* File contents of one session as they live in Redis, and everything that *)
(* changes them concurrently:                                              *)
(*   - generator jobs (GenerationOrchestrator._resolve and _commit), which *)
(*     take a lease, ask for text and commit it only if nothing moved;     *)
(*   - FUSE write and truncate handlers (mutate_content), which replace a  *)
(*     file's bytes under WATCH/MULTI/EXEC with bounded retries;           *)
(*   - unlink (atomic_unlink.lua) and chmod, the lease's TTL, and the      *)
(*     death of a process that holds a lease.                              *)
(* A blob is named by its digest: here a blob is its bytes, so an inode's  *)
(* content_hash is the content itself.  Each job and each mutation runs    *)
(* once; a job is its own lease token (a fresh uuid4 in the code).         *)
(***************************************************************************)
EXTENDS FileBytes, FiniteSets, FiniteSetsExt

CONSTANTS
  Job,         \* generator jobs: calls of _resolve
  Toucher,     \* calls of chmod
  File,        \* inode numbers of the session's regular files
  ManifestClass, \* file -> manifest_class, "runtime" when it has none
  Generated,   \* texts a generator may produce
  MaxBytes,    \* MAX_SESSION_BLOB_BYTES
  Retries,     \* the 32 attempts of mutate_content
  NoContent,   \* no content_hash; also: a call returned no bytes
  Gone,        \* the inode's hash is absent from Redis
  NoOwner      \* the lease key is absent

Generable == {"ai_backed", "deterministic"}

ASSUME ConstantsOK ==
  /\ File # {} /\ IsFiniteSet(File)
  /\ Generated \subseteq Content
  /\ ManifestClass \in [File -> Generable \union {"static", "runtime"}]
  /\ MaxBytes \in Nat /\ Retries \in Nat \ {0}
  /\ NoContent \notin Content /\ Gone \notin Content /\ NoContent # Gone
  /\ NoOwner \notin Job
  /\ Job \intersect Mutator = {}

VARIABLES
  inode,       \* file -> the inode hash, or Gone
  linked,      \* files whose directory entry still exists
  blobs,       \* the session's blob store (fs:blob:*)
  lease,       \* file -> the job whose token fs:generating:<inode> holds
  allocated,   \* fs:bytes_allocated
  job,         \* generator jobs
  late,        \* jobs whose 10 s of waiting for the lease are over
  mut,         \* mutate_content calls
  touch,       \* chmod calls
  dirty,       \* clients with a watched key that was modified: EXEC fails
  voided,      \* history: jobs whose lease a write or the TTL took away
  held         \* history: file -> every content it has ever had

vars == <<inode, linked, blobs, lease, allocated, job, late, mut, touch, dirty, voided, held>>

\* The fields of an inode hash that matter to its content.
Hash == [hash : Content \union {NoContent}, rev : Nat,
         state : {"none", "static", "missing", "generated", "written"},
         class : Generable \union {"static", "runtime"}]

ASSUME GoneOK == Gone \notin Hash

ManifestState(class) ==
  IF class \in Generable THEN "missing"
  ELSE IF class = "static" THEN "static" ELSE "none"

\* A regular file's hash before anyone stored bytes in it.
NewHash(class, state) ==
  [hash |-> NoContent, rev |-> 0, state |-> state, class |-> class]

Present(f) == inode[f] # Gone
HasContent(f) == Present(f) /\ inode[f].hash # NoContent
Bytes(f) == IF HasContent(f) THEN inode[f].hash ELSE <<>>

\* _cached: the stored bytes, or nothing.
Cached(f) == IF HasContent(f) THEN inode[f].hash ELSE NoContent

\* A read of a file without content: b"" unless it can still be generated.
ReadsEmpty(h) == h.hash = NoContent /\ h.class \notin Generable

JobPC == {"idle", "claim", "poll", "read", "generate", "watch", "exec",
          "release", "done", "crashed"}
MutPC == {"idle", "watch", "budget", "exec", "done"}
MutOut == {"none", "ok", "ENOENT", "EFBIG", "ENOSPC", "EAGAIN"}

JobState == [pc : JobPC, file : File, rev : Nat,
             text : Content \union {NoContent},
             out : Content \union {NoContent}]        \* what _resolve returned
NoRequest == [kind |-> "truncate", at |-> 0, n |-> 0]
MutState == [pc : MutPC, file : File, req : Request \union {NoRequest},
             old : Content, tries : 0..Retries, out : MutOut]
TouchState == [pc : {"idle", "hset", "done"}, file : File]

Init ==
  /\ inode = [f \in File |-> NewHash(ManifestClass[f], ManifestState(ManifestClass[f]))]
  /\ linked = File
  /\ blobs = {}
  /\ lease = [f \in File |-> NoOwner]
  /\ allocated = 0
  /\ job \in [Job -> [pc : {"idle"}, file : {CHOOSE f \in File : TRUE}, rev : {0},
                      text : {NoContent}, out : {NoContent}]]
  /\ mut \in [Mutator -> [pc : {"idle"}, file : {CHOOSE f \in File : TRUE},
                          req : {NoRequest},
                          old : {<<>>}, tries : {0}, out : {"none"}]]
  /\ touch \in [Toucher -> [pc : {"idle"}, file : {CHOOSE f \in File : TRUE}]]
  /\ late = {}
  /\ dirty = {}
  /\ voided = {}
  /\ held = [f \in File |-> IF ReadsEmpty(inode[f]) THEN {<<>>} ELSE {}]

------------------------------------------------------------------------------
(* Redis transactions.  A client that issued WATCH and has not yet sent     *)
(* EXEC becomes dirty when another client modifies a key it watches.        *)

WatchingInode(f) ==
  {j \in Job : job[j].pc = "exec" /\ job[j].file = f}
    \union {m \in Mutator : mut[m].pc \in {"budget", "exec"} /\ mut[m].file = f}
\* Mutant of WatchingLease: the commit forgets to WATCH the lease.
LeaseUnwatched(f) == {}
WatchingLease(f) == {j \in Job : job[j].pc = "exec" /\ job[j].file = f}
\* Mutant of WatchingBudget: mutate_content watches the inode only.
BudgetUnwatched == {}
WatchingBudget == {m \in Mutator : mut[m].pc \in {"budget", "exec"}}

SetJob(j, pc) == job' = [job EXCEPT ![j].pc = pc]
\* The body of _resolve ends; its locals mean nothing any more.
Return(j, pc, out) ==
  job' = [job EXCEPT ![j] = [pc |-> pc, file |-> job[j].file, rev |-> 0,
                             text |-> NoContent, out |-> out]]

------------------------------------------------------------------------------
(* GenerationOrchestrator                                                   *)

\* get_or_generate: the file exists, is not cached and may be generated; a job
\* is submitted for it.
Submit(j, f) ==
  /\ job[j].pc = "idle"
  /\ Present(f) /\ ~HasContent(f) /\ inode[f].class \in Generable
  /\ job' = [job EXCEPT ![j].pc = "claim", ![j].file = f]
  /\ UNCHANGED <<inode, linked, blobs, lease, allocated, late, mut, touch, dirty, voided, held>>

\* SET lease token NX EX 120.
Claim(j) ==
  LET f == job[j].file IN
  /\ job[j].pc = "claim"
  /\ \/ /\ lease[f] = NoOwner
        /\ lease' = [lease EXCEPT ![f] = j]
        /\ dirty' = dirty \union WatchingLease(f)
        /\ late' = late \ {j}
        /\ SetJob(j, "read")
     \/ /\ lease[f] # NoOwner
        /\ SetJob(j, "poll")
        /\ UNCHANGED <<lease, dirty, late>>
  /\ UNCHANGED <<inode, linked, blobs, allocated, mut, touch, voided, held>>

\* Another job owns the lease: return its result, give up, or try again.
Poll(j) ==
  LET f == job[j].file IN
  /\ job[j].pc = "poll"
  /\ \/ /\ ~Present(f) \/ HasContent(f)
        /\ Return(j, "done", Cached(f))
        /\ late' = late \ {j}
     \/ /\ Present(f) /\ ~HasContent(f) /\ j \in late
        /\ Return(j, "done", NoContent)
        /\ late' = late \ {j}
     \/ /\ Present(f) /\ ~HasContent(f) /\ j \notin late
        /\ SetJob(j, "claim")
        /\ UNCHANGED late
  /\ UNCHANGED <<inode, linked, blobs, lease, allocated, mut, touch, dirty, voided, held>>

\* Ten seconds passed while the job was waiting for the lease.
Deadline(j) ==
  /\ job[j].pc \in {"claim", "poll"} /\ j \notin late
  /\ late' = late \union {j}
  /\ UNCHANGED <<inode, linked, blobs, lease, allocated, job, mut, touch, dirty, voided, held>>

\* The owner looks at the file again and remembers its revision.
ReadMeta(j) ==
  LET f == job[j].file IN
  /\ job[j].pc = "read"
  /\ \/ /\ ~Present(f) \/ HasContent(f)
        /\ Return(j, "release", Cached(f))
     \/ /\ Present(f) /\ ReadsEmpty(inode[f])
        /\ Return(j, "release", <<>>)
     \/ /\ Present(f) /\ ~HasContent(f) /\ inode[f].class \in Generable
        /\ job' = [job EXCEPT ![j].pc = "generate", ![j].rev = inode[f].rev]
  /\ UNCHANGED <<inode, linked, blobs, lease, allocated, late, mut, touch, dirty, voided, held>>

\* Mutant of Generate: the model call has no timeout and may never return.
GenerateHangs(j) == job[j].pc = "generate" /\ FALSE

\* Render, model call or fallback: always some text, however long it takes.
Generate(j) ==
  /\ job[j].pc = "generate"
  /\ \E text \in Generated :
       job' = [job EXCEPT ![j].pc = "watch", ![j].text = text]
  /\ UNCHANGED <<inode, linked, blobs, lease, allocated, late, mut, touch, dirty, voided, held>>

\* The commit's fence: own lease, same revision, still no content.
Fenced(j) ==
  LET f == job[j].file IN
  /\ Present(f)
  /\ lease[f] = j
  /\ inode[f].rev = job[j].rev
  /\ ~HasContent(f)

\* _commit: WATCH inode and lease, then check the fence.
CommitWatch(j) ==
  LET f == job[j].file IN
  /\ job[j].pc = "watch"
  /\ \/ /\ Fenced(j)
        /\ SetJob(j, "exec")
        /\ dirty' = dirty \ {j}
     \/ /\ ~Fenced(j)
        /\ Return(j, "release", Cached(f))
        /\ UNCHANGED dirty
  /\ UNCHANGED <<inode, linked, blobs, lease, allocated, late, mut, touch, voided, held>>

\* Mutant of CommitExec: the text is shown although the transaction failed.
CommitShowsLoser(j) ==
  LET f == job[j].file IN
  /\ job[j].pc = "exec"
  /\ \/ /\ j \in dirty
        /\ Return(j, "release", job[j].text)
        /\ UNCHANGED <<inode, blobs, dirty, held>>
     \/ /\ j \notin dirty
        /\ blobs' = blobs \union {job[j].text}
        /\ inode' = [inode EXCEPT ![f].hash = job[j].text, ![f].state = "generated"]
        /\ dirty' = (dirty \union WatchingInode(f)) \ {j}
        /\ held' = [held EXCEPT ![f] = @ \union {job[j].text}]
        /\ Return(j, "release", job[j].text)
  /\ UNCHANGED <<linked, lease, allocated, late, mut, touch, voided>>

\* Mutant of CommitExec: the hash names a blob that was never stored.
CommitWithoutBlob(j) ==
  LET f == job[j].file IN
  /\ job[j].pc = "exec" /\ j \notin dirty
  /\ inode' = [inode EXCEPT ![f].hash = job[j].text, ![f].state = "generated"]
  /\ dirty' = (dirty \union WatchingInode(f)) \ {j}
  /\ held' = [held EXCEPT ![f] = @ \union {job[j].text}]
  /\ Return(j, "release", job[j].text)
  /\ UNCHANGED <<blobs, linked, lease, allocated, late, mut, touch, voided>>

\* EXEC: store blob and hash together, or nothing if a watched key moved.
CommitExec(j) ==
  LET f == job[j].file IN
  /\ job[j].pc = "exec"
  /\ \/ /\ j \in dirty
        /\ Return(j, "release", NoContent)
        /\ UNCHANGED <<inode, blobs, dirty, held>>
     \/ /\ j \notin dirty
        /\ blobs' = blobs \union {job[j].text}
        /\ inode' = [inode EXCEPT ![f].hash = job[j].text, ![f].state = "generated"]
        /\ dirty' = (dirty \union WatchingInode(f)) \ {j}
        /\ held' = [held EXCEPT ![f] = @ \union {job[j].text}]
        /\ Return(j, "release", job[j].text)
  /\ UNCHANGED <<linked, lease, allocated, late, mut, touch, voided>>

\* Mutant of Release: the lease is deleted whoever holds it.
ReleaseAny(j) ==
  LET f == job[j].file IN
  /\ job[j].pc = "release"
  /\ SetJob(j, "done")
  /\ lease' = [lease EXCEPT ![f] = NoOwner]
  /\ dirty' = dirty \union WatchingLease(f)
  /\ UNCHANGED <<inode, linked, blobs, allocated, late, mut, touch, voided, held>>

\* The finally clause: compare-and-delete of the lease.
Release(j) ==
  LET f == job[j].file IN
  /\ job[j].pc = "release"
  /\ SetJob(j, "done")
  /\ \/ /\ lease[f] = j
        /\ lease' = [lease EXCEPT ![f] = NoOwner]
        /\ dirty' = dirty \union WatchingLease(f)
     \/ /\ lease[f] # j
        /\ UNCHANGED <<lease, dirty>>
  /\ UNCHANGED <<inode, linked, blobs, allocated, late, mut, touch, voided, held>>

\* Anything raises between the claim and EXEC: only the finally clause runs.
Fail(j) ==
  /\ job[j].pc \in {"read", "generate", "watch", "exec"}
  /\ Return(j, "release", NoContent)
  /\ UNCHANGED <<inode, linked, blobs, lease, allocated, late, mut, touch, dirty, voided, held>>

\* The process dies, or Redis cannot be reached for the release: the lease stays.
Crash(j) ==
  /\ job[j].pc \notin {"idle", "done", "crashed"}
  /\ Return(j, "crashed", NoContent)
  /\ UNCHANGED <<inode, linked, blobs, lease, allocated, late, mut, touch, dirty, voided, held>>

\* Mutant of Expire: the lease is set without EX.
ExpireNever(f) == lease[f] # NoOwner /\ FALSE

\* The lease's 120 s are over, whoever holds it and whatever it is doing.
Expire(f) ==
  /\ lease[f] # NoOwner
  /\ lease' = [lease EXCEPT ![f] = NoOwner]
  /\ dirty' = dirty \union WatchingLease(f)
  /\ voided' = voided \union {lease[f]}
  /\ UNCHANGED <<inode, linked, blobs, allocated, job, late, mut, touch, held>>

------------------------------------------------------------------------------
(* mutate_content                                                           *)

Finish(m, out) ==
  mut' = [mut EXCEPT ![m] = [pc |-> "done", file |-> mut[m].file, req |-> NoRequest,
                             old |-> <<>>, tries |-> 0, out |-> out]]

\* Mutant of MutateCall: no size limit.
MutateCallUnbounded(m, f, r) ==
  /\ mut[m].pc = "idle"
  /\ mut' = [mut EXCEPT ![m].pc = "watch", ![m].file = f, ![m].req = r]
  /\ UNCHANGED <<inode, linked, blobs, lease, allocated, job, late, touch, dirty, voided, held>>

\* The call begins; a request that ends past the limit is refused at once.
\* A write may come through a descriptor of a file that is unlinked by now.
MutateCall(m, f, r) ==
  /\ mut[m].pc = "idle"
  /\ \/ /\ End(r) > MaxFile
        /\ Finish(m, "EFBIG")
     \/ /\ End(r) <= MaxFile
        /\ mut' = [mut EXCEPT ![m].pc = "watch", ![m].file = f, ![m].req = r]
  /\ UNCHANGED <<inode, linked, blobs, lease, allocated, job, late, touch, dirty, voided, held>>

\* WATCH inode and budget, HGETALL, read the old blob.
MutateWatch(m) ==
  LET f == mut[m].file IN
  /\ mut[m].pc = "watch"
  /\ \/ /\ ~Present(f)
        /\ Finish(m, "ENOENT")
        /\ UNCHANGED dirty
     \/ /\ Present(f)
        /\ mut' = [mut EXCEPT ![m].pc = "budget", ![m].old = Bytes(f), ![m].tries = @ + 1]
        /\ dirty' = dirty \ {m}
  /\ UNCHANGED <<inode, linked, blobs, lease, allocated, job, late, touch, voided, held>>

NewBytes(m) == Mutated(mut[m].old, mut[m].req, m)

\* GET bytes_allocated: refuse what no longer fits.
MutateBudget(m) ==
  /\ mut[m].pc = "budget"
  /\ \/ /\ allocated + Len(NewBytes(m)) > MaxBytes
        /\ Finish(m, "ENOSPC")
     \/ /\ allocated + Len(NewBytes(m)) <= MaxBytes
        /\ mut' = [mut EXCEPT ![m].pc = "exec"]
  /\ UNCHANGED <<inode, linked, blobs, lease, allocated, job, late, touch, dirty, voided, held>>

MutateApply(m) ==
  LET f == mut[m].file IN
  /\ allocated' = allocated + Len(NewBytes(m))
  /\ blobs' = blobs \union {NewBytes(m)}
  /\ inode' = [inode EXCEPT ![f].hash = NewBytes(m), ![f].state = "written",
                            ![f].rev = @ + 1]
  /\ lease' = [lease EXCEPT ![f] = NoOwner]
  /\ voided' = voided \union ({lease[f]} \ {NoOwner})
  /\ dirty' = (dirty \union WatchingInode(f) \union WatchingBudget) \ {m}
  /\ held' = [held EXCEPT ![f] = @ \union {NewBytes(m)}]
  /\ Finish(m, "ok")

\* Mutant of MutateExec: the new bytes are stored without a transaction.
MutateBlindly(m) ==
  /\ mut[m].pc = "exec" /\ Present(mut[m].file)
  /\ MutateApply(m)
  /\ UNCHANGED <<linked, job, late, touch>>

\* Mutant of MutateExec: a WatchError repeats the transaction without a new WATCH.
MutateRetriesBlindly(m) ==
  /\ mut[m].pc = "exec" /\ m \notin dirty
  /\ MutateApply(m)
  /\ UNCHANGED <<linked, job, late, touch>>

\* EXEC: budget, blob, hash, revision and the end of any generation, or a retry.
MutateExec(m) ==
  /\ mut[m].pc = "exec"
  /\ \/ /\ m \in dirty
        /\ IF mut[m].tries < Retries
           THEN mut' = [mut EXCEPT ![m].pc = "watch"]
           ELSE Finish(m, "EAGAIN")
        /\ UNCHANGED <<inode, blobs, lease, allocated, dirty, voided, held>>
     \/ /\ m \notin dirty
        /\ MutateApply(m)
  /\ UNCHANGED <<linked, job, late, touch>>

------------------------------------------------------------------------------
(* unlink and chmod                                                         *)

\* atomic_unlink.lua on a file with one link: entry and inode hash go, the
\* blobs and the lease stay.
Unlink(f) ==
  /\ f \in linked
  /\ linked' = linked \ {f}
  /\ inode' = [inode EXCEPT ![f] = Gone]
  /\ dirty' = dirty \union (IF Present(f) THEN WatchingInode(f) ELSE {})
  /\ UNCHANGED <<blobs, lease, allocated, job, late, mut, touch, voided, held>>

\* chmod resolves the path and reads the inode ...
ChmodResolve(t, f) ==
  /\ touch[t].pc = "idle"
  /\ f \in linked /\ Present(f)
  /\ touch' = [touch EXCEPT ![t] = [pc |-> "hset", file |-> f]]
  /\ UNCHANGED <<inode, linked, blobs, lease, allocated, job, late, mut, dirty, voided, held>>

\* ... and HSETs the mode, which creates the hash again if it is gone.
ChmodSet(t) ==
  LET f == touch[t].file IN
  /\ touch[t].pc = "hset"
  /\ touch' = [touch EXCEPT ![t].pc = "done"]
  /\ \/ /\ Present(f)
        /\ UNCHANGED <<inode, held>>
     \/ /\ ~Present(f)
        /\ inode' = [inode EXCEPT ![f] = NewHash("runtime", "none")]
        /\ held' = [held EXCEPT ![f] = @ \union {<<>>}]
  /\ dirty' = dirty \union WatchingInode(f)
  /\ UNCHANGED <<linked, blobs, lease, allocated, job, late, mut, voided>>

------------------------------------------------------------------------------
\* Every call has returned or died, and no lease is left to expire.
Quiescent ==
  /\ \A j \in Job : job[j].pc \in {"idle", "done", "crashed"}
  /\ \A m \in Mutator : mut[m].pc = "done"
  /\ UNCHANGED vars

JobStep(j) ==
  \/ Claim(j) \/ Poll(j) \/ ReadMeta(j) \/ Generate(j)
  \/ CommitWatch(j) \/ CommitExec(j) \/ Release(j)
MutStep(m) == MutateWatch(m) \/ MutateBudget(m) \/ MutateExec(m)

Next ==
  \/ \E j \in Job : JobStep(j) \/ Deadline(j) \/ Fail(j) \/ Crash(j)
  \/ \E j \in Job, f \in File : Submit(j, f)
  \/ \E f \in File : Expire(f) \/ Unlink(f)
  \/ \E m \in Mutator : MutStep(m)
  \/ \E m \in Mutator, f \in File, r \in Request : MutateCall(m, f, r)
  \/ \E t \in Toucher : ChmodSet(t) \/ \E f \in File : ChmodResolve(t, f)
  \/ Quiescent

Spec == Init /\ [][Next]_vars

\* Threads are scheduled, the model call has a timeout, clocks advance and
\* Redis expires keys.  Callers, failures and crashes promise nothing.
Fairness ==
  /\ \A j \in Job : WF_vars(JobStep(j)) /\ WF_vars(Deadline(j))
  /\ \A m \in Mutator : WF_vars(MutStep(m))
  /\ \A f \in File : WF_vars(Expire(f))
FairSpec == Spec /\ Fairness

------------------------------------------------------------------------------
(* Correctness                                                              *)

\* Types of all variables.
TypeOK ==
  /\ inode \in [File -> Hash \union {Gone}]
  /\ linked \subseteq File
  /\ blobs \subseteq Content
  /\ lease \in [File -> Job \union {NoOwner}]
  /\ allocated \in Nat
  /\ job \in [Job -> JobState]
  /\ mut \in [Mutator -> MutState]
  /\ touch \in [Toucher -> TouchState]
  /\ dirty \subseteq Job \union Mutator
  /\ voided \subseteq Job
  /\ late \subseteq Job
  /\ held \in [File -> SUBSET Content]

\* What an inode hash says about its content is consistent: content_hash is set
\* exactly when content_state says where the bytes came from, its blob exists (so
\* read_blob never raises EIO), and only a mutation has counted revisions.
ContentAgrees ==
  \A f \in File : Present(f) =>
    /\ (inode[f].hash # NoContent) <=> (inode[f].state \in {"generated", "written"})
    /\ inode[f].hash # NoContent => inode[f].hash \in blobs
    /\ (inode[f].rev > 0) <=> (inode[f].state = "written")

\* The budget is never exceeded, and it pays for every byte writers have in the
\* files of the session, however attempts interleave.
BudgetCovers ==
  /\ allocated <= MaxBytes
  /\ LET Written(f) == IF Present(f) /\ inode[f].state = "written"
                       THEN Len(inode[f].hash) ELSE 0
     IN MapThenSumSet(Written, File) <= allocated

\* The lease is a lock: a job between its claim and its release owns the lease of
\* its file unless a write or the TTL took it away, so two jobs that both still
\* count never work on one file, and nobody else's release frees a live lease.
LeaseExclusive ==
  \A j \in Job :
    job[j].pc \in {"read", "generate", "watch", "exec", "release"} /\ j \notin voided
      => lease[job[j].file] = j

\* What a job returns to the reader is content the file really had: a text that
\* lost the race against a write, a removal or another job is never shown.
ResultWasHeld ==
  \A j \in Job : job[j].out # NoContent => job[j].out \in held[job[j].file]

\* Generated text enters a file only while its author holds the file's lease and
\* only if it is the first content of this inode.
CommitsOwned ==
  [][\A f \in File :
       /\ inode'[f] # Gone /\ inode'[f] # inode[f] /\ inode'[f].state = "generated"
       => /\ Present(f) /\ ~HasContent(f)
          /\ \E j \in Job : lease[f] = j /\ job[j].file = f /\ job[j].pc = "exec"]_vars

\* A commit or a mutation that is about to EXEC with no watched key modified still
\* sees what it saw at WATCH; owners have their job, and what a file reads as was held.
JobWatched(j) == job[j].pc = "exec" /\ j \notin dirty => Fenced(j)
MutWatched(m) ==
  /\ mut[m].pc \in {"idle", "watch"} => mut[m].tries < Retries
  /\ mut[m].pc \in {"watch", "budget", "exec"}
       => mut[m].req \in Request /\ End(mut[m].req) <= MaxFile
  /\ mut[m].pc \in {"budget", "exec"} /\ m \notin dirty
       => Present(mut[m].file) /\ mut[m].old = Bytes(mut[m].file)
  /\ mut[m].pc = "exec" /\ m \notin dirty
       => allocated + Len(NewBytes(m)) <= MaxBytes
Watched == (\A j \in Job : JobWatched(j)) /\ (\A m \in Mutator : MutWatched(m))
Owners ==
  /\ \A f \in File, j \in Job : lease[f] = j =>
       /\ j \notin voided /\ job[j].file = f
       /\ job[j].pc \in {"read", "generate", "watch", "exec", "release", "crashed"}
  /\ \A j \in voided : job[j].pc \notin {"idle", "claim", "poll"}
TextReady ==
  \A j \in Job :
    /\ job[j].pc \in {"watch", "exec"} => job[j].text \in Generated
    /\ job[j].pc = "idle" => job[j].out = NoContent
HeldIsCurrent ==
  \A f \in File : Present(f) =>
    /\ HasContent(f) => inode[f].hash \in held[f]
    /\ ReadsEmpty(inode[f]) => <<>> \in held[f]

\* The inductive invariant behind the safety theorems (FileContentProofs).
IInv ==
  /\ TypeOK /\ ContentAgrees /\ LeaseExclusive /\ ResultWasHeld
  /\ Watched /\ Owners /\ TextReady /\ HeldIsCurrent
  /\ allocated <= MaxBytes

\* The detailed store is an atomic register per file (see ContentRegister): no
\* update is lost, text never replaces bytes, the budget is charged with each write.
Register == INSTANCE ContentRegister WITH
  content <- [f \in File |-> IF inode[f] = Gone THEN Gone ELSE inode[f].hash],
  charged <- allocated
ImplementsRegister == Register!Spec

\* What the docstring of atomic_unlink says (core/state.py:142): with the last link
\* of a file its blob goes too.  (Refuted here: the script keeps every blob, because
\* another inode may share it.)
BlobReclaimed ==
  [][\A f \in linked \ linked' :
       HasContent(f) /\ (\A g \in File \ {f} : Bytes(g) # Bytes(f))
         => inode[f].hash \notin blobs']_vars

\* A job ends: it never waits for a lease, a model or a commit forever.
JobsEnd ==
  \A j \in Job : job[j].pc = "claim" ~> job[j].pc \in {"done", "crashed"}

\* A write or a truncate ends, with success or with an error number.
MutationsEnd ==
  \A m \in Mutator : mut[m].pc = "watch" ~> mut[m].pc = "done"

\* A lease whose owner died does not block its file forever.
LeaseFreed ==
  \A j \in Job : job[j].pc = "crashed" ~> \A f \in File : lease[f] # j

=============================================================================
