-------------------------- MODULE FileContentProofs --------------------------
(***************************************************************************)
(* Proofs about FileContent for every number of files, jobs and writers.   *)
(***************************************************************************)
EXTENDS FileContent, FoldFacts, TLAPS

\* Applying a request that ends within the limit gives content again.
LEMMA MutatedContent ==
  ASSUME NEW old \in Content, NEW r \in Request \union {NoRequest}, NEW m \in Mutator,
         End(r) <= MaxFile
  PROVE  /\ Mutated(old, r, m) \in Content
         /\ Len(Mutated(old, r, m)) = NewLength(old, r)
<1>1. PICK k \in 0..MaxFile : old \in [1..k -> Byte]
  BY DEF Content
<1>2. Len(old) = k
  BY <1>1
<1>3. r.at \in Nat /\ r.n \in Nat /\ MaxFile \in Nat
  BY BytesOK DEF Write, Truncate, NoRequest
<1>. DEFINE len == NewLength(old, r)
<1>4. len \in 0..MaxFile
  BY <1>2, <1>3, BytesOK DEF NewLength, Longer, End, Write, Truncate, NoRequest
<1>5. Mutated(old, r, m) \in [1..len -> Byte]
  BY <1>1, <1>2, <1>3, <1>4 DEF Mutated, Byte, End
<1>6. Len(Mutated(old, r, m)) = len
  BY <1>4, <1>5
<1>. QED
  BY <1>4, <1>5, <1>6 DEF Content

LEMMA LenOfContent ==
  ASSUME NEW c \in Content PROVE Len(c) \in Nat
BY DEF Content

LEMMA EmptyIsContent == <<>> \in Content
<1>1. <<>> \in [1..0 -> Byte]
  OBVIOUS
<1>. QED
  BY <1>1, BytesOK DEF Content

LEMMA NewHashIsHash ==
  ASSUME NEW class \in Generable \union {"static", "runtime"},
         NEW state \in {"none", "static", "missing"}
  PROVE  NewHash(class, state) \in Hash /\ NewHash(class, state).hash = NoContent
BY DEF NewHash, Hash

LEMMA InitTypeOK == Init => TypeOK
<1>. SUFFICES ASSUME Init PROVE TypeOK
  OBVIOUS
<1>1. inode \in [File -> Hash \union {Gone}]
  BY ConstantsOK DEF Init, NewHash, ManifestState, Hash, Generable
<1>2. held \in [File -> SUBSET Content]
  BY EmptyIsContent DEF Init
<1>3. (CHOOSE f \in File : TRUE) \in File
  BY ConstantsOK
<1>4. job \in [Job -> JobState]
  BY <1>3, ConstantsOK DEF Init, JobState, JobPC
<1>5. mut \in [Mutator -> MutState]
  BY <1>3, EmptyIsContent, ConstantsOK DEF Init, MutState, MutPC, MutOut
<1>6. touch \in [Toucher -> TouchState]
  BY <1>3 DEF Init, TouchState
<1>. QED
  BY <1>1, <1>2, <1>4, <1>5, <1>6, ConstantsOK DEF Init, TypeOK

------------------------------------------------------------------------------
(* Preservation of IInv, one lemma per group of actions.                    *)

\* What a client saw at WATCH stays true until it is dirty, if whoever changes
\* what it watches makes it dirty.
LEMMA JobStillWatched ==
  ASSUME IInv, NEW k \in Job, job'[k] = job[k],
         k \in dirty => k \in dirty',
         job[k].pc = "exec" /\ k \notin dirty' =>
           /\ inode'[job[k].file] = inode[job[k].file]
           /\ lease'[job[k].file] = k <=> lease[job[k].file] = k
  PROVE  JobWatched(k)'
<1>1. JobWatched(k)
  BY DEF IInv, Watched
<1>. QED
  BY <1>1 DEF JobWatched, Fenced, Present, HasContent

LEMMA MutStillWatched ==
  ASSUME IInv, NEW m \in Mutator, mut'[m] = mut[m],
         m \in dirty => m \in dirty',
         mut[m].pc \in {"budget", "exec"} /\ m \notin dirty' =>
           /\ inode'[mut[m].file] = inode[mut[m].file]
           /\ allocated' = allocated
  PROVE  MutWatched(m)'
<1>1. MutWatched(m)
  BY DEF IInv, Watched
<1>. QED
  BY <1>1 DEF MutWatched, Present, Bytes, HasContent, NewBytes

\* A step of one job that stores nothing: what has to be shown about that job.
LEMMA JobMoves ==
  ASSUME IInv, TypeOK', NEW j \in Job,
         UNCHANGED <<inode, blobs, allocated, mut, voided, held>>,
         \A k \in Job \ {j} : job'[k] = job[k],
         dirty \ {j} \subseteq dirty',
         \A f \in File, k \in Job \ {j} : lease'[f] = k <=> lease[f] = k,
         \A f \in File : lease'[f] = j =>
           /\ j \notin voided /\ job'[j].file = f
           /\ job'[j].pc \in {"read", "generate", "watch", "exec", "release", "crashed"},
         job'[j].pc \in {"read", "generate", "watch", "exec", "release"} /\ j \notin voided
           => lease'[job'[j].file] = j,
         j \in voided => job'[j].pc \notin {"idle", "claim", "poll"},
         job'[j].out # NoContent => job'[j].out \in held[job'[j].file],
         job'[j].pc = "exec" /\ j \notin dirty' => Fenced(j)',
         job'[j].pc \in {"watch", "exec"} => job'[j].text \in Generated,
         job'[j].pc # "idle"
  PROVE  IInv'
<1>. USE DEF IInv
<1>1. ContentAgrees'
  BY DEF ContentAgrees, Present
<1>2. LeaseExclusive'
  BY DEF LeaseExclusive, TypeOK, JobState
<1>3. ResultWasHeld'
  BY DEF ResultWasHeld
<1>4. Watched'
  <2>1. ASSUME NEW k \in Job \ {j}
        PROVE  JobWatched(k)'
    BY <2>1, JobStillWatched DEF TypeOK, JobState
  <2>2. JobWatched(j)'
    BY DEF JobWatched
  <2>3. ASSUME NEW m \in Mutator
        PROVE  MutWatched(m)'
    BY ConstantsOK, MutStillWatched
  <2>. QED
    BY <2>1, <2>2, <2>3 DEF Watched
<1>5. Owners'
  <2>1. ASSUME NEW f \in File, NEW k \in Job, lease'[f] = k
        PROVE  /\ k \notin voided' /\ job'[k].file = f
               /\ job'[k].pc \in {"read", "generate", "watch", "exec", "release", "crashed"}
    <3>1. CASE k = j
      BY <2>1, <3>1
    <3>2. CASE k # j
      BY <2>1, <3>2 DEF Owners
    <3>. QED
      BY <3>1, <3>2
  <2>2. ASSUME NEW k \in voided'
        PROVE  job'[k].pc \notin {"idle", "claim", "poll"}
    BY <2>2 DEF Owners, TypeOK
  <2>. QED
    BY <2>1, <2>2 DEF Owners
<1>6. TextReady'
  BY DEF TextReady
<1>7. HeldIsCurrent'
  BY DEF HeldIsCurrent, Present, HasContent, ReadsEmpty
<1>. QED
  BY <1>1, <1>2, <1>3, <1>4, <1>5, <1>6, <1>7

\* What the two helpers of the job actions do to the job's record.
LEMMA SetJobMoves ==
  ASSUME TypeOK, NEW j \in Job, NEW pc \in JobPC, SetJob(j, pc)
  PROVE  /\ job' \in [Job -> JobState]
         /\ \A k \in Job \ {j} : job'[k] = job[k]
         /\ job'[j].pc = pc /\ job'[j].file = job[j].file /\ job'[j].rev = job[j].rev
         /\ job'[j].text = job[j].text /\ job'[j].out = job[j].out
  BY DEF TypeOK, SetJob, JobState

LEMMA ReturnMoves ==
  ASSUME TypeOK, NEW j \in Job, NEW pc \in JobPC, NEW out \in Content \union {NoContent},
         Return(j, pc, out)
  PROVE  /\ job' \in [Job -> JobState]
         /\ \A k \in Job \ {j} : job'[k] = job[k]
         /\ job'[j].pc = pc /\ job'[j].file = job[j].file /\ job'[j].out = out
  BY DEF TypeOK, Return, JobState

\* The stored bytes of a file are among those it ever had.
LEMMA CachedWasHeld ==
  ASSUME IInv, NEW f \in File
  PROVE  /\ Cached(f) \in Content \union {NoContent}
         /\ Cached(f) # NoContent => Cached(f) \in held[f]
BY DEF IInv, HeldIsCurrent, Cached, HasContent, Present, TypeOK, Hash

\* A step of the job that works on its file, from claim to EXEC.
LEMMA JobWorks ==
  ASSUME IInv, TypeOK', NEW j \in Job,
         job[j].pc \in {"read", "generate", "watch"},
         UNCHANGED <<inode, blobs, lease, allocated, mut, voided, held>>,
         \A k \in Job \ {j} : job'[k] = job[k],
         job'[j].pc \in {"generate", "watch", "exec"},
         job'[j].file = job[j].file, job'[j].out = job[j].out,
         dirty \ {j} \subseteq dirty',
         job'[j].pc = "exec" => Fenced(j)',
         job'[j].pc \in {"watch", "exec"} => job'[j].text \in Generated
  PROVE  IInv'
<1>1. \A f \in File : lease[f] = j => j \notin voided /\ f = job[j].file
  BY DEF IInv, Owners
<1>2. j \notin voided => lease[job[j].file] = j
  BY DEF IInv, LeaseExclusive
<1>3. job[j].out # NoContent => job[j].out \in held[job[j].file]
  BY DEF IInv, ResultWasHeld
<1>. QED
  BY <1>1, <1>2, <1>3, JobMoves

LEMMA SubmitInv ==
  ASSUME IInv, NEW j \in Job, NEW f \in File, Submit(j, f)
  PROVE  IInv'
<1>. TypeOK
  BY DEF IInv
<1>1. job' = [job EXCEPT ![j].pc = "claim", ![j].file = f]
  BY DEF Submit
<1>2. /\ job' \in [Job -> JobState]
      /\ \A k \in Job \ {j} : job'[k] = job[k]
      /\ job'[j].pc = "claim" /\ job'[j].file = f /\ job'[j].out = job[j].out
  BY <1>1 DEF TypeOK, JobState, JobPC
<1>3. TypeOK'
  BY <1>2 DEF TypeOK, Submit
<1>4. /\ job[j].pc = "idle" /\ j \notin voided
      /\ \A g \in File : lease[g] # j
  BY DEF IInv, Owners, Submit
<1>5. job'[j].out = NoContent
  BY <1>2, <1>4 DEF IInv, TextReady
<1>. QED
  BY <1>2, <1>3, <1>4, <1>5, JobMoves DEF Submit

LEMMA ClaimInv ==
  ASSUME IInv, NEW j \in Job, Claim(j)
  PROVE  IInv'
<1>. TypeOK
  BY DEF IInv
<1>. DEFINE f == job[j].file
<1>1. f \in File /\ job[j].out \in Content \union {NoContent}
  BY DEF TypeOK, JobState
<1>2. /\ job[j].pc = "claim" /\ j \notin voided
      /\ \A g \in File : lease[g] # j
  BY DEF IInv, Owners, Claim
<1>3. job[j].out # NoContent => job[j].out \in held[f]
  BY DEF IInv, ResultWasHeld
<1>4. CASE lease[f] = NoOwner /\ lease' = [lease EXCEPT ![f] = j]
           /\ dirty' = dirty \union WatchingLease(f) /\ late' = late \ {j} /\ SetJob(j, "read")
  <2>1. /\ job' \in [Job -> JobState]
        /\ \A k \in Job \ {j} : job'[k] = job[k]
        /\ job'[j].pc = "read" /\ job'[j].file = f /\ job'[j].out = job[j].out
    BY <1>4, SetJobMoves DEF JobPC
  <2>2. TypeOK'
    BY <1>1, <1>4, <2>1 DEF TypeOK, Claim, WatchingLease
  <2>3. /\ \A g \in File, k \in Job \ {j} : lease'[g] = k <=> lease[g] = k
        /\ \A g \in File : lease'[g] = j <=> g = f
    BY <1>1, <1>2, <1>4, ConstantsOK DEF TypeOK
  <2>. QED
    BY <1>1, <1>2, <1>3, <1>4, <2>1, <2>2, <2>3, JobMoves DEF Claim
<1>5. CASE SetJob(j, "poll") /\ UNCHANGED <<lease, dirty, late>>
  <2>1. /\ job' \in [Job -> JobState]
        /\ \A k \in Job \ {j} : job'[k] = job[k]
        /\ job'[j].pc = "poll" /\ job'[j].file = f /\ job'[j].out = job[j].out
    BY <1>5, SetJobMoves DEF JobPC
  <2>2. TypeOK'
    BY <1>5, <2>1 DEF TypeOK, Claim
  <2>. QED
    BY <1>1, <1>2, <1>3, <1>5, <2>1, <2>2, JobMoves DEF Claim
<1>. QED
  BY <1>4, <1>5 DEF Claim

LEMMA PollInv ==
  ASSUME IInv, NEW j \in Job, Poll(j)
  PROVE  IInv'
<1>. TypeOK
  BY DEF IInv
<1>. DEFINE f == job[j].file
<1>1. f \in File /\ job[j].out \in Content \union {NoContent}
  BY DEF TypeOK, JobState
<1>2. /\ job[j].pc = "poll" /\ j \notin voided
      /\ \A g \in File : lease[g] # j
  BY DEF IInv, Owners, Poll
<1>3. job[j].out # NoContent => job[j].out \in held[f]
  BY DEF IInv, ResultWasHeld
<1>4. Cached(f) \in Content \union {NoContent} /\ (Cached(f) # NoContent => Cached(f) \in held[f])
  BY <1>1, CachedWasHeld
<1>5. CASE \E out \in {NoContent, Cached(f)} : Return(j, "done", out) /\ late' = late \ {j}
  <2>1. PICK out \in {NoContent, Cached(f)} : Return(j, "done", out) /\ late' = late \ {j}
    BY <1>5
  <2>2. /\ job' \in [Job -> JobState]
        /\ \A k \in Job \ {j} : job'[k] = job[k]
        /\ job'[j].pc = "done" /\ job'[j].file = f /\ job'[j].out = out
    BY <1>4, <2>1, ReturnMoves DEF JobPC
  <2>3. TypeOK'
    BY <2>1, <2>2 DEF TypeOK, Poll
  <2>. QED
    BY <1>1, <1>2, <1>4, <2>2, <2>3, JobMoves DEF Poll
<1>6. CASE SetJob(j, "claim") /\ UNCHANGED late
  <2>1. /\ job' \in [Job -> JobState]
        /\ \A k \in Job \ {j} : job'[k] = job[k]
        /\ job'[j].pc = "claim" /\ job'[j].file = f /\ job'[j].out = job[j].out
    BY <1>6, SetJobMoves DEF JobPC
  <2>2. TypeOK'
    BY <1>6, <2>1 DEF TypeOK, Poll
  <2>. QED
    BY <1>1, <1>2, <1>3, <2>1, <2>2, JobMoves DEF Poll
<1>. QED
  BY <1>5, <1>6 DEF Poll

\* A job that only returns out, from any point after its claim.
LEMMA ReturnInv ==
  ASSUME IInv, NEW j \in Job, NEW out \in Content \union {NoContent},
         NEW pc \in {"release", "crashed"},
         pc = "release" => job[j].pc \in {"read", "generate", "watch", "exec"},
         pc = "crashed" => job[j].pc \notin {"idle", "done", "crashed"},
         out # NoContent => out \in held[job[j].file],
         Return(j, pc, out),
         UNCHANGED <<inode, linked, blobs, lease, allocated, late, mut, touch, dirty, voided, held>>
  PROVE  IInv'
<1>. TypeOK
  BY DEF IInv
<1>. DEFINE f == job[j].file
<1>1. f \in File /\ job[j].pc \in JobPC
  BY DEF TypeOK, JobState
<1>2. /\ job' \in [Job -> JobState]
      /\ \A k \in Job \ {j} : job'[k] = job[k]
      /\ job'[j].pc = pc /\ job'[j].file = f /\ job'[j].out = out
  BY ReturnMoves DEF JobPC
<1>3. TypeOK'
  BY <1>2 DEF TypeOK
<1>4. \A g \in File : lease[g] = j => j \notin voided /\ g = f
  BY DEF IInv, Owners
<1>5. pc = "release" /\ j \notin voided => lease[f] = j
  BY DEF IInv, LeaseExclusive
<1>. QED
  BY <1>1, <1>2, <1>3, <1>4, <1>5, JobMoves

LEMMA ReadMetaInv ==
  ASSUME IInv, NEW j \in Job, ReadMeta(j)
  PROVE  IInv'
<1>. TypeOK
  BY DEF IInv
<1>. DEFINE f == job[j].file
<1>1. /\ f \in File /\ job[j].pc = "read"
      /\ UNCHANGED <<inode, linked, blobs, lease, allocated, late, mut, touch, dirty, voided, held>>
  BY DEF TypeOK, JobState, ReadMeta
<1>2. CASE Return(j, "release", Cached(f))
  BY <1>1, <1>2, CachedWasHeld, ReturnInv
<1>3. CASE Present(f) /\ ReadsEmpty(inode[f]) /\ Return(j, "release", <<>>)
  <2>1. <<>> \in Content /\ <<>> \in held[f]
    BY <1>1, <1>3, EmptyIsContent DEF IInv, HeldIsCurrent
  <2>. QED
    BY <1>1, <1>3, <2>1, ReturnInv
<1>4. CASE Present(f) /\ job' = [job EXCEPT ![j].pc = "generate", ![j].rev = inode[f].rev]
  <2>1. inode[f].rev \in Nat
    BY <1>1, <1>4 DEF TypeOK, Hash, Present
  <2>2. /\ job' \in [Job -> JobState]
        /\ \A k \in Job \ {j} : job'[k] = job[k]
        /\ job'[j].pc = "generate" /\ job'[j].file = f /\ job'[j].out = job[j].out
    BY <1>4, <2>1 DEF TypeOK, JobState, JobPC
  <2>3. TypeOK'
    BY <1>1, <2>2 DEF TypeOK
  <2>. QED
    BY <1>1, <2>2, <2>3, JobWorks
<1>. QED
  BY <1>2, <1>3, <1>4 DEF ReadMeta

LEMMA GenerateInv ==
  ASSUME IInv, NEW j \in Job, Generate(j)
  PROVE  IInv'
<1>. TypeOK
  BY DEF IInv
<1>1. PICK text \in Generated : job' = [job EXCEPT ![j].pc = "watch", ![j].text = text]
  BY DEF Generate
<1>a. text \in Content
  BY ConstantsOK
<1>2. /\ job' \in [Job -> JobState]
      /\ \A k \in Job \ {j} : job'[k] = job[k]
      /\ job'[j].pc = "watch" /\ job'[j].file = job[j].file /\ job'[j].out = job[j].out
      /\ job'[j].text = text
  BY <1>1, <1>a DEF TypeOK, JobState, JobPC
<1>3. TypeOK'
  BY <1>2 DEF TypeOK, Generate
<1>. QED
  BY <1>2, <1>3, JobWorks DEF Generate

LEMMA CommitWatchInv ==
  ASSUME IInv, NEW j \in Job, CommitWatch(j)
  PROVE  IInv'
<1>. TypeOK
  BY DEF IInv
<1>. DEFINE f == job[j].file
<1>1. /\ f \in File /\ job[j].pc = "watch"
      /\ UNCHANGED <<inode, linked, blobs, lease, allocated, late, mut, touch, voided, held>>
  BY DEF TypeOK, JobState, CommitWatch
<1>2. CASE Return(j, "release", Cached(f)) /\ UNCHANGED dirty
  BY <1>1, <1>2, CachedWasHeld, ReturnInv
<1>4. job[j].text \in Generated
  <2>1. job[j].pc \in {"watch", "exec"}
    BY <1>1
  <2>2. TextReady
    BY DEF IInv
  <2>. QED
    BY <2>1, <2>2 DEF TextReady
<1>3. CASE Fenced(j) /\ SetJob(j, "exec") /\ dirty' = dirty \ {j}
  <2>1. /\ job' \in [Job -> JobState]
        /\ \A k \in Job \ {j} : job'[k] = job[k]
        /\ job'[j].pc = "exec" /\ job'[j].file = f /\ job'[j].rev = job[j].rev
        /\ job'[j].text = job[j].text /\ job'[j].out = job[j].out
    BY <1>3, SetJobMoves DEF JobPC
  <2>2. TypeOK'
    BY <1>1, <1>3, <2>1 DEF TypeOK
  <2>3. Fenced(j)'
    BY <1>1, <1>3, <2>1 DEF Fenced, Present, HasContent
  <2>. QED
    BY <1>1, <1>3, <1>4, <2>1, <2>2, <2>3, JobWorks
<1>. QED
  BY <1>2, <1>3 DEF CommitWatch

\* Owners holds after a step of one owner that keeps its lease.
LEMMA OwnersAfterReturn ==
  ASSUME IInv, NEW j \in Job, UNCHANGED <<lease, voided>>,
         job[j].pc \in {"read", "generate", "watch", "exec"},
         \A k \in Job \ {j} : job'[k] = job[k],
         job'[j].pc \in {"release", "crashed"}, job'[j].file = job[j].file
  PROVE  Owners'
<1>. TypeOK /\ Owners
  BY DEF IInv
<1>1. ASSUME NEW f \in File, NEW k \in Job, lease'[f] = k
      PROVE  /\ k \notin voided' /\ job'[k].file = f
             /\ job'[k].pc \in {"read", "generate", "watch", "exec", "release", "crashed"}
  BY <1>1 DEF Owners
<1>2. ASSUME NEW k \in voided'
      PROVE  job'[k].pc \notin {"idle", "claim", "poll"}
  BY <1>2 DEF Owners, TypeOK
<1>. QED
  BY <1>1, <1>2 DEF Owners

\* The transaction of _commit stores its text, or returns nothing.
LEMMA CommitExecInv ==
  ASSUME IInv, NEW j \in Job, CommitExec(j)
  PROVE  IInv'
<1>. TypeOK
  BY DEF IInv
<1>. DEFINE f == job[j].file
            text == job[j].text
<1>1. /\ f \in File /\ job[j].pc = "exec" /\ text \in Generated /\ text \in Content
      /\ UNCHANGED <<linked, lease, allocated, late, mut, touch, voided>>
  BY ConstantsOK DEF TypeOK, JobState, CommitExec, IInv, TextReady
<1>2. CASE Return(j, "release", NoContent) /\ UNCHANGED <<inode, blobs, dirty, held>>
  BY <1>1, <1>2, ReturnInv
<1>3. CASE /\ j \notin dirty
           /\ blobs' = blobs \union {text}
           /\ inode' = [inode EXCEPT ![f].hash = text, ![f].state = "generated"]
           /\ dirty' = (dirty \union WatchingInode(f)) \ {j}
           /\ held' = [held EXCEPT ![f] = @ \union {text}]
           /\ Return(j, "release", text)
  <2>1. Fenced(j)
    BY <1>1, <1>3 DEF IInv, Watched, JobWatched
  <2>2. /\ Present(f) /\ inode[f] \in Hash /\ inode[f].hash = NoContent
        /\ inode[f].rev = 0 /\ inode[f].state # "written"
    BY <1>1, <2>1 DEF Fenced, Present, HasContent, IInv, TypeOK, ContentAgrees, Hash
  <2>3. /\ inode'[f] \in Hash /\ inode'[f].hash = text /\ inode'[f].rev = 0
        /\ inode'[f].state = "generated" /\ inode'[f].class = inode[f].class
        /\ \A g \in File \ {f} : inode'[g] = inode[g]
        /\ inode' \in [File -> Hash \union {Gone}]
    BY <1>1, <1>3, <2>2 DEF TypeOK, Hash
  <2>4. inode'[f] # Gone
    BY <2>3, GoneOK
  <2>5. /\ job' \in [Job -> JobState]
        /\ \A k \in Job \ {j} : job'[k] = job[k]
        /\ job'[j].pc = "release" /\ job'[j].file = f /\ job'[j].out = text
    BY <1>1, <1>3, ReturnMoves DEF JobPC
  <2>6. /\ held' \in [File -> SUBSET Content]
        /\ held'[f] = held[f] \union {text}
        /\ \A g \in File : held[g] \subseteq held'[g]
    BY <1>1, <1>3 DEF TypeOK
  <2>7. TypeOK'
    BY <1>1, <1>3, <2>3, <2>5, <2>6 DEF TypeOK, WatchingInode
  <2>8. ContentAgrees'
    <3>1. ASSUME NEW g \in File, Present(g)'
          PROVE  /\ (inode'[g].hash # NoContent) <=> (inode'[g].state \in {"generated", "written"})
                 /\ inode'[g].hash # NoContent => inode'[g].hash \in blobs'
                 /\ (inode'[g].rev > 0) <=> (inode'[g].state = "written")
      <4>1. CASE g = f
        BY <4>1, <1>1, <1>3, <2>3, ConstantsOK
      <4>2. CASE g # f
        BY <3>1, <4>2, <1>3, <2>3 DEF IInv, ContentAgrees, Present
      <4>. QED
        BY <4>1, <4>2
    <3>. QED
      BY <3>1 DEF ContentAgrees
  <2>9. LeaseExclusive'
    BY <1>1, <2>5 DEF IInv, LeaseExclusive
  <2>10. ResultWasHeld'
    <3>1. ASSUME NEW k \in Job, job'[k].out # NoContent
          PROVE  job'[k].out \in held'[job'[k].file]
      <4>1. CASE k = j
        BY <4>1, <2>5, <2>6
      <4>2. CASE k # j
        BY <3>1, <4>2, <2>5, <2>6 DEF IInv, ResultWasHeld, TypeOK, JobState
      <4>. QED
        BY <4>1, <4>2
    <3>. QED
      BY <3>1 DEF ResultWasHeld
  <2>11. Watched'
    <3>1. ASSUME NEW k \in Job \ {j}
          PROVE  JobWatched(k)'
      BY <1>1, <1>3, <2>3, <2>5, JobStillWatched DEF WatchingInode, TypeOK, JobState
    <3>2. JobWatched(j)'
      BY <2>5 DEF JobWatched
    <3>3. ASSUME NEW m \in Mutator
          PROVE  MutWatched(m)'
      <4>1. m # j
        BY ConstantsOK
      <4>. QED
        BY <1>1, <1>3, <2>3, <4>1, MutStillWatched DEF WatchingInode, TypeOK, MutState
    <3>. QED
      BY <3>1, <3>2, <3>3 DEF Watched
  <2>12. Owners'
    BY <1>1, <2>5, OwnersAfterReturn
  <2>13. TextReady'
    BY <2>5 DEF IInv, TextReady
  <2>14. HeldIsCurrent'
    <3>1. ASSUME NEW g \in File, Present(g)'
          PROVE  /\ HasContent(g)' => inode'[g].hash \in held'[g]
                 /\ ReadsEmpty(inode'[g]) => <<>> \in held'[g]
      <4>1. CASE g = f
        BY <4>1, <1>1, <2>3, <2>6, ConstantsOK DEF ReadsEmpty
      <4>2. CASE g # f
        BY <3>1, <4>2, <2>3, <2>6 DEF IInv, HeldIsCurrent, Present, HasContent
      <4>. QED
        BY <4>1, <4>2
    <3>. QED
      BY <3>1 DEF HeldIsCurrent
  <2>. QED
    BY <1>1, <2>7, <2>8, <2>9, <2>10, <2>11, <2>12, <2>13, <2>14 DEF IInv
<1>. QED
  BY <1>2, <1>3 DEF CommitExec

LEMMA ReleaseInv ==
  ASSUME IInv, NEW j \in Job, Release(j)
  PROVE  IInv'
<1>. TypeOK
  BY DEF IInv
<1>. DEFINE f == job[j].file
<1>1. /\ f \in File /\ job[j].pc = "release"
      /\ SetJob(j, "done")
      /\ UNCHANGED <<inode, linked, blobs, allocated, late, mut, touch, voided, held>>
  BY DEF TypeOK, JobState, Release
<1>2. /\ job' \in [Job -> JobState]
      /\ \A k \in Job \ {j} : job'[k] = job[k]
      /\ job'[j].pc = "done" /\ job'[j].file = f /\ job'[j].out = job[j].out
  BY <1>1, SetJobMoves DEF JobPC
<1>3. job[j].out # NoContent => job[j].out \in held[f]
  BY DEF IInv, ResultWasHeld
<1>4. \A g \in File : lease[g] = j => g = f
  BY DEF IInv, Owners
<1>5. j \in voided => job'[j].pc \notin {"idle", "claim", "poll"}
  BY <1>2
<1>6. CASE /\ lease[f] = j /\ lease' = [lease EXCEPT ![f] = NoOwner]
           /\ dirty' = dirty \union WatchingLease(f)
  <2>1. TypeOK'
    BY <1>1, <1>2, <1>6 DEF TypeOK, WatchingLease
  <2>2. /\ \A g \in File, k \in Job \ {j} : lease'[g] = k <=> lease[g] = k
        /\ \A g \in File : lease'[g] # j
    BY <1>1, <1>4, <1>6, ConstantsOK DEF TypeOK
  <2>. QED
    BY <1>1, <1>2, <1>3, <1>5, <1>6, <2>1, <2>2, JobMoves
<1>7. CASE lease[f] # j /\ UNCHANGED <<lease, dirty>>
  <2>1. TypeOK'
    BY <1>1, <1>2, <1>7 DEF TypeOK
  <2>2. \A g \in File : lease'[g] # j
    BY <1>4, <1>7
  <2>. QED
    BY <1>1, <1>2, <1>3, <1>5, <1>7, <2>1, <2>2, JobMoves
<1>. QED
  BY <1>6, <1>7 DEF Release

LEMMA FailInv ==
  ASSUME IInv, NEW j \in Job, Fail(j)
  PROVE  IInv'
BY ReturnInv DEF Fail

\* A job may also die before it owns anything.
LEMMA CrashInv ==
  ASSUME IInv, NEW j \in Job, Crash(j)
  PROVE  IInv'
BY ReturnInv DEF Crash

\* Steps that touch nothing the other conjuncts speak of.
LEMMA FrameInv ==
  ASSUME IInv, TypeOK',
         UNCHANGED <<inode, blobs, lease, allocated, job, mut, dirty, voided, held>>
  PROVE  IInv'
<1>. USE DEF IInv
<1>1. ContentAgrees' /\ LeaseExclusive' /\ ResultWasHeld'
  BY DEF ContentAgrees, Present, LeaseExclusive, ResultWasHeld
<1>2. Watched'
  BY DEF Watched, JobWatched, MutWatched, Fenced, Present, HasContent, Bytes, NewBytes
<1>3. Owners' /\ TextReady' /\ HeldIsCurrent'
  BY DEF Owners, TextReady, HeldIsCurrent, Present, HasContent, ReadsEmpty
<1>. QED
  BY <1>1, <1>2, <1>3

\* A write or the TTL takes the lease of f away from whoever has it.
LEMMA LeaseVoided ==
  ASSUME IInv, NEW f \in File, UNCHANGED job,
         lease' = [lease EXCEPT ![f] = NoOwner],
         voided' = voided \union ({lease[f]} \ {NoOwner})
  PROVE  /\ lease' \in [File -> Job \union {NoOwner}] /\ voided' \subseteq Job
         /\ LeaseExclusive' /\ Owners'
<1>. TypeOK /\ Owners /\ LeaseExclusive
  BY DEF IInv
<1>1. lease' \in [File -> Job \union {NoOwner}] /\ voided' \subseteq Job
  BY DEF TypeOK
<1>2. LeaseExclusive'
  <2>1. ASSUME NEW j \in Job, j \notin voided',
               job'[j].pc \in {"read", "generate", "watch", "exec", "release"}
        PROVE  lease'[job'[j].file] = j
    <3>1. lease[job[j].file] = j /\ job[j].file \in File
      BY <2>1 DEF LeaseExclusive, TypeOK, JobState
    <3>2. job[j].file # f
      BY <2>1, <3>1, ConstantsOK
    <3>. QED
      BY <3>1, <3>2 DEF TypeOK
  <2>. QED
    BY <2>1 DEF LeaseExclusive
<1>3. Owners'
  <2>1. ASSUME NEW g \in File, NEW j \in Job, lease'[g] = j
        PROVE  /\ j \notin voided' /\ job'[j].file = g
               /\ job'[j].pc \in {"read", "generate", "watch", "exec", "release", "crashed"}
    <3>1. g # f /\ lease[g] = j
      BY <2>1, ConstantsOK DEF TypeOK
    <3>2. /\ j \notin voided /\ job[j].file = g
          /\ job[j].pc \in {"read", "generate", "watch", "exec", "release", "crashed"}
      BY <3>1 DEF Owners
    <3>3. lease[f] # j
      BY <3>1, <3>2 DEF Owners
    <3>. QED
      BY <3>2, <3>3
  <2>2. ASSUME NEW j \in voided'
        PROVE  job'[j].pc \notin {"idle", "claim", "poll"}
    <3>1. CASE j \in voided
      BY <3>1 DEF Owners
    <3>2. CASE j = lease[f] /\ j # NoOwner
      <4>1. j \in Job
        BY <3>2 DEF TypeOK
      <4>. QED
        BY <3>2, <4>1 DEF Owners
    <3>. QED
      BY <2>2, <3>1, <3>2
  <2>. QED
    BY <2>1, <2>2 DEF Owners
<1>. QED
  BY <1>1, <1>2, <1>3

LEMMA ExpireInv ==
  ASSUME IInv, NEW f \in File, Expire(f)
  PROVE  IInv'
<1>. TypeOK
  BY DEF IInv
<1>1. /\ lease[f] \in Job /\ lease' = [lease EXCEPT ![f] = NoOwner]
      /\ voided' = voided \union ({lease[f]} \ {NoOwner})
      /\ dirty' = dirty \union WatchingLease(f)
      /\ UNCHANGED <<inode, linked, blobs, allocated, job, late, mut, touch, held>>
  BY DEF Expire, TypeOK
<1>2. /\ lease' \in [File -> Job \union {NoOwner}] /\ voided' \subseteq Job
      /\ LeaseExclusive' /\ Owners'
  BY <1>1, LeaseVoided
<1>3. TypeOK'
  BY <1>1, <1>2 DEF TypeOK, WatchingLease
<1>4. ContentAgrees' /\ ResultWasHeld' /\ TextReady' /\ HeldIsCurrent'
  BY <1>1 DEF IInv, ContentAgrees, Present, ResultWasHeld, TextReady, HeldIsCurrent,
              HasContent, ReadsEmpty
<1>5. Watched'
  <2>1. ASSUME NEW k \in Job
        PROVE  JobWatched(k)'
    BY <1>1, JobStillWatched DEF TypeOK, JobState, WatchingLease
  <2>2. ASSUME NEW m \in Mutator
        PROVE  MutWatched(m)'
    BY <1>1, MutStillWatched
  <2>. QED
    BY <2>1, <2>2 DEF Watched
<1>. QED
  BY <1>1, <1>2, <1>3, <1>4, <1>5 DEF IInv

\* A step of one writer that stores nothing.
LEMMA MutMoves ==
  ASSUME IInv, NEW m \in Mutator,
         UNCHANGED <<inode, linked, blobs, lease, allocated, job, late, touch, voided, held>>,
         mut' \in [Mutator -> MutState],
         \A k \in Mutator \ {m} : mut'[k] = mut[k],
         dirty' \in {dirty, dirty \ {m}},
         MutWatched(m)'
  PROVE  IInv'
<1>. TypeOK
  BY DEF IInv
<1>1. TypeOK'
  BY DEF TypeOK
<1>2. ContentAgrees' /\ LeaseExclusive' /\ ResultWasHeld'
  BY DEF IInv, ContentAgrees, Present, LeaseExclusive, ResultWasHeld
<1>3. Owners' /\ TextReady' /\ HeldIsCurrent'
  BY DEF IInv, Owners, TextReady, HeldIsCurrent, Present, HasContent, ReadsEmpty
<1>4. Watched'
  <2>1. ASSUME NEW k \in Job
        PROVE  JobWatched(k)'
    <3>1. k # m
      BY ConstantsOK
    <3>. QED
      BY <3>1, JobStillWatched
  <2>2. ASSUME NEW k \in Mutator \ {m}
        PROVE  MutWatched(k)'
    BY MutStillWatched
  <2>. QED
    BY <2>1, <2>2 DEF Watched
<1>. QED
  BY <1>1, <1>2, <1>3, <1>4 DEF IInv

LEMMA FinishMoves ==
  ASSUME TypeOK, NEW m \in Mutator, NEW out \in MutOut, Finish(m, out)
  PROVE  /\ mut' \in [Mutator -> MutState]
         /\ \A k \in Mutator \ {m} : mut'[k] = mut[k]
         /\ mut'[m].pc = "done" /\ MutWatched(m)'
<1>. DEFINE r == [pc |-> "done", file |-> mut[m].file, req |-> NoRequest,
                  old |-> <<>>, tries |-> 0, out |-> out]
<1>1. r \in MutState
  BY EmptyIsContent, ConstantsOK DEF TypeOK, MutState, MutPC
<1>2. mut' = [mut EXCEPT ![m] = r]
  BY DEF Finish
<1>3. mut' \in [Mutator -> MutState] /\ mut'[m] = r
  BY <1>1, <1>2 DEF TypeOK
<1>. QED
  BY <1>2, <1>3 DEF TypeOK, MutWatched

LEMMA MutateCallInv ==
  ASSUME IInv, NEW m \in Mutator, NEW f \in File, NEW r \in Request, MutateCall(m, f, r)
  PROVE  IInv'
<1>. TypeOK
  BY DEF IInv
<1>1. UNCHANGED <<inode, linked, blobs, lease, allocated, job, late, touch, dirty, voided, held>>
  BY DEF MutateCall
<1>2. CASE Finish(m, "EFBIG")
  BY <1>1, <1>2, FinishMoves, MutMoves DEF MutOut
<1>3. CASE /\ End(r) <= MaxFile
           /\ mut' = [mut EXCEPT ![m].pc = "watch", ![m].file = f, ![m].req = r]
  <2>1. /\ mut' \in [Mutator -> MutState]
        /\ \A k \in Mutator \ {m} : mut'[k] = mut[k]
        /\ mut'[m].pc = "watch" /\ mut'[m].req = r /\ r \in Request /\ mut'[m].tries = mut[m].tries
    <3>. DEFINE h == [mut[m] EXCEPT !.pc = "watch", !.file = f, !.req = r]
    <3>1. /\ h \in MutState /\ h.pc = "watch" /\ h.req = r /\ h.tries = mut[m].tries
          /\ mut \in [Mutator -> MutState]
      BY DEF TypeOK, MutState, MutPC
    <3>2. mut' = [mut EXCEPT ![m] = h]
      BY <1>3, <3>1
    <3>. HIDE DEF h
    <3>. QED
      BY <3>1, <3>2
  <2>2. MutWatched(m) /\ mut[m].pc = "idle"
    BY DEF IInv, Watched, MutateCall
  <2>3. MutWatched(m)'
    BY <1>3, <2>1, <2>2 DEF MutWatched
  <2>. QED
    BY <1>1, <2>1, <2>3, MutMoves
<1>. QED
  BY <1>2, <1>3 DEF MutateCall

LEMMA MutateWatchInv ==
  ASSUME IInv, NEW m \in Mutator, MutateWatch(m)
  PROVE  IInv'
<1>. TypeOK
  BY DEF IInv
<1>. DEFINE f == mut[m].file
<1>1. /\ UNCHANGED <<inode, linked, blobs, lease, allocated, job, late, touch, voided, held>>
      /\ mut[m].pc = "watch" /\ f \in File
  BY DEF MutateWatch, TypeOK, MutState
<1>2. CASE Finish(m, "ENOENT") /\ UNCHANGED dirty
  BY <1>1, <1>2, FinishMoves, MutMoves DEF MutOut
<1>3. CASE /\ Present(f) /\ dirty' = dirty \ {m}
           /\ mut' = [mut EXCEPT ![m].pc = "budget", ![m].old = Bytes(f), ![m].tries = @ + 1]
  <2>1. Bytes(f) \in Content
    BY <1>1, EmptyIsContent DEF Bytes, HasContent, Present, TypeOK, Hash
  <2>2. mut[m].tries < Retries /\ mut[m].tries + 1 \in 0..Retries
    BY <1>1, ConstantsOK DEF TypeOK, MutState, IInv, Watched, MutWatched
  <2>3. /\ mut' \in [Mutator -> MutState]
        /\ \A k \in Mutator \ {m} : mut'[k] = mut[k]
        /\ mut'[m].pc = "budget" /\ mut'[m].req = mut[m].req /\ mut'[m].file = f
        /\ mut'[m].old = Bytes(f)
    BY <1>3, <2>1, <2>2 DEF TypeOK, MutState, MutPC
  <2>4. MutWatched(m)
    BY DEF IInv, Watched
  <2>5. MutWatched(m)'
    BY <1>1, <1>3, <2>3, <2>4 DEF MutWatched, Present, Bytes, HasContent
  <2>. QED
    BY <1>1, <1>3, <2>3, <2>5, MutMoves
<1>. QED
  BY <1>2, <1>3 DEF MutateWatch

LEMMA MutateBudgetInv ==
  ASSUME IInv, NEW m \in Mutator, MutateBudget(m)
  PROVE  IInv'
<1>. TypeOK
  BY DEF IInv
<1>1. /\ UNCHANGED <<inode, linked, blobs, lease, allocated, job, late, touch, dirty, voided, held>>
      /\ mut[m].pc = "budget"
  BY DEF MutateBudget
<1>2. CASE Finish(m, "ENOSPC")
  BY <1>1, <1>2, FinishMoves, MutMoves DEF MutOut
<1>3. CASE /\ allocated + Len(NewBytes(m)) <= MaxBytes
           /\ mut' = [mut EXCEPT ![m].pc = "exec"]
  <2>1. /\ mut' \in [Mutator -> MutState]
        /\ \A k \in Mutator \ {m} : mut'[k] = mut[k]
        /\ mut'[m].pc = "exec" /\ mut'[m].req = mut[m].req /\ mut'[m].file = mut[m].file
        /\ mut'[m].old = mut[m].old /\ mut'[m].tries = mut[m].tries
    BY <1>3 DEF TypeOK, MutState, MutPC
  <2>2. MutWatched(m)
    BY DEF IInv, Watched
  <2>3. MutWatched(m)'
    BY <1>1, <1>3, <2>1, <2>2 DEF MutWatched, Present, Bytes, HasContent, NewBytes
  <2>. QED
    BY <1>1, <2>1, <2>3, MutMoves
<1>. QED
  BY <1>2, <1>3 DEF MutateBudget

\* The transaction of mutate_content: all of a write at once.
LEMMA MutateApplyInv ==
  ASSUME IInv, NEW m \in Mutator, mut[m].pc = "exec", m \notin dirty, MutateApply(m),
         UNCHANGED <<linked, job, late, touch>>
  PROVE  IInv'
<1>. TypeOK
  BY DEF IInv
<1>. DEFINE f == mut[m].file
            new == NewBytes(m)
<1>1. f \in File /\ mut[m].old \in Content /\ mut[m].req \in Request \union {NoRequest}
  BY DEF TypeOK, MutState
<1>2. /\ End(mut[m].req) <= MaxFile
      /\ Present(f) /\ allocated + Len(new) <= MaxBytes
  BY DEF IInv, Watched, MutWatched
<1>3. new \in Content /\ Len(new) \in Nat
  BY <1>1, <1>2, MutatedContent, LenOfContent DEF NewBytes
<1>4. /\ allocated' = allocated + Len(new)
      /\ blobs' = blobs \union {new}
      /\ inode' = [inode EXCEPT ![f].hash = new, ![f].state = "written", ![f].rev = @ + 1]
      /\ lease' = [lease EXCEPT ![f] = NoOwner]
      /\ voided' = voided \union ({lease[f]} \ {NoOwner})
      /\ dirty' = (dirty \union WatchingInode(f) \union WatchingBudget) \ {m}
      /\ held' = [held EXCEPT ![f] = @ \union {new}]
      /\ Finish(m, "ok")
  BY DEF MutateApply
<1>5. inode[f] \in Hash /\ inode[f].rev \in Nat
  BY <1>1, <1>2 DEF TypeOK, Present, Hash
<1>6. /\ inode'[f] \in Hash /\ inode'[f].hash = new /\ inode'[f].state = "written"
      /\ inode'[f].rev > 0
      /\ \A g \in File \ {f} : inode'[g] = inode[g]
      /\ inode' \in [File -> Hash \union {Gone}]
  BY <1>1, <1>3, <1>4, <1>5 DEF TypeOK, Hash
<1>7. inode'[f] # Gone
  BY <1>6, GoneOK
<1>8. /\ held' \in [File -> SUBSET Content]
      /\ held'[f] = held[f] \union {new}
      /\ \A g \in File : held[g] \subseteq held'[g]
  BY <1>1, <1>3, <1>4 DEF TypeOK
<1>9. /\ mut' \in [Mutator -> MutState]
      /\ \A k \in Mutator \ {m} : mut'[k] = mut[k]
      /\ MutWatched(m)'
  BY <1>4, FinishMoves DEF MutOut
<1>10. /\ lease' \in [File -> Job \union {NoOwner}] /\ voided' \subseteq Job
       /\ LeaseExclusive' /\ Owners'
  BY <1>1, <1>4, LeaseVoided
<1>11. allocated' \in Nat /\ allocated' <= MaxBytes
  BY <1>2, <1>3, <1>4 DEF TypeOK
<1>12. TypeOK'
  BY <1>3, <1>4, <1>6, <1>8, <1>9, <1>10, <1>11 DEF TypeOK, WatchingInode, WatchingBudget
<1>13. ContentAgrees'
  <2>1. ASSUME NEW g \in File, Present(g)'
        PROVE  /\ (inode'[g].hash # NoContent) <=> (inode'[g].state \in {"generated", "written"})
               /\ inode'[g].hash # NoContent => inode'[g].hash \in blobs'
               /\ (inode'[g].rev > 0) <=> (inode'[g].state = "written")
    <3>1. CASE g = f
      BY <3>1, <1>3, <1>4, <1>6, ConstantsOK
    <3>2. CASE g # f
      BY <2>1, <3>2, <1>4, <1>6 DEF IInv, ContentAgrees, Present
    <3>. QED
      BY <3>1, <3>2
  <2>. QED
    BY <2>1 DEF ContentAgrees
<1>14. ResultWasHeld' /\ TextReady'
  BY <1>8 DEF IInv, ResultWasHeld, TextReady, TypeOK, JobState
<1>15. Watched'
  <2>1. ASSUME NEW k \in Job
        PROVE  JobWatched(k)'
    <3>1. k # m
      BY ConstantsOK
    <3>. QED
      BY <1>1, <1>4, <1>6, <3>1, JobStillWatched DEF WatchingInode, TypeOK, JobState
  <2>2. ASSUME NEW k \in Mutator \ {m}
        PROVE  MutWatched(k)'
    BY <1>4, <1>9, MutStillWatched DEF WatchingBudget
  <2>. QED
    BY <1>9, <2>1, <2>2 DEF Watched
<1>16. HeldIsCurrent'
  <2>1. ASSUME NEW g \in File, Present(g)'
        PROVE  /\ HasContent(g)' => inode'[g].hash \in held'[g]
               /\ ReadsEmpty(inode'[g]) => <<>> \in held'[g]
    <3>1. CASE g = f
      BY <3>1, <1>3, <1>6, <1>8, ConstantsOK DEF ReadsEmpty
    <3>2. CASE g # f
      BY <2>1, <3>2, <1>6, <1>8 DEF IInv, HeldIsCurrent, Present, HasContent
    <3>. QED
      BY <3>1, <3>2
  <2>. QED
    BY <2>1 DEF HeldIsCurrent
<1>. QED
  BY <1>10, <1>11, <1>12, <1>13, <1>14, <1>15, <1>16 DEF IInv

LEMMA MutateExecInv ==
  ASSUME IInv, NEW m \in Mutator, MutateExec(m)
  PROVE  IInv'
<1>. TypeOK
  BY DEF IInv
<1>1. mut[m].pc = "exec" /\ UNCHANGED <<linked, job, late, touch>>
  BY DEF MutateExec
<1>2. CASE m \notin dirty /\ MutateApply(m)
  BY <1>1, <1>2, MutateApplyInv
<1>3. CASE /\ mut[m].tries < Retries /\ mut' = [mut EXCEPT ![m].pc = "watch"]
           /\ UNCHANGED <<inode, blobs, lease, allocated, dirty, voided, held>>
  <2>1. /\ mut' \in [Mutator -> MutState]
        /\ \A k \in Mutator \ {m} : mut'[k] = mut[k]
        /\ mut'[m].pc = "watch" /\ mut'[m].req = mut[m].req /\ mut'[m].tries = mut[m].tries
    BY <1>3 DEF TypeOK, MutState, MutPC
  <2>2. MutWatched(m)
    BY DEF IInv, Watched
  <2>3. MutWatched(m)'
    BY <1>1, <1>3, <2>1, <2>2 DEF MutWatched
  <2>. QED
    BY <1>1, <1>3, <2>1, <2>3, MutMoves
<1>4. CASE /\ Finish(m, "EAGAIN")
           /\ UNCHANGED <<inode, blobs, lease, allocated, dirty, voided, held>>
  BY <1>1, <1>4, FinishMoves, MutMoves DEF MutOut
<1>. QED
  BY <1>1, <1>2, <1>3, <1>4 DEF MutateExec

LEMMA UnlinkInv ==
  ASSUME IInv, NEW f \in File, Unlink(f)
  PROVE  IInv'
<1>. TypeOK
  BY DEF IInv
<1>1. /\ linked' = linked \ {f}
      /\ inode' = [inode EXCEPT ![f] = Gone]
      /\ dirty' = dirty \union (IF Present(f) THEN WatchingInode(f) ELSE {})
      /\ UNCHANGED <<blobs, lease, allocated, job, late, mut, touch, voided, held>>
  BY DEF Unlink
<1>2. /\ inode'[f] = Gone /\ \A g \in File \ {f} : inode'[g] = inode[g]
      /\ inode' \in [File -> Hash \union {Gone}]
  BY <1>1 DEF TypeOK
<1>3. TypeOK'
  BY <1>1, <1>2 DEF TypeOK, WatchingInode
<1>4. ContentAgrees' /\ HeldIsCurrent'
  BY <1>1, <1>2 DEF IInv, ContentAgrees, HeldIsCurrent, Present, HasContent, ReadsEmpty
<1>5. LeaseExclusive' /\ ResultWasHeld' /\ Owners' /\ TextReady'
  BY <1>1 DEF IInv, LeaseExclusive, ResultWasHeld, Owners, TextReady
<1>6. Watched'
  <2>1. ASSUME NEW k \in Job
        PROVE  JobWatched(k)'
    <3>1. job[k].pc = "exec" /\ k \notin dirty' => inode'[job[k].file] = inode[job[k].file]
      BY <1>1, <1>2 DEF WatchingInode, Present, TypeOK, JobState
    <3>. QED
      BY <1>1, <3>1, JobStillWatched
  <2>2. ASSUME NEW m \in Mutator
        PROVE  MutWatched(m)'
    <3>1. mut[m].pc \in {"budget", "exec"} /\ m \notin dirty' =>
            inode'[mut[m].file] = inode[mut[m].file]
      BY <1>1, <1>2 DEF WatchingInode, Present, TypeOK, MutState
    <3>. QED
      BY <1>1, <3>1, MutStillWatched
  <2>. QED
    BY <2>1, <2>2 DEF Watched
<1>. QED
  BY <1>1, <1>3, <1>4, <1>5, <1>6 DEF IInv

LEMMA ChmodResolveInv ==
  ASSUME IInv, NEW t \in Toucher, NEW f \in File, ChmodResolve(t, f)
  PROVE  IInv'
<1>1. TypeOK'
  BY DEF IInv, TypeOK, TouchState, ChmodResolve
<1>. QED
  BY <1>1, FrameInv DEF ChmodResolve

LEMMA ChmodSetInv ==
  ASSUME IInv, NEW t \in Toucher, ChmodSet(t)
  PROVE  IInv'
<1>. TypeOK
  BY DEF IInv
<1>. DEFINE f == touch[t].file
            h == NewHash("runtime", "none")
<1>1. /\ f \in File /\ touch' = [touch EXCEPT ![t].pc = "done"]
      /\ dirty' = dirty \union WatchingInode(f)
      /\ UNCHANGED <<linked, blobs, lease, allocated, job, late, mut, voided>>
  BY DEF ChmodSet, TypeOK, TouchState
<1>2. touch' \in [Toucher -> TouchState] /\ dirty' \subseteq Job \union Mutator
  BY <1>1 DEF TypeOK, TouchState, WatchingInode
<1>3. CASE Present(f) /\ UNCHANGED <<inode, held>>
  <2>1. TypeOK'
    BY <1>1, <1>2, <1>3 DEF TypeOK
  <2>2. Watched'
    BY <1>1, <1>3, JobStillWatched, MutStillWatched DEF Watched
  <2>3. ContentAgrees' /\ HeldIsCurrent' /\ LeaseExclusive' /\ ResultWasHeld' /\ Owners'
        /\ TextReady'
    BY <1>1, <1>3 DEF IInv, ContentAgrees, HeldIsCurrent, Present, HasContent, ReadsEmpty,
                      LeaseExclusive, ResultWasHeld, Owners, TextReady
  <2>. QED
    BY <1>1, <2>1, <2>2, <2>3 DEF IInv
<1>4. CASE /\ ~Present(f) /\ inode' = [inode EXCEPT ![f] = h]
           /\ held' = [held EXCEPT ![f] = @ \union {<<>>}]
  <2>1. /\ h \in Hash /\ h.hash = NoContent /\ h.state = "none" /\ h.rev = 0
        /\ h.class = "runtime"
    BY DEF NewHash, Hash
  <2>2. /\ inode'[f] = h /\ \A g \in File \ {f} : inode'[g] = inode[g]
        /\ inode' \in [File -> Hash \union {Gone}]
    BY <1>1, <1>4, <2>1 DEF TypeOK
  <2>3. /\ held' \in [File -> SUBSET Content]
        /\ <<>> \in held'[f] /\ \A g \in File : held[g] \subseteq held'[g]
    BY <1>1, <1>4, EmptyIsContent DEF TypeOK
  <2>4. TypeOK'
    BY <1>1, <1>2, <2>2, <2>3 DEF TypeOK
  <2>5. ContentAgrees'
    <3>1. ASSUME NEW g \in File, Present(g)'
          PROVE  /\ (inode'[g].hash # NoContent) <=> (inode'[g].state \in {"generated", "written"})
                 /\ inode'[g].hash # NoContent => inode'[g].hash \in blobs'
                 /\ (inode'[g].rev > 0) <=> (inode'[g].state = "written")
      <4>1. CASE g = f
        BY <4>1, <2>1, <2>2
      <4>2. CASE g # f
        BY <1>1, <3>1, <4>2, <2>2 DEF IInv, ContentAgrees, Present
      <4>. QED
        BY <4>1, <4>2
    <3>. QED
      BY <3>1 DEF ContentAgrees
  <2>6. HeldIsCurrent'
    <3>1. ASSUME NEW g \in File, Present(g)'
          PROVE  /\ HasContent(g)' => inode'[g].hash \in held'[g]
                 /\ ReadsEmpty(inode'[g]) => <<>> \in held'[g]
      <4>1. CASE g = f
        BY <4>1, <2>1, <2>2, <2>3 DEF HasContent
      <4>2. CASE g # f
        BY <3>1, <4>2, <2>2, <2>3 DEF IInv, HeldIsCurrent, Present, HasContent
      <4>. QED
        BY <4>1, <4>2
    <3>. QED
      BY <3>1 DEF HeldIsCurrent
  <2>7. LeaseExclusive' /\ Owners' /\ TextReady'
    BY <1>1 DEF IInv, LeaseExclusive, Owners, TextReady
  <2>8. ResultWasHeld'
    BY <1>1, <2>3 DEF IInv, ResultWasHeld, TypeOK, JobState
  <2>9. Watched'
    <3>1. ASSUME NEW k \in Job
          PROVE  JobWatched(k)'
      BY <1>1, <2>2, JobStillWatched DEF WatchingInode, TypeOK, JobState
    <3>2. ASSUME NEW m \in Mutator
          PROVE  MutWatched(m)'
      BY <1>1, <2>2, MutStillWatched DEF WatchingInode, TypeOK, MutState
    <3>. QED
      BY <3>1, <3>2 DEF Watched
  <2>. QED
    BY <1>1, <2>4, <2>5, <2>6, <2>7, <2>8, <2>9 DEF IInv
<1>. QED
  BY <1>3, <1>4 DEF ChmodSet

LEMMA InitInv == Init => IInv
<1>. SUFFICES ASSUME Init PROVE IInv
  OBVIOUS
<1>1. TypeOK
  BY InitTypeOK
<1>2. /\ \A j \in Job : job[j].pc = "idle" /\ job[j].out = NoContent
      /\ \A m \in Mutator : mut[m].pc = "idle" /\ mut[m].tries = 0
      /\ \A f \in File : lease[f] = NoOwner
      /\ allocated = 0 /\ voided = {} /\ blobs = {}
  BY DEF Init
<1>3. \A f \in File : /\ inode[f].hash = NoContent /\ inode[f].rev = 0
                      /\ inode[f].state \notin {"generated", "written"}
                      /\ held[f] = IF ReadsEmpty(inode[f]) THEN {<<>>} ELSE {}
  BY DEF Init, NewHash, ManifestState
<1>4. ContentAgrees /\ HeldIsCurrent
  BY <1>3 DEF ContentAgrees, HeldIsCurrent, Present, HasContent
<1>5. LeaseExclusive /\ ResultWasHeld /\ TextReady
  BY <1>2 DEF LeaseExclusive, ResultWasHeld, TextReady
<1>6. Owners
  BY <1>2, ConstantsOK DEF Owners
<1>7. Watched
  BY <1>2, ConstantsOK DEF Watched, JobWatched, MutWatched
<1>. QED
  BY <1>1, <1>2, <1>4, <1>5, <1>6, <1>7, ConstantsOK DEF IInv

LEMMA StutterInv == IInv /\ UNCHANGED vars => IInv'
<1>. SUFFICES ASSUME IInv, UNCHANGED vars PROVE IInv'
  OBVIOUS
<1>1. TypeOK'
  BY DEF IInv, TypeOK, vars
<1>. QED
  BY <1>1, FrameInv DEF vars

LEMMA NextInv == IInv /\ [Next]_vars => IInv'
<1>. SUFFICES ASSUME IInv, [Next]_vars PROVE IInv'
  OBVIOUS
<1>1. CASE \E j \in Job : JobStep(j) \/ Deadline(j) \/ Fail(j) \/ Crash(j)
  <2>1. ASSUME NEW j \in Job, Deadline(j) PROVE IInv'
    <3>1. TypeOK'
      BY <2>1 DEF Deadline, IInv, TypeOK
    <3>. QED
      BY <2>1, <3>1, FrameInv DEF Deadline
  <2>. QED
    BY <1>1, <2>1, ClaimInv, PollInv, ReadMetaInv, GenerateInv, CommitWatchInv,
       CommitExecInv, ReleaseInv, FailInv, CrashInv DEF JobStep
<1>2. CASE \E j \in Job, f \in File : Submit(j, f)
  BY <1>2, SubmitInv
<1>3. CASE \E f \in File : Expire(f) \/ Unlink(f)
  BY <1>3, ExpireInv, UnlinkInv
<1>4. CASE \E m \in Mutator : MutStep(m)
  BY <1>4, MutateWatchInv, MutateBudgetInv, MutateExecInv DEF MutStep
<1>5. CASE \E m \in Mutator, f \in File, r \in Request : MutateCall(m, f, r)
  BY <1>5, MutateCallInv
<1>6. CASE \E t \in Toucher : ChmodSet(t) \/ \E f \in File : ChmodResolve(t, f)
  BY <1>6, ChmodSetInv, ChmodResolveInv
<1>7. CASE Quiescent \/ UNCHANGED vars
  BY <1>7, StutterInv DEF Quiescent
<1>. QED
  BY <1>1, <1>2, <1>3, <1>4, <1>5, <1>6, <1>7 DEF Next

------------------------------------------------------------------------------
(* The theorems.                                                            *)

\* IInv holds in every reachable state, for any number of files, jobs, writers
\* and retries, any limits and any generated texts.
THEOREM Invariance == Spec => []IInv
<1>. QED
  BY InitInv, NextInv, PTL DEF Spec

\* Every variable keeps its type.
THEOREM TypeCorrect == Spec => []TypeOK
<1>1. IInv => TypeOK
  BY DEF IInv
<1>. QED
  BY <1>1, Invariance, PTL

\* content_hash, content_state, content_rev and the blob store always agree: no
\* interleaving of writes, commits, removals and chmods makes read_blob fail.
THEOREM ContentAlwaysAgrees == Spec => []ContentAgrees
<1>1. IInv => ContentAgrees
  BY DEF IInv
<1>. QED
  BY <1>1, Invariance, PTL

\* The generation lease is exclusive, whoever dies, however late the TTL fires.
THEOREM LeaseIsALock == Spec => []LeaseExclusive
<1>1. IInv => LeaseExclusive
  BY DEF IInv
<1>. QED
  BY <1>1, Invariance, PTL

\* A reader is never given text that lost a race: what _resolve returns is a
\* content the file has had.
THEOREM NoPhantomContent == Spec => []ResultWasHeld
<1>1. IInv => ResultWasHeld
  BY DEF IInv
<1>. QED
  BY <1>1, Invariance, PTL

\* The bytes a session is charged for never exceed its budget.
THEOREM BudgetBounded == Spec => [](allocated <= MaxBytes)
<1>1. IInv => allocated <= MaxBytes
  BY DEF IInv
<1>. QED
  BY <1>1, Invariance, PTL

\* The two steps that store bytes, with what holds when they are taken.
StoresText(j, f) ==
  /\ f = job[j].file /\ job[j].pc = "exec" /\ lease[f] = j
  /\ Present(f) /\ ~HasContent(f) /\ job[j].text \in Generated
  /\ inode' = [inode EXCEPT ![f].hash = job[j].text, ![f].state = "generated"]
  /\ UNCHANGED allocated
StoresWrite(m, f) ==
  LET new == Mutated(Bytes(f), mut[m].req, m) IN
  /\ Present(f) /\ mut[m].req \in Request /\ End(mut[m].req) <= MaxFile
  /\ allocated + Len(new) <= MaxBytes
  /\ allocated' = allocated + Len(new)
  /\ inode' = [inode EXCEPT ![f].hash = new, ![f].state = "written", ![f].rev = @ + 1]

\* What a step may do to the hashes of files and to the budget: a commit, a
\* mutation, a removal or a late chmod changes one file, all other steps none.
LEMMA InodeSteps ==
  ASSUME IInv, [Next]_vars
  PROVE  \/ UNCHANGED <<inode, allocated>>
         \/ \E j \in Job, f \in File : StoresText(j, f)
         \/ \E m \in Mutator, f \in File : StoresWrite(m, f)
         \/ \E f \in File : inode' = [inode EXCEPT ![f] = Gone] /\ UNCHANGED allocated
         \/ \E f \in File : /\ ~Present(f) /\ UNCHANGED allocated
                            /\ inode' = [inode EXCEPT ![f] = NewHash("runtime", "none")]
<1>. TypeOK
  BY DEF IInv
<1>1. ASSUME NEW j \in Job, CommitExec(j)
      PROVE  UNCHANGED <<inode, allocated>> \/ StoresText(j, job[j].file)
  <2>1. job[j].file \in File /\ UNCHANGED <<allocated, lease>>
    BY <1>1 DEF CommitExec, TypeOK, JobState
  <2>2. CASE j \in dirty
    BY <1>1, <2>1, <2>2 DEF CommitExec
  <2>3. CASE j \notin dirty
    <3>1. Fenced(j) /\ job[j].pc = "exec" /\ job[j].text \in Generated
      BY <1>1, <2>3 DEF CommitExec, IInv, Watched, JobWatched, TextReady
    <3>2. inode' = [inode EXCEPT ![job[j].file].hash = job[j].text,
                                 ![job[j].file].state = "generated"]
      BY <1>1, <2>3 DEF CommitExec
    <3>. QED
      BY <2>1, <3>1, <3>2 DEF StoresText, Fenced
  <2>. QED
    BY <2>2, <2>3
<1>2. ASSUME NEW m \in Mutator, MutateExec(m)
      PROVE  UNCHANGED <<inode, allocated>> \/ StoresWrite(m, mut[m].file)
  <2>1. CASE m \in dirty
    BY <1>2, <2>1 DEF MutateExec
  <2>2. CASE m \notin dirty
    <3>1. MutWatched(m) /\ mut[m].pc = "exec"
      BY <1>2 DEF IInv, Watched, MutateExec
    <3>2. MutateApply(m)
      BY <1>2, <2>2 DEF MutateExec
    <3>. QED
      BY <2>2, <3>1, <3>2 DEF StoresWrite, MutWatched, MutateApply, NewBytes
  <2>. QED
    BY <2>1, <2>2
<1>3. ASSUME NEW j \in Job, JobStep(j) \/ Deadline(j) \/ Fail(j) \/ Crash(j), ~CommitExec(j)
      PROVE  UNCHANGED <<inode, allocated>>
  BY <1>3 DEF JobStep, Claim, Poll, ReadMeta, Generate, CommitWatch, Release, Deadline,
              Fail, Crash
<1>4. CASE \E j \in Job : JobStep(j) \/ Deadline(j) \/ Fail(j) \/ Crash(j)
  <2>1. PICK j \in Job : JobStep(j) \/ Deadline(j) \/ Fail(j) \/ Crash(j)
    BY <1>4
  <2>2. job[j].file \in File
    BY DEF TypeOK, JobState
  <2>. QED
    BY <1>1, <1>3, <2>1, <2>2
<1>5. CASE \E m \in Mutator : MutStep(m)
  <2>1. PICK m \in Mutator : MutStep(m)
    BY <1>5
  <2>2. mut[m].file \in File
    BY DEF TypeOK, MutState
  <2>3. CASE MutateWatch(m) \/ MutateBudget(m)
    BY <2>3 DEF MutateWatch, MutateBudget
  <2>. QED
    BY <1>2, <2>1, <2>2, <2>3 DEF MutStep
<1>6. CASE \E j \in Job, f \in File : Submit(j, f)
  BY <1>6 DEF Submit
<1>7. CASE \E f \in File : Expire(f) \/ Unlink(f)
  BY <1>7 DEF Expire, Unlink
<1>8. CASE \E m \in Mutator, f \in File, r \in Request : MutateCall(m, f, r)
  BY <1>8 DEF MutateCall
<1>9. CASE \E t \in Toucher : ChmodSet(t) \/ \E f \in File : ChmodResolve(t, f)
  BY <1>9 DEF ChmodSet, ChmodResolve, TypeOK, TouchState
<1>10. CASE Quiescent \/ UNCHANGED vars
  BY <1>10 DEF Quiescent, vars
<1>. QED
  BY <1>4, <1>5, <1>6, <1>7, <1>8, <1>9, <1>10 DEF Next

\* Generated text is committed by the owner of the lease, and only as a first
\* content.
THEOREM CommitsAreOwned == Spec => CommitsOwned
<1>. DEFINE Owned(f) ==
       /\ inode'[f] # Gone /\ inode'[f] # inode[f] /\ inode'[f].state = "generated"
       => /\ Present(f) /\ ~HasContent(f)
          /\ \E j \in Job : lease[f] = j /\ job[j].file = f /\ job[j].pc = "exec"
<1>1. ASSUME IInv, [Next]_vars, NEW g \in File PROVE Owned(g)
  <2>. TypeOK
    BY <1>1 DEF IInv
  <2>1. CASE UNCHANGED <<inode, allocated>>
    BY <2>1
  <2>2. ASSUME NEW j \in Job, NEW f \in File, StoresText(j, f) PROVE Owned(g)
    BY <2>2 DEF StoresText, TypeOK
  <2>3. ASSUME NEW m \in Mutator, NEW f \in File, StoresWrite(m, f) PROVE Owned(g)
    <3>1. CASE g = f
      <4>1. inode[f] \in Hash
        BY <2>3 DEF StoresWrite, Present, TypeOK
      <4>2. inode'[f].state = "written"
        BY <2>3, <4>1 DEF StoresWrite, TypeOK, Hash
      <4>. QED
        BY <3>1, <4>2
    <3>2. CASE g # f
      BY <2>3, <3>2 DEF StoresWrite, TypeOK
    <3>. QED
      BY <3>1, <3>2
  <2>4. ASSUME NEW f \in File, inode' = [inode EXCEPT ![f] = Gone] PROVE Owned(g)
    BY <2>4 DEF TypeOK
  <2>5. ASSUME NEW f \in File, inode' = [inode EXCEPT ![f] = NewHash("runtime", "none")]
        PROVE  Owned(g)
    BY <2>5 DEF TypeOK, NewHash
  <2>. QED
    BY <1>1, <2>1, <2>2, <2>3, <2>4, <2>5, InodeSteps
<1>2. IInv /\ [Next]_vars => [\A f \in File : Owned(f)]_vars
  BY <1>1
<1>. QED
  BY <1>2, Invariance, PTL DEF Spec, CommitsOwned

\* The bytes writers have in the files, and their sum, for the inodes of any state.
WrittenIn(nodes, f) ==
  IF nodes[f] # Gone /\ nodes[f].state = "written" THEN Len(nodes[f].hash) ELSE 0
WrittenAt(nodes) == [f \in File |-> WrittenIn(nodes, f)]
Total(nodes) == LET Written(f) == WrittenIn(nodes, f) IN MapThenSumSet(Written, File)

\* The sum unfolds, one file after the other.
LEMMA TotalAdds ==
  ASSUME NEW nodes
  PROVE  \E it : Adds(WrittenAt(nodes), File, it) /\ Total(nodes) = it[File]
<1>. DEFINE Term(s, it) == IF s = {} THEN 0 ELSE WrittenIn(nodes, First(s)) + it[s \ {First(s)}]
            Is(it) == it = [s \in SUBSET File |-> Term(s, it)]
<1>1. ASSUME NEW it PROVE Is(it) <=> Adds(WrittenAt(nodes), File, it)
  <2>1. ASSUME NEW s \in SUBSET File, s # {}
        PROVE  WrittenAt(nodes)[First(s)] = WrittenIn(nodes, First(s))
    <3>1. First(s) \in File
      BY <2>1, FirstOf, ConstantsOK
    <3>. QED
      BY <3>1 DEF WrittenAt
  <2>2. \A s \in SUBSET File :
          Term(s, it) = IF s = {} THEN 0
                        ELSE WrittenAt(nodes)[First(s)] + it[s \ {First(s)}]
    BY <2>1
  <2>3. [s \in SUBSET File |-> Term(s, it)] =
          [s \in SUBSET File |-> IF s = {} THEN 0
                                 ELSE WrittenAt(nodes)[First(s)] + it[s \ {First(s)}]]
    BY <2>2
  <2>. QED
    BY <2>3 DEF Adds
<1>f. IsFiniteSet(File)
  BY ConstantsOK
<1>2. PICK it : Adds(WrittenAt(nodes), File, it)
  BY <1>f, AddsExists
<1>3. Total(nodes) = (CHOOSE x : Is(x))[File]
  BY DEF Total, MapThenSumSet, MapThenFoldSet, First
<1>. HIDE DEF Is
<1>5. Is(it)
  BY <1>1, <1>2
<1>4. Is(CHOOSE x : Is(x))
  BY <1>5
<1>. QED
  BY <1>1, <1>3, <1>4

\* BudgetCovers in terms of Total ...
LEMMA CoversNow == BudgetCovers <=> allocated <= MaxBytes /\ Total(inode) <= allocated
BY DEF BudgetCovers, Total, WrittenIn, Present

\* ... and in the next state.
LEMMA CoversNext == BudgetCovers' <=> allocated' <= MaxBytes /\ Total(inode') <= allocated'
BY DEF BudgetCovers, Total, WrittenIn, Present, MapThenSumSet, MapThenFoldSet

\* The sum when the bytes of one file grow by at most k and those of no other.
LEMMA TotalBound ==
  ASSUME NEW old \in [File -> Hash \union {Gone}], NEW new \in [File -> Hash \union {Gone}],
         \A f \in File : old[f] # Gone /\ old[f].state = "written" => old[f].hash \in Content,
         \A f \in File : new[f] # Gone /\ new[f].state = "written" => new[f].hash \in Content,
         NEW g \in File, NEW k \in Nat, \A f \in File \ {g} : new[f] = old[f],
         WrittenIn(new, g) <= WrittenIn(old, g) + k
  PROVE  Total(old) \in Nat /\ Total(new) \in Nat /\ Total(new) <= Total(old) + k
<1>1. WrittenAt(old) \in [File -> Nat] /\ WrittenAt(new) \in [File -> Nat]
  BY LenOfContent DEF WrittenAt, WrittenIn
<1>2. \A f \in File : IF f = g THEN WrittenAt(new)[f] <= WrittenAt(old)[f] + k
                      ELSE WrittenAt(new)[f] <= WrittenAt(old)[f]
  <2>1. \A f \in File : /\ WrittenAt(old)[f] = WrittenIn(old, f) /\ WrittenIn(old, f) \in Nat
                        /\ WrittenAt(new)[f] = WrittenIn(new, f)
    BY <1>1 DEF WrittenAt
  <2>2. \A f \in File \ {g} : WrittenIn(new, f) = WrittenIn(old, f)
    BY DEF WrittenIn
  <2>. QED
    BY <2>1, <2>2
<1>3. PICK it : Adds(WrittenAt(old), File, it) /\ Total(old) = it[File]
  BY TotalAdds
<1>4. PICK jt : Adds(WrittenAt(new), File, jt) /\ Total(new) = jt[File]
  BY TotalAdds
<1>5. IsFiniteSet(File)
  BY ConstantsOK
<1>6. it[File] \in Nat /\ jt[File] \in Nat /\ jt[File] <= it[File] + k
  <2>. DEFINE w == WrittenAt(old)
              v == WrittenAt(new)
  <2>1. /\ w \in [File -> Nat] /\ v \in [File -> Nat]
        /\ \A f \in File : IF f = g THEN v[f] <= w[f] + k ELSE v[f] <= w[f]
        /\ Adds(w, File, it) /\ Adds(v, File, jt)
    BY <1>1, <1>2, <1>3, <1>4
  <2>. HIDE DEF w, v
  <2>. QED
    BY <1>5, <2>1, AddsBound
<1>. QED
  BY <1>3, <1>4, <1>6

\* Nothing is written at first.
LEMMA InitCovers == Init => BudgetCovers
<1>. SUFFICES ASSUME Init PROVE BudgetCovers
  OBVIOUS
<1>1. TypeOK
  BY InitTypeOK
<1>2. \A f \in File : WrittenIn(inode, f) = 0
  BY DEF Init, NewHash, ManifestState, WrittenIn
<1>3. PICK it : Adds(WrittenAt(inode), File, it) /\ Total(inode) = it[File]
  BY TotalAdds
<1>4. WrittenAt(inode) = [f \in File |-> 0]
  BY <1>2 DEF WrittenAt
<1>5. Adds([f \in File |-> 0], File, [s \in SUBSET File |-> 0])
  <2>1. ASSUME NEW s \in SUBSET File, s # {}
        PROVE  0 = [f \in File |-> 0][First(s)] + [t \in SUBSET File |-> 0][s \ {First(s)}]
    <3>1. First(s) \in File /\ s \ {First(s)} \in SUBSET File
      BY <2>1, FirstOf, ConstantsOK
    <3>. QED
      BY <3>1
  <2>. QED
    BY <2>1 DEF Adds
<1>6. it[File] <= [s \in SUBSET File |-> 0][File] + 0
  <2>. DEFINE w == [f \in File |-> 0]
              z == [s \in SUBSET File |-> 0]
  <2>1. PICK g \in File : TRUE
    BY ConstantsOK
  <2>2. /\ w \in [File -> Nat] /\ \A f \in File : w[f] = 0
        /\ Adds(w, File, z) /\ Adds(w, File, it)
    BY <1>3, <1>4, <1>5
  <2>3. \A f \in File : IF f = g THEN w[f] <= w[f] + 0 ELSE w[f] <= w[f]
    BY <2>2
  <2>4. IsFiniteSet(File) /\ 0 \in Nat
    BY ConstantsOK
  <2>5. it[File] <= z[File] + 0
    <3>. HIDE DEF w, z
    <3>. QED
      BY <2>2, <2>3, <2>4, AddsBound
  <2>. QED
    BY <2>5
<1>7. it[File] <= 0
  BY <1>6
<1>. QED
  BY <1>3, <1>7, CoversNow, ConstantsOK DEF Init

\* Only a mutation adds bytes, and it pays for all it leaves in its file.
LEMMA StepCovers == IInv /\ BudgetCovers /\ [Next]_vars => BudgetCovers'
<1>. SUFFICES ASSUME IInv, BudgetCovers, [Next]_vars PROVE BudgetCovers'
  OBVIOUS
<1>t. /\ TypeOK /\ ContentAgrees /\ TypeOK' /\ ContentAgrees'
      /\ allocated \in Nat /\ allocated' \in Nat /\ MaxBytes \in Nat
      /\ inode \in [File -> Hash \union {Gone}] /\ inode' \in [File -> Hash \union {Gone}]
  BY NextInv, ConstantsOK DEF IInv, TypeOK
<1>c. /\ \A f \in File : inode[f] # Gone /\ inode[f].state = "written" => inode[f].hash \in Content
      /\ \A f \in File : inode'[f] # Gone /\ inode'[f].state = "written" => inode'[f].hash \in Content
  BY <1>t DEF TypeOK, ContentAgrees, Present, Hash
<1>0. allocated <= MaxBytes /\ Total(inode) <= allocated
  BY CoversNow
<1>1. ASSUME NEW g \in File, NEW k \in Nat, allocated' = allocated + k, allocated' <= MaxBytes,
             \A f \in File \ {g} : inode'[f] = inode[f],
             WrittenIn(inode', g) <= WrittenIn(inode, g) + k
      PROVE  BudgetCovers'
  <2>1. /\ Total(inode) \in Nat /\ Total(inode') \in Nat
        /\ Total(inode') <= Total(inode) + k
    BY <1>1, <1>t, <1>c, TotalBound
  <2>. QED
    BY <1>0, <1>1, <1>t, <2>1, CoversNext
<1>w. \A f \in File : WrittenIn(inode, f) \in Nat /\ WrittenIn(inode', f) \in Nat
  BY <1>c, LenOfContent DEF WrittenIn
<1>2. CASE UNCHANGED <<inode, allocated>>
  BY <1>0, <1>2, CoversNext
<1>3. ASSUME NEW g \in File, allocated' = allocated, \A f \in File \ {g} : inode'[f] = inode[f],
             WrittenIn(inode', g) = 0
      PROVE  BudgetCovers'
  <2>1. /\ allocated' = allocated + 0 /\ allocated' <= MaxBytes
        /\ WrittenIn(inode', g) <= WrittenIn(inode, g) + 0
    BY <1>0, <1>3, <1>t, <1>w
  <2>. QED
    BY <1>1, <1>3, <2>1
<1>4. ASSUME NEW j \in Job, NEW f \in File, StoresText(j, f) PROVE BudgetCovers'
  <2>1. inode' = [inode EXCEPT ![f].hash = job[j].text, ![f].state = "generated"]
    BY <1>4 DEF StoresText
  <2>2. inode'[f].state = "generated" /\ \A g \in File \ {f} : inode'[g] = inode[g]
    BY <1>4, <1>t, <2>1 DEF StoresText, Present, Hash
  <2>. QED
    BY <1>3, <1>4, <2>2 DEF StoresText, WrittenIn
<1>5. ASSUME NEW m \in Mutator, NEW f \in File, StoresWrite(m, f) PROVE BudgetCovers'
  <2>. DEFINE new == Mutated(Bytes(f), mut[m].req, m)
  <2>1. /\ inode' = [inode EXCEPT ![f].hash = new, ![f].state = "written", ![f].rev = @ + 1]
        /\ allocated' = allocated + Len(new) /\ allocated + Len(new) <= MaxBytes /\ Present(f)
    BY <1>5 DEF StoresWrite
  <2>2. inode'[f].hash = new /\ \A g \in File \ {f} : inode'[g] = inode[g]
    <3>. HIDE DEF new
    <3>. QED
      BY <1>t, <2>1 DEF Present, Hash
  <2>3. inode'[f] # Gone /\ inode'[f].state = "written"
    <3>1. inode[f] \in Hash
      BY <1>t, <2>1 DEF Present
    <3>2. inode'[f] = [inode[f] EXCEPT !.hash = new, !.state = "written", !.rev = @ + 1]
      <4>. HIDE DEF new
      <4>1. f \in DOMAIN inode
        BY <1>t
      <4>2. inode'[f] = [inode EXCEPT ![f].hash = new, ![f].state = "written", ![f].rev = @ + 1][f]
        BY <2>1
      <4>. QED
        BY <4>1, <4>2
    <3>3. inode'[f].rev = inode[f].rev + 1 /\ inode'[f].state = "written"
      <4>. HIDE DEF new
      <4>. QED
        BY <3>1, <3>2 DEF Hash
    <3>4. inode'[f].hash \in Content
      <4>1. Bytes(f) \in Content
        BY <3>1, EmptyIsContent, <2>1 DEF Bytes, HasContent, Hash
      <4>. QED
        BY <1>5, <2>2, <4>1, MutatedContent DEF StoresWrite
    <3>5. inode'[f] \in Hash
      <4>1. new \in Content /\ inode[f].rev + 1 \in Nat
        BY <2>2, <3>1, <3>4 DEF Hash
      <4>. HIDE DEF new
      <4>. DEFINE h == [hash |-> new, rev |-> inode[f].rev + 1, state |-> "written",
                        class |-> inode[f].class]
      <4>2. inode'[f] = h
        BY <3>1, <3>2 DEF Hash
      <4>3. inode[f].class \in Generable \union {"static", "runtime"}
        BY <3>1 DEF Hash
      <4>4. h \in Hash
        BY <4>1, <4>3 DEF Hash
      <4>. HIDE DEF h
      <4>. QED
        BY <4>2, <4>4
    <3>. QED
      BY <3>3, <3>5, GoneOK
  <2>4. Len(new) \in Nat /\ WrittenIn(inode', f) = Len(new)
    <3>1. WrittenIn(inode', f) = Len(new)
      BY <2>2, <2>3 DEF WrittenIn
    <3>. QED
      BY <1>w, <3>1
  <2>5. allocated' <= MaxBytes /\ WrittenIn(inode', f) <= WrittenIn(inode, f) + Len(new)
    BY <1>w, <2>1, <2>4
  <2>. HIDE DEF new
  <2>. QED
    BY <1>1, <2>1, <2>2, <2>4, <2>5
<1>6. ASSUME NEW f \in File, inode' = [inode EXCEPT ![f] = Gone], UNCHANGED allocated
      PROVE  BudgetCovers'
  BY <1>3, <1>6, <1>t DEF WrittenIn
<1>7. ASSUME NEW f \in File, ~Present(f), UNCHANGED allocated,
             inode' = [inode EXCEPT ![f] = NewHash("runtime", "none")]
      PROVE  BudgetCovers'
  BY <1>3, <1>7, <1>t DEF WrittenIn, NewHash
<1>. QED
  BY <1>2, <1>4, <1>5, <1>6, <1>7, InodeSteps

\* The budget pays for every byte writers have in the files of the session, and it is
\* never exceeded.
THEOREM BudgetAlwaysCovers == Spec => []BudgetCovers
<1>. DEFINE I == IInv /\ BudgetCovers
<1>1. Init => I
  BY InitInv, InitCovers
<1>2. I /\ [Next]_vars => I'
  BY NextInv, StepCovers
<1>3. I => BudgetCovers
  OBVIOUS
<1>. QED
  BY <1>1, <1>2, <1>3, PTL DEF Spec

\* The value the register has for file g in this state.
Seen(g) == IF inode[g] = Gone THEN Gone ELSE inode[g].hash
AllSeen == [f \in File |-> Seen(f)]

\* A step that changes at most the hash of f changes at most the register's f.
LEMMA SeenMoves ==
  ASSUME NEW f \in File, \A g \in File \ {f} : inode'[g] = inode[g]
  PROVE  AllSeen' = [AllSeen EXCEPT ![f] = Seen(f)']
BY DEF AllSeen, Seen

\* The store of files implements the atomic register per file: every step is one
\* register operation or invisible, so no update is ever lost or half applied.
THEOREM Refinement == Spec => ImplementsRegister
<1>. USE DEF Register!vars
<1>1. ASSUME Init PROVE Register!Init
  <2>1. \A f \in File : inode[f] # Gone /\ inode[f].hash = NoContent
    <3>1. TypeOK
      BY <1>1, InitTypeOK
    <3>2. \A f \in File : inode[f] = NewHash(ManifestClass[f], ManifestState(ManifestClass[f]))
      BY <1>1 DEF Init
    <3>3. ASSUME NEW f \in File
          PROVE  inode[f] \in Hash /\ inode[f].hash = NoContent
      <4>1. /\ ManifestClass[f] \in Generable \union {"static", "runtime"}
            /\ ManifestState(ManifestClass[f]) \in {"none", "static", "missing"}
        BY ConstantsOK DEF ManifestState
      <4>. QED
        BY <3>2, <4>1, NewHashIsHash
    <3>. QED
      BY <3>3, GoneOK
  <2>. QED
    BY <1>1, <2>1 DEF Init, Register!Init
<1>2. ASSUME IInv, [Next]_vars PROVE [Register!Next]_(Register!vars)
  <2>. TypeOK
    BY <1>2 DEF IInv
  <2>1. CASE UNCHANGED <<inode, allocated>>
    BY <2>1
  <2>2. ASSUME NEW j \in Job, NEW f \in File, StoresText(j, f)
        PROVE  Register!Fill(f)
    <3>1. inode[f] \in Hash /\ Seen(f) = NoContent
      BY <2>2 DEF StoresText, Present, HasContent, TypeOK, Seen
    <3>2. inode'[f] \in Hash /\ inode'[f].hash = job[j].text
      BY <2>2, <3>1, ConstantsOK DEF StoresText, TypeOK, Hash
    <3>3. AllSeen' = [AllSeen EXCEPT ![f] = job[j].text]
      <4>1. Seen(f)' = job[j].text
        BY <3>2, GoneOK DEF Seen
      <4>2. \A g \in File \ {f} : inode'[g] = inode[g]
        BY <2>2 DEF StoresText, TypeOK
      <4>. QED
        BY <4>1, <4>2, SeenMoves
    <3>. QED
      BY <2>2, <3>1, <3>3 DEF StoresText, Register!Fill, AllSeen, Seen
  <2>3. ASSUME NEW m \in Mutator, NEW f \in File, StoresWrite(m, f),
               NEW r \in Request, r = mut[m].req
        PROVE  Register!Mutate(f, m, r)
    <3>. DEFINE new == Mutated(Bytes(f), r, m)
    <3>1. inode[f] \in Hash /\ Seen(f) # Gone
          /\ Bytes(f) = IF Seen(f) = NoContent THEN <<>> ELSE Seen(f)
      BY <2>3, ConstantsOK DEF StoresWrite, Present, HasContent, Bytes, TypeOK, Seen, Hash
    <3>2. new \in Content
      <4>1. Bytes(f) \in Content
        BY <3>1, EmptyIsContent DEF Seen, Hash
      <4>. QED
        BY <2>3, <4>1, MutatedContent DEF StoresWrite
    <3>3. inode'[f] \in Hash /\ inode'[f].hash = new
      BY <2>3, <3>1, <3>2 DEF StoresWrite, TypeOK, Hash
    <3>4. AllSeen' = [AllSeen EXCEPT ![f] = new]
      <4>1. Seen(f)' = new
        BY <3>3, GoneOK DEF Seen
      <4>2. \A g \in File \ {f} : inode'[g] = inode[g]
        BY <2>3 DEF StoresWrite, TypeOK
      <4>. QED
        BY <4>1, <4>2, SeenMoves
    <3>. QED
      BY <2>3, <3>1, <3>4 DEF StoresWrite, Register!Mutate, Register!Old, Register!Mutated,
         Register!NewLength, Register!Longer, Register!End, Mutated, NewLength, Longer, End,
         AllSeen, Seen
  <2>4. ASSUME NEW f \in File, inode' = [inode EXCEPT ![f] = Gone], UNCHANGED allocated
        PROVE  [Register!Next]_(Register!vars)
    <3>1. AllSeen' = [AllSeen EXCEPT ![f] = Gone]
      BY <2>4, SeenMoves DEF Seen, TypeOK
    <3>2. CASE Seen(f) = Gone
      BY <2>4, <3>1, <3>2 DEF AllSeen, Seen
    <3>3. CASE Seen(f) # Gone
      <4>1. Register!Remove(f)
        BY <2>4, <3>1, <3>3 DEF Register!Remove, AllSeen, Seen
      <4>. QED
        BY <4>1 DEF Register!Next
    <3>. QED
      BY <3>2, <3>3
  <2>5. ASSUME NEW f \in File, ~Present(f), UNCHANGED allocated,
               inode' = [inode EXCEPT ![f] = NewHash("runtime", "none")]
        PROVE  Register!Reappear(f)
    <3>1. NewHash("runtime", "none") \in Hash
      BY DEF NewHash, Hash
    <3>2. AllSeen' = [AllSeen EXCEPT ![f] = NoContent]
      BY <2>5, <3>1, SeenMoves, GoneOK DEF Seen, TypeOK, NewHash
    <3>. QED
      BY <2>5, <3>2 DEF Register!Reappear, AllSeen, Seen, Present
  <2>6. CASE \E j \in Job, f \in File : StoresText(j, f)
    BY <2>2, <2>6 DEF Register!Next
  <2>7. CASE \E m \in Mutator, f \in File : StoresWrite(m, f)
    <3>1. PICK m \in Mutator, f \in File : StoresWrite(m, f)
      BY <2>7
    <3>2. PICK r \in Request : r = mut[m].req
      BY <3>1 DEF StoresWrite
    <3>3. Register!Mutate(f, m, r)
      BY <2>3, <3>1, <3>2
    <3>. QED
      BY <3>3 DEF Register!Next
  <2>8. CASE \E f \in File : /\ ~Present(f) /\ UNCHANGED allocated
                            /\ inode' = [inode EXCEPT ![f] = NewHash("runtime", "none")]
    BY <2>5, <2>8 DEF Register!Next
  <2>9. CASE \E f \in File : inode' = [inode EXCEPT ![f] = Gone] /\ UNCHANGED allocated
    BY <2>4, <2>9
  <2>. QED
    BY <1>2, <2>1, <2>6, <2>7, <2>8, <2>9, InodeSteps
<1>. QED
  BY <1>1, <1>2, Invariance, PTL DEF Spec, ImplementsRegister, Register!Spec

=============================================================================
