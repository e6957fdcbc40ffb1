-------------------------------- MODULE FsTree --------------------------------
(***************************************************************************)
(* The directory tree of one namespace as it lives in Redis:               *)
(*   - the four Lua scripts, each of which runs atomically;                *)
(*   - the FUSE callbacks around them, which resolve a path first, run the *)
(*     script on an inode number, and set owner or mode afterwards;        *)
(*   - initialize_filesystem (core/state.py), a long run of single Redis   *)
(*     calls under a lock that expires: it may fail or die anywhere and is *)
(*     resumed by the next caller.                                         *)
(* "." and ".." are not entries here; a directory is empty when no name is *)
(* left in it.  A path is a sequence of names.                             *)
(***************************************************************************)
EXTENDS Integers, Sequences, FiniteSets, SequencesExt

CONSTANTS
  Name,         \* names of directory entries
  Dot,          \* a last component the scripts refuse: "." or ".."
  Manifest,     \* the entries of the profile's manifest, parents first
  MaxInode,     \* the 10000 of the scripts: no inode number beyond it
  Boot,         \* processes that initialize the namespace
  MaxFailures,  \* bound: initializations that fail or die
  Call,         \* FUSE callbacks
  Target,       \* paths the callbacks are called with
  Gone,         \* the inode's hash is absent from Redis
  NoBoot        \* the initialization lock is free

Inode == 1..MaxInode
Root == 1
None == 0       \* a path that does not resolve

\* What a manifest says of one path below the root.
Entry == [path : Seq(Name) \ {<<>>}, kind : {"dir", "file"},
          class : {"ai_backed", "deterministic", "static", "none"}]

ASSUME ConstantsOK ==
  /\ MaxInode \in Nat \ {0} /\ MaxFailures \in Nat
  /\ Dot \notin Name /\ NoBoot \notin Boot
  /\ Manifest \in Seq(Entry)
  /\ Target # {} /\ Target \subseteq Seq(Name \union {Dot}) \ {<<>>}

\* No path is listed twice, and a file has a class ("static" if the manifest names none).
ASSUME ManifestOK ==
  /\ \A j, k \in DOMAIN Manifest : Manifest[j].path = Manifest[k].path => j = k
  /\ \A k \in DOMAIN Manifest : Manifest[k].kind = "file" => Manifest[k].class # "none"

VARIABLES
  node,         \* inode -> its hash, or Gone
  entry,        \* inode -> its directory: name -> inode or None
  next,         \* fs:next_inode, 0 before it exists
  initialized,  \* fs:initialized
  lock,         \* the initialization lock
  boot,         \* initializers
  failures,     \* initializations that failed or died
  call,         \* callbacks
  removed,      \* history: inodes that rmdir or unlink removed
  revived,      \* history: removed inodes that got a mode again
  outlived      \* history: initializers that ran on after their lock expired

vars == <<node, entry, next, initialized, lock, boot, failures, call,
          removed, revived, outlived>>
tree == <<node, entry, next>>

Hash == [kind : {"dir", "file", "none"}, nlink : Int,
         state : {"unset", "missing", "static"},
         class : {"unset", "ai_backed", "deterministic", "static"},
         owned : {"root", "set"}]
ASSUME GoneOK == Gone \notin Hash

NewNode(kind, nlink) ==
  [kind |-> kind, nlink |-> nlink, state |-> "unset", class |-> "unset", owned |-> "root"]
\* HSET of other fields makes a hash without a mode if there is none.
Stub(i) == IF node[i] = Gone THEN NewNode("none", 0) ELSE node[i]
NoEntries == [n \in Name |-> None]

IsDir(i) == node[i] # Gone /\ node[i].kind = "dir"
Empty(i) == entry[i] = NoEntries

\* _resolve_path: one ZSCORE per component.  (The paths of the models are so short
\* that at most one component of a parent lies below the root.)
Resolve(path) ==
  LET Down(i, n) == IF i = None \/ n \notin Name THEN None ELSE entry[i][n]
  IN FoldLeft(Down, Root, path)

Parent(path) == Front(path)
Base(path) == Last(path)

BootPC == {"idle", "check", "counter", "root", "hset", "entry", "make", "find", "state",
           "class", "own", "flag", "unlock", "done"}
BootState == [pc : BootPC, k : 1..(Len(Manifest) + 1), dir : Inode \union {None},
              ino : Inode \union {None}]
Op == {"mkdir", "create", "rmdir", "unlink", "chmod", "chown"}
CallState == [pc : {"idle", "script", "owner", "open", "hset", "done"}, op : Op,
              path : Target, ino : Inode \union {None},
              kind : {"dir", "file", "none"},
              out : {"none", "ok", "ENOENT", "EEXIST", "ENOTDIR", "EISDIR", "ENOTEMPTY",
                     "ENOSPC", "EINVAL"}]

Init ==
  /\ node = [i \in Inode |-> Gone]
  /\ entry = [i \in Inode |-> NoEntries]
  /\ next = 0
  /\ initialized = FALSE
  /\ lock = NoBoot
  /\ boot = [b \in Boot |-> [pc |-> "idle", k |-> 1, dir |-> None, ino |-> None]]
  /\ failures = 0
  /\ call \in [Call -> [pc : {"idle"}, op : {"mkdir"}, path : {CHOOSE p \in Target : TRUE},
                        ino : {None}, kind : {"none"}, out : {"none"}]]
  /\ removed = {} /\ revived = {} /\ outlived = {}

------------------------------------------------------------------------------
(* The Lua scripts.  Each refuses with the first error that applies, or     *)
(* makes its change; nothing comes between.                                 *)

\* Mutant of MakeError: the limit is off by one.
MakeErrorLate(d, n) ==
  IF n \notin Name THEN "EINVAL"
  ELSE IF ~IsDir(d) THEN "ENOTDIR"
  ELSE IF entry[d][n] # None THEN "EEXIST"
  ELSE IF next > MaxInode THEN "ENOSPC"
  ELSE "ok"

\* What atomic_create and atomic_mkdir answer.
MakeError(d, n) ==
  IF n \notin Name THEN "EINVAL"
  ELSE IF ~IsDir(d) THEN "ENOTDIR"
  ELSE IF entry[d][n] # None THEN "EEXIST"
  ELSE IF next >= MaxInode THEN "ENOSPC"
  ELSE "ok"

\* Mutant of MakeDir: the parent's link count is forgotten.
MakeDirUnlinked(d, n) ==
  /\ next' = next + 1
  /\ node' = [node EXCEPT ![next + 1] = NewNode("dir", 2)]
  /\ entry' = [entry EXCEPT ![d][n] = next + 1, ![next + 1] = NoEntries]

MakeDir(d, n) ==
  /\ next' = next + 1
  /\ node' = [node EXCEPT ![next + 1] = NewNode("dir", 2), ![d].nlink = @ + 1]
  /\ entry' = [entry EXCEPT ![d][n] = next + 1, ![next + 1] = NoEntries]

MakeFile(d, n) ==
  /\ next' = next + 1
  /\ node' = [node EXCEPT ![next + 1] = NewNode("file", 1)]
  /\ entry' = [entry EXCEPT ![d][n] = next + 1]

Make(kind, d, n) == IF kind = "dir" THEN MakeDir(d, n) ELSE MakeFile(d, n)

\* Mutant of RmdirError: a directory is removed whatever is in it.
RmdirErrorFull(d, n) ==
  IF n \notin Name THEN "EINVAL"
  ELSE IF ~IsDir(d) THEN "ENOTDIR"
  ELSE IF entry[d][n] = None THEN "ENOENT"
  ELSE IF ~IsDir(entry[d][n]) THEN "ENOTDIR"
  ELSE "ok"

RmdirError(d, n) ==
  IF n \notin Name THEN "EINVAL"
  ELSE IF ~IsDir(d) THEN "ENOTDIR"
  ELSE IF entry[d][n] = None THEN "ENOENT"
  ELSE IF ~IsDir(entry[d][n]) THEN "ENOTDIR"
  ELSE IF ~Empty(entry[d][n]) THEN "ENOTEMPTY"
  ELSE "ok"

RemoveDir(d, n) ==
  LET i == entry[d][n] IN
  /\ entry' = [entry EXCEPT ![d][n] = None, ![i] = NoEntries]
  /\ node' = [node EXCEPT ![i] = Gone, ![d].nlink = @ - 1]
  /\ removed' = removed \union {i}
  /\ UNCHANGED next

UnlinkError(d, n) ==
  IF n \notin Name THEN "EINVAL"
  ELSE IF ~IsDir(d) THEN "ENOTDIR"
  ELSE IF entry[d][n] = None THEN "ENOENT"
  ELSE IF IsDir(entry[d][n]) THEN "EISDIR"
  ELSE "ok"

\* Mutant of RemoveFile: the hash goes, the directory entry stays.
RemoveFileOnly(d, n) ==
  LET i == entry[d][n] IN
  /\ node' = [node EXCEPT ![i] = Gone]
  /\ removed' = removed \union {i}
  /\ UNCHANGED <<entry, next>>

\* The hash goes with the last link; there is no second link in this system.
RemoveFile(d, n) ==
  LET i == entry[d][n] IN
  /\ entry' = [entry EXCEPT ![d][n] = None]
  /\ node' = [node EXCEPT ![i] = IF node[i].nlink > 1
                                 THEN [node[i] EXCEPT !.nlink = node[i].nlink - 1] ELSE Gone]
  /\ removed' = removed \union {i}
  /\ UNCHANGED next

------------------------------------------------------------------------------
(* FUSE callbacks.  The process that serves a session has initialized its   *)
(* namespace before; _session_lock keeps callbacks out until it is done.    *)
(* Initializers of two processes meet only in the namespace without prefix, *)
(* where no callback is served.                                             *)

CallVars == <<initialized, lock, boot, failures, outlived>>

Answer(c, out) == call' = [call EXCEPT ![c].pc = "done", ![c].out = out]

\* A callback begins: mkdir, create and rmdir resolve the parent, unlink the
\* parent and the path, chmod and chown the path.  No lookup ends in "." or "..".
CallStart(c, op, path) ==
  LET d == Resolve(Parent(path))
      i == Resolve(path)
      need == CASE op \in {"mkdir", "create", "rmdir"} -> d
                [] op = "unlink" -> IF d = None THEN None ELSE i
                [] OTHER -> i
  IN
  /\ call[c].pc = "idle"
  /\ Base(path) = Dot => op \in {"mkdir", "create", "rmdir"}
  /\ \E b \in Boot : boot[b].pc = "done"
  /\ \A b \in Boot : boot[b].pc \in {"idle", "check", "unlock", "done"}
  /\ \/ /\ need = None
        /\ Answer(c, "ENOENT")
     \/ /\ need # None /\ op \in {"mkdir", "create", "rmdir", "unlink"}
        /\ call' = [call EXCEPT ![c].pc = "script", ![c].op = op, ![c].path = path,
                                ![c].ino = d]
     \/ /\ need # None /\ op \in {"chmod", "chown"}
        /\ call' = [call EXCEPT ![c].pc = "hset", ![c].op = op, ![c].path = path,
                                ![c].ino = i, ![c].kind = Stub(i).kind]
  /\ UNCHANGED CallVars /\ UNCHANGED tree /\ UNCHANGED <<removed, revived>>

\* mkdir and create run their script; create opens what exists already.
CallMake(c) ==
  LET d == call[c].ino
      n == Base(call[c].path)
      kind == IF call[c].op = "mkdir" THEN "dir" ELSE "file"
      error == MakeError(d, n)
  IN
  /\ call[c].pc = "script" /\ call[c].op \in {"mkdir", "create"}
  /\ \/ /\ error = "ok"
        /\ Make(kind, d, n)
        /\ call' = [call EXCEPT ![c].pc = "owner", ![c].ino = next + 1]
     \/ /\ error = "EEXIST" /\ kind = "file"
        /\ call' = [call EXCEPT ![c].pc = "open"]
        /\ UNCHANGED tree
     \/ /\ error # "ok" /\ ~(error = "EEXIST" /\ kind = "file")
        /\ Answer(c, error)
        /\ UNCHANGED tree
  /\ UNCHANGED CallVars /\ UNCHANGED <<removed, revived>>

\* HSET uid and gid on the new inode; mkdir is done, create opens its file.
CallOwner(c) ==
  LET i == call[c].ino IN
  /\ call[c].pc = "owner"
  /\ node' = [node EXCEPT ![i] = [Stub(i) EXCEPT !.owned = "set"]]
  /\ IF call[c].op = "mkdir" THEN Answer(c, "ok")
     ELSE call' = [call EXCEPT ![c].pc = "open"]
  /\ UNCHANGED <<entry, next>> /\ UNCHANGED CallVars /\ UNCHANGED <<removed, revived>>

\* open resolves the path again.
CallOpen(c) ==
  /\ call[c].pc = "open"
  /\ Answer(c, IF Resolve(call[c].path) = None THEN "ENOENT" ELSE "ok")
  /\ UNCHANGED tree /\ UNCHANGED CallVars /\ UNCHANGED <<removed, revived>>

\* rmdir reports every refusal of its script but ENOENT as ENOTEMPTY.
CallRmdir(c) ==
  LET d == call[c].ino
      n == Base(call[c].path)
      error == RmdirError(d, n)
  IN
  /\ call[c].pc = "script" /\ call[c].op = "rmdir"
  /\ \/ error = "ok" /\ RemoveDir(d, n)
     \/ error # "ok" /\ UNCHANGED tree /\ UNCHANGED removed
  /\ Answer(c, IF error \in {"ok", "ENOENT"} THEN error ELSE "ENOTEMPTY")
  /\ UNCHANGED CallVars /\ UNCHANGED revived

CallUnlink(c) ==
  LET d == call[c].ino
      n == Base(call[c].path)
      error == UnlinkError(d, n)
  IN
  /\ call[c].pc = "script" /\ call[c].op = "unlink"
  /\ \/ error = "ok" /\ RemoveFile(d, n)
     \/ error # "ok" /\ UNCHANGED tree /\ UNCHANGED removed
  /\ Answer(c, error)
  /\ UNCHANGED CallVars /\ UNCHANGED revived

\* chmod writes the mode with the type it read, chown writes no mode; both bring
\* back a hash that was deleted since.
CallSet(c) ==
  LET i == call[c].ino IN
  /\ call[c].pc = "hset"
  /\ \/ /\ call[c].op = "chmod"
        /\ node' = [node EXCEPT ![i] = [Stub(i) EXCEPT !.kind = call[c].kind]]
        /\ revived' = IF i \in removed THEN revived \union {i} ELSE revived
     \/ /\ call[c].op = "chown"
        /\ node' = [node EXCEPT ![i] = [Stub(i) EXCEPT !.owned = "set"]]
        /\ UNCHANGED revived
  /\ Answer(c, "ok")
  /\ UNCHANGED <<entry, next, removed>> /\ UNCHANGED CallVars

------------------------------------------------------------------------------
(* initialize_filesystem                                                    *)

BootVars == <<call, removed, revived>>
At(b) == Manifest[boot[b].k]
Goto(b, pc) == boot' = [boot EXCEPT ![b].pc = pc]

\* lock("fs:initialize", timeout=30, blocking_timeout=5): a caller that cannot have
\* it for 5 s raises LockError, and the next callback tries again.
BootLock(b) ==
  /\ boot[b].pc = "idle" /\ lock = NoBoot
  /\ lock' = b
  /\ Goto(b, "check")
  /\ UNCHANGED tree /\ UNCHANGED BootVars
  /\ UNCHANGED <<initialized, failures, outlived>>

BootCheck(b) ==
  /\ boot[b].pc = "check"
  /\ Goto(b, IF initialized THEN "unlock" ELSE "counter")
  /\ UNCHANGED tree /\ UNCHANGED BootVars
  /\ UNCHANGED <<initialized, lock, failures, outlived>>

\* Mutant of BootCounter: SET without NX.
BootCounterResets(b) ==
  /\ boot[b].pc = "counter"
  /\ next' = 1
  /\ Goto(b, "root")
  /\ UNCHANGED <<node, entry>> /\ UNCHANGED BootVars
  /\ UNCHANGED <<initialized, lock, failures, outlived>>

\* SET fs:next_inode 1 NX.
BootCounter(b) ==
  /\ boot[b].pc = "counter"
  /\ next' = IF next = 0 THEN 1 ELSE next
  /\ Goto(b, "root")
  /\ UNCHANGED <<node, entry>> /\ UNCHANGED BootVars
  /\ UNCHANGED <<initialized, lock, failures, outlived>>

\* The root inode is written if it does not exist: EXISTS, then HSET.
BootRoot(b) ==
  /\ boot[b].pc = "root"
  /\ boot' = [boot EXCEPT ![b].pc = IF node[Root] = Gone THEN "hset" ELSE "entry",
                          ![b].k = 1]
  /\ UNCHANGED tree /\ UNCHANGED BootVars
  /\ UNCHANGED <<initialized, lock, failures, outlived>>
BootRootSet(b) ==
  /\ boot[b].pc = "hset"
  /\ node' = [node EXCEPT ![Root] = [Stub(Root) EXCEPT !.kind = "dir", !.nlink = 2]]
  /\ Goto(b, "entry")
  /\ UNCHANGED <<entry, next>> /\ UNCHANGED BootVars
  /\ UNCHANGED <<initialized, lock, failures, outlived>>

\* The with statement ends in an exception: the lock is released if it is still
\* this initializer's, and a later callback starts over.
Raise(b) ==
  /\ lock' = IF lock = b THEN NoBoot ELSE lock
  /\ Goto(b, "idle")

\* The next entry: its parent directory must exist by now.
BootEntry(b) ==
  /\ boot[b].pc = "entry" /\ boot[b].k <= Len(Manifest)
  /\ LET d == Resolve(Parent(At(b).path)) IN
       IF d = None THEN Raise(b)
       ELSE /\ boot' = [boot EXCEPT ![b].pc = "make", ![b].dir = d]
            /\ UNCHANGED lock
  /\ UNCHANGED tree /\ UNCHANGED BootVars
  /\ UNCHANGED <<initialized, failures, outlived>>

\* Mutant of AfterMake: an entry that exists is taken for complete.
AfterMakeSkips(e, new) ==
  IF e.kind = "file" /\ new THEN "state" ELSE "own"
\* What follows the creation of entry e, or the discovery that it exists.
AfterMake(e, new) == IF e.kind = "file" THEN "state" ELSE "own"

BootMake(b) ==
  LET d == boot[b].dir
      n == Base(At(b).path)
      error == MakeError(d, n)
  IN
  /\ boot[b].pc = "make"
  /\ CASE error = "ok" ->
            /\ Make(At(b).kind, d, n)
            /\ boot' = [boot EXCEPT ![b].pc = AfterMake(At(b), TRUE), ![b].ino = next + 1]
            /\ UNCHANGED lock
       [] error = "EEXIST" -> Goto(b, "find") /\ UNCHANGED lock /\ UNCHANGED tree
       [] OTHER -> Raise(b) /\ UNCHANGED tree
  /\ UNCHANGED BootVars /\ UNCHANGED <<initialized, failures, outlived>>

\* FileExistsError: the entry is left from an earlier attempt.
BootFind(b) ==
  /\ boot[b].pc = "find"
  /\ boot' = [boot EXCEPT ![b].pc = AfterMake(At(b), FALSE), ![b].ino = Resolve(At(b).path)]
  /\ UNCHANGED tree /\ UNCHANGED BootVars
  /\ UNCHANGED <<initialized, lock, failures, outlived>>

SetNode(i, h) == node' = [node EXCEPT ![i] = h]

\* HSETNX content_state, then HSETNX manifest_class.
BootClassify(b) ==
  LET i == boot[b].ino
      s == IF At(b).class \in {"ai_backed", "deterministic"} THEN "missing" ELSE "static"
  IN
  /\ boot[b].pc = "state"
  /\ SetNode(i, [Stub(i) EXCEPT !.state = IF @ = "unset" THEN s ELSE @])
  /\ Goto(b, "class")
  /\ UNCHANGED <<entry, next>> /\ UNCHANGED BootVars
  /\ UNCHANGED <<initialized, lock, failures, outlived>>
BootClass(b) ==
  LET i == boot[b].ino IN
  /\ boot[b].pc = "class"
  /\ SetNode(i, [Stub(i) EXCEPT !.class = IF @ = "unset" THEN At(b).class ELSE @])
  /\ Goto(b, "own")
  /\ UNCHANGED <<entry, next>> /\ UNCHANGED BootVars
  /\ UNCHANGED <<initialized, lock, failures, outlived>>

\* HSET uid, gid and mode, whatever they were; then the next entry.
BootOwn(b) ==
  LET i == boot[b].ino IN
  /\ boot[b].pc = "own"
  /\ SetNode(i, [Stub(i) EXCEPT !.owned = "set", !.kind = At(b).kind])
  /\ boot' = [boot EXCEPT ![b].pc = "entry", ![b].k = @ + 1, ![b].dir = None, ![b].ino = None]
  /\ UNCHANGED <<entry, next>> /\ UNCHANGED BootVars
  /\ UNCHANGED <<initialized, lock, failures, outlived>>

\* All entries are there: SET fs:initialized.
BootFlag(b) ==
  /\ boot[b].pc = "entry" /\ boot[b].k > Len(Manifest)
  /\ initialized' = TRUE
  /\ Goto(b, "unlock")
  /\ UNCHANGED tree /\ UNCHANGED BootVars /\ UNCHANGED <<lock, failures, outlived>>

\* The lock is released; an initializer that lost it raises, and is called again.
BootUnlock(b) ==
  /\ boot[b].pc = "unlock"
  /\ lock' = IF lock = b THEN NoBoot ELSE lock
  /\ Goto(b, IF lock = b THEN "done" ELSE "idle")
  /\ UNCHANGED tree /\ UNCHANGED BootVars
  /\ UNCHANGED <<initialized, failures, outlived>>

\* A Redis call raises: the with statement releases the lock ...
BootFail(b) ==
  /\ boot[b].pc \notin {"idle", "done"} /\ failures < MaxFailures
  /\ failures' = failures + 1
  /\ Raise(b)
  /\ UNCHANGED tree /\ UNCHANGED BootVars /\ UNCHANGED <<initialized, outlived>>
\* ... or the process dies, or Redis cannot be reached for the release either.
BootCrash(b) ==
  /\ boot[b].pc \notin {"idle", "done"} /\ failures < MaxFailures
  /\ failures' = failures + 1
  /\ Goto(b, "idle")
  /\ UNCHANGED tree /\ UNCHANGED BootVars
  /\ UNCHANGED <<initialized, lock, outlived>>

\* Mutant of LockExpire: the lock has no timeout.
LockStays == lock # NoBoot /\ FALSE

\* The 30 s of the lock are over, whether or not its holder still runs.
LockExpire ==
  /\ lock # NoBoot
  /\ lock' = NoBoot
  /\ outlived' = IF boot[lock].pc # "idle" THEN outlived \union {lock} ELSE outlived
  /\ UNCHANGED tree /\ UNCHANGED BootVars /\ UNCHANGED <<initialized, boot, failures>>

------------------------------------------------------------------------------
CallStep(c) ==
  \/ CallMake(c) \/ CallOwner(c) \/ CallOpen(c) \/ CallRmdir(c) \/ CallUnlink(c)
  \/ CallSet(c)
BootStep(b) ==
  \/ BootLock(b) \/ BootCheck(b) \/ BootCounter(b) \/ BootRoot(b) \/ BootRootSet(b)
  \/ BootEntry(b) \/ BootMake(b) \/ BootFind(b) \/ BootClassify(b) \/ BootClass(b)
  \/ BootOwn(b) \/ BootFlag(b) \/ BootUnlock(b)

\* Every call and every initialization has ended.
Quiescent ==
  /\ \A c \in Call : call[c].pc = "done"
  /\ \A b \in Boot : boot[b].pc = "done"
  /\ UNCHANGED vars

Next ==
  \/ \E c \in Call, op \in Op, path \in Target : CallStart(c, op, path)
  \/ \E c \in Call : CallStep(c)
  \/ \E b \in Boot : BootStep(b) \/ BootFail(b) \/ BootCrash(b)
  \/ LockExpire
  \/ Quiescent

Spec == Init /\ [][Next]_vars

\* Callbacks keep coming, so an initialization is always tried again; Redis answers
\* or fails, and expires the lock.
FairSpec ==
  Spec /\ (\A b \in Boot : WF_vars(BootStep(b))) /\ WF_vars(LockExpire)

------------------------------------------------------------------------------
(* Correctness                                                              *)

\* Types of all variables; no inode number beyond the limit is ever used.
TypeOK ==
  /\ node \in [Inode -> Hash \union {Gone}]
  /\ entry \in [Inode -> [Name -> Inode \union {None}]]
  /\ next \in Inode \union {0}
  /\ initialized \in BOOLEAN
  /\ lock \in Boot \union {NoBoot}
  /\ boot \in [Boot -> BootState]
  /\ failures \in 0..MaxFailures
  /\ call \in [Call -> CallState]
  /\ removed \subseteq Inode /\ revived \subseteq removed
  /\ outlived \subseteq Boot

Names(i) == {p \in Inode \X Name : entry[p[1]][p[2]] = i}
Live(i) == node[i] # Gone /\ node[i].kind # "none" /\ i \notin removed

\* Every directory entry leads to an inode that exists and has a type, that no
\* other entry names, and that is not the root; removed inodes have no name.
EntriesLead ==
  \A d \in Inode, n \in Name :
    LET i == entry[d][n] IN
    i # None => Live(i) /\ i <= next /\ i # Root /\ Names(i) = {<<d, n>>}

\* Link counts: a directory counts its entry, itself and its subdirectories, a file
\* its one entry.  Only an initializer that outlives its lock can break them, for
\* the root: it writes nlink after it saw that there was no root.
LinkCounts ==
  \A i \in Inode : Live(i) /\ (i = Root => outlived = {}) =>
    node[i].nlink =
      IF node[i].kind = "dir"
      THEN 2 + Cardinality({n \in Name : entry[i][n] # None /\ IsDir(entry[i][n])})
      ELSE 1

\* No file or directory is lost: one that was not removed can be found in a
\* directory that was not removed either.  The exception is a chmod that raced
\* rmdir and gave the deleted directory a mode again.
NothingLost ==
  \A i \in Inode \ {Root} : Live(i) =>
    \E d \in Inode, n \in Name : entry[d][n] = i /\ (Live(d) \/ d \in revived)

\* An inode number is not used twice: whatever failed, died or was resumed, a new
\* entry gets a number above that of every inode there is or was.
Used == {Root} \union removed \union {entry[d][n] : d \in Inode, n \in Name}
NumbersFresh ==
  [][\A d \in Inode, n \in Name :
       entry'[d][n] \notin {None, entry[d][n]} => \A i \in Used : i < entry'[d][n]]_vars

Complete(e) ==
  LET i == Resolve(e.path) IN
  /\ i # None /\ node[i].kind = e.kind /\ node[i].owned = "set"
  /\ e.kind = "file" => node[i].state # "unset" /\ node[i].class = e.class

\* fs:initialized is set only when the whole manifest is in the tree, typed, owned
\* and classified, however many attempts it took.
InitializedIsComplete ==
  [][~initialized /\ initialized' =>
       \A k \in 1..Len(Manifest) : Complete(Manifest[k])]_vars

\* Initialization succeeds in the end, after any bounded number of failures and
\* deaths, also when the dead process held the lock.
EventuallyInitialized == <>initialized

=============================================================================
