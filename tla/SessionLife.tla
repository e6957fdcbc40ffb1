----------------------------- MODULE SessionLife ------------------------------
(***************************************************************************)
(* The life of a session: the gateway's thread for a connection, the       *)
(* worker process it spawns and talks to over a pipe, the FUSE callbacks   *)
(* that the worker's system calls cause, the mapping of PIDs to sessions   *)
(* in Redis by which they are attributed, and the reaper, which deletes    *)
(* the namespaces of sessions that no mapping names.                       *)
(*                                                                         *)
(* A connection is its session (a fresh uuid4 each).  Commands of a        *)
(* session are numbered; 0 stands for none, for the worker's init message, *)
(* and for the chdir by which a worker enters the mount.  Gateway, FUSE    *)
(* and reaper are threads of one process.  Time is left out: a deadline    *)
(* may pass whenever what it waits for is not there.                       *)
(***************************************************************************)
EXTENDS Integers, Sequences, FiniteSets

CONSTANTS
  Conn, Pid,
  None,         \* no session, no PID
  Slots,        \* connections served at a time, 32 in the code
  MaxCommands,  \* connection -> bound on its commands, 1000 in the code
  MaxFaults,    \* bound on failures: of a worker, of Redis, of the outbox, restarts
  SlowStart     \* no first callback of a worker falls between the reaper's two scans

ASSUME SessionConstants ==
  /\ None \notin Conn \cup Pid /\ IsFiniteSet(Conn)
  /\ Slots \in Nat \ {0} /\ MaxCommands \in [Conn -> Nat] /\ MaxFaults \in Nat
  /\ SlowStart \in BOOLEAN

VARIABLES
  free,      \* what _connections has left
  thread,    \* connection -> where its thread is
  sent,      \* connection -> its latest command
  trail,     \* session -> its ssh_* rows in the audit log
  worker,    \* connection -> where its worker process is
  pid,       \* connection -> PID of its worker
  doing,     \* connection -> the command its worker executes
  down, up,  \* connection -> pipe to the worker, pipe to the gateway
  map,       \* session_pid:* in Redis
  active,    \* session -> active_command in Redis
  call,      \* connection -> the callback its worker's system call waits for
  kernel,    \* the latest row of a callback in the audit log
  keys,      \* session -> its keys: fs:next_inode is "next", others "file"
  sessions,  \* _sessions, the FUSE process's cache
  reaper,    \* where the reaper is, and what it found
  faults     \* failures so far

gateway == <<free, thread, sent, trail>>
process == <<worker, pid, doing>>
pipes == <<down, up>>
redis == <<map, active>>
fuse == <<call, kernel, keys, sessions>>
vars == <<gateway, process, pipes, redis, fuse, reaper, faults>>

Quit == -1
Unknown == -2
Asleep == [at |-> "idle", seen |-> {}, todo |-> {}, victim |-> None, left |-> {}]
NoRow == [by |-> None, cmd |-> 0, session |-> None, tag |-> 0]
NoCall == [at |-> "none", session |-> None, cmd |-> 0]

Init ==
  /\ free = Slots
  /\ thread = [c \in Conn |-> "new"] /\ sent = [c \in Conn |-> 0]
  /\ trail = [c \in Conn |-> <<>>]
  /\ worker = [c \in Conn |-> "none"] /\ pid = [c \in Conn |-> None]
  /\ doing = [c \in Conn |-> 0]
  /\ down = [c \in Conn |-> <<>>] /\ up = [c \in Conn |-> <<>>]
  /\ map = [p \in Pid |-> None] /\ active = [c \in Conn |-> 0]
  /\ call = [c \in Conn |-> NoCall] /\ kernel = NoRow
  /\ keys = [c \in Conn |-> {}] /\ sessions = {}
  /\ reaper = Asleep /\ faults = 0

Alive(c) == worker[c] \notin {"none", "dead"}
Goto(c, at) == thread' = [thread EXCEPT ![c] = at]
Become(c, at) == worker' = [worker EXCEPT ![c] = at]
Dies(c) == Become(c, "dead") /\ doing' = [doing EXCEPT ![c] = 0]
Fault == faults < MaxFaults /\ faults' = faults + 1

-----------------------------------------------------------------------------
(* The gateway's thread: handle_client *)

Accept(c) ==
  /\ thread[c] = "new"
  /\ IF free > 0 THEN free' = free - 1 /\ Goto(c, "handshake")
     ELSE free' = free /\ Goto(c, "refused")
  /\ UNCHANGED <<sent, trail, process, pipes, redis, fuse, reaper, faults>>

\* Out of the loop, by return or exception: the sockets are closed and the worker,
\* if there is one, is asked to stop, before anything that can block.
Shut(c) ==
  /\ Goto(c, IF worker[c] = "none" THEN "last" ELSE "joining")
  /\ down' = IF Alive(c) THEN [down EXCEPT ![c] = Append(@, Quit)] ELSE down

\* No channel, no shell, a failed login audit: nothing to stop but the socket.
NoShell(c) ==
  /\ thread[c] = "handshake" /\ Shut(c)
  /\ UNCHANGED <<free, sent, trail, process, up, redis, fuse, reaper, faults>>

\* The kernel hands out PIDs in increasing order: one is not used again while a
\* callback of its former holder is under way.
FreePid(p) == \A c \in Conn : pid[c] = p => ~Alive(c) /\ call[c] = NoCall

StartWorker(c) ==
  /\ thread[c] = "handshake" /\ Goto(c, "starting") /\ Become(c, "boot")
  /\ \E p \in Pid : FreePid(p) /\ pid' = [pid EXCEPT ![c] = p]
  /\ UNCHANGED <<free, sent, trail, doing, pipes, redis, fuse, reaper, faults>>

Greeted(c) ==
  /\ thread[c] = "starting" /\ up[c] # <<>> /\ Goto(c, "idle")
  /\ up' = [up EXCEPT ![c] = Tail(@)]
  /\ UNCHANGED <<free, sent, trail, process, down, redis, fuse, reaper, faults>>

\* poll(15) runs out, or recv finds the end of the pipe.
NotGreeted(c) ==
  /\ thread[c] = "starting" /\ up[c] = <<>> /\ Shut(c)
  /\ UNCHANGED <<free, sent, trail, process, up, redis, fuse, reaper, faults>>

Row(c, row) == trail' = [trail EXCEPT ![c] = Append(@, row)]
CommandRow(n) == [op |-> "ssh_command", cmd |-> n, answer |-> 0]
ResultRow(n, answer) == [op |-> "ssh_command_result", cmd |-> n, answer |-> answer]
DisconnectRow == [op |-> "ssh_disconnect", cmd |-> 0, answer |-> 0]

\* A line from the client: audited, then sent.  send raises when the worker died.
CommandIn(c) ==
  /\ thread[c] = "idle" /\ up[c] = <<>> /\ sent[c] < MaxCommands[c]
  /\ sent' = [sent EXCEPT ![c] = @ + 1]
  /\ Row(c, CommandRow(sent[c] + 1))
  /\ IF Alive(c)
     THEN Goto(c, "waiting") /\ down' = [down EXCEPT ![c] = Append(@, sent[c] + 1)]
     ELSE Shut(c)
  /\ UNCHANGED <<free, process, up, redis, fuse, reaper, faults>>

\* End of input, 120 s without any, a dead worker, an unexpected message, a line
\* that is too long: all leave the loop.
HangUp(c) ==
  /\ thread[c] = "idle" /\ Shut(c)
  /\ UNCHANGED <<free, sent, trail, process, up, redis, fuse, reaper, faults>>

Result(c) ==
  /\ thread[c] = "waiting" /\ up[c] # <<>> /\ Goto(c, "idle")
  /\ Row(c, ResultRow(sent[c], Head(up[c])))
  /\ up' = [up EXCEPT ![c] = Tail(@)]
  /\ UNCHANGED <<free, sent, process, down, redis, fuse, reaper, faults>>

\* Mutant of NoAnswer: a command that timed out leaves the session open.
NoAnswerGoOn(c) ==
  /\ thread[c] = "waiting" /\ up[c] = <<>> /\ Goto(c, "idle")
  /\ IF Alive(c) THEN Row(c, ResultRow(sent[c], Unknown)) ELSE trail' = trail
  /\ UNCHANGED <<free, sent, process, pipes, redis, fuse, reaper, faults>>

\* poll(20) runs out, which is audited; or recv finds the end of the pipe, which
\* is not.
NoAnswer(c) ==
  /\ thread[c] = "waiting" /\ up[c] = <<>> /\ Shut(c)
  /\ IF Alive(c) THEN Row(c, ResultRow(sent[c], Unknown)) ELSE trail' = trail
  /\ UNCHANGED <<free, sent, process, up, redis, fuse, reaper, faults>>

\* The outbox refuses the row of a command, of a result or of a timeout.
AuditRefused(c) ==
  /\ Fault
  /\ \/ thread[c] = "idle" /\ up' = up
     \/ thread[c] = "waiting" /\ up' = [up EXCEPT ![c] = IF @ = <<>> THEN @ ELSE Tail(@)]
  /\ Shut(c)
  /\ UNCHANGED <<free, sent, trail, process, redis, fuse, reaper>>

\* finally: the worker is waited for, or terminated after 2 s; nobody reads the pipes again ...
Join(c) ==
  /\ thread[c] = "joining" /\ Goto(c, "unmap") /\ Dies(c)
  /\ down' = [down EXCEPT ![c] = <<>>] /\ up' = [up EXCEPT ![c] = <<>>]
  /\ UNCHANGED <<free, sent, trail, pid, redis, fuse, reaper, faults>>

\* Mutant of Unmapped: the mapping is deleted without a look at its value.
UnmappedBlindly(c) == [map EXCEPT ![pid[c]] = None]
\* ... its mapping deleted, unless the PID is another session's by now ...
Unmapped(c) == [map EXCEPT ![pid[c]] = IF @ = c THEN None ELSE @]

Unmap(c) ==
  /\ thread[c] = "unmap" /\ Goto(c, "last")
  /\ \/ map' = Unmapped(c) /\ UNCHANGED faults
     \/ map' = map /\ Fault
  /\ UNCHANGED <<free, sent, trail, process, pipes, active, fuse, reaper>>

\* Mutant of Leave: the slot comes back only when the last row was admitted.
LeaveInTry(c) ==
  \/ Row(c, DisconnectRow) /\ free' = free + 1 /\ UNCHANGED faults
  \/ UNCHANGED <<trail, free>> /\ Fault
\* _limited_client: the slot comes back although the last row may be refused.
Leave(c) ==
  /\ free' = free + 1
  /\ \/ Row(c, DisconnectRow) /\ UNCHANGED faults
     \/ UNCHANGED trail /\ Fault

Disconnect(c) ==
  /\ thread[c] = "last" /\ Goto(c, "done") /\ Leave(c)
  /\ UNCHANGED <<sent, process, pipes, redis, fuse, reaper>>

-----------------------------------------------------------------------------
(* The worker process: session_worker *)

\* Mutant of Registered: SETNX, as if no mapping could be there already.
RegisteredIfNew(c) == [map EXCEPT ![pid[c]] = IF @ = None THEN c ELSE @]
Registered(c) == [map EXCEPT ![pid[c]] = c]

Register(c) ==
  /\ worker[c] = "boot" /\ Become(c, "ready") /\ map' = Registered(c)
  /\ UNCHANGED <<gateway, pid, doing, pipes, active, fuse, reaper, faults>>

SendInit(c) ==
  /\ worker[c] = "ready" /\ call[c] = NoCall /\ Become(c, "loop")
  /\ up' = [up EXCEPT ![c] = Append(@, 0)]
  /\ UNCHANGED <<gateway, pid, doing, down, redis, fuse, reaper, faults>>

\* Each turn of the loop renews the mapping, and fails closed when it is gone.
Receive(c) ==
  /\ worker[c] = "loop"
  /\ \/ /\ map[pid[c]] = None /\ Become(c, "exit") /\ UNCHANGED <<doing, down, active>>
     \/ /\ map[pid[c]] # None /\ down[c] # <<>>
        /\ down' = [down EXCEPT ![c] = Tail(@)]
        /\ IF Head(down[c]) = Quit
           THEN Become(c, "exit") /\ UNCHANGED <<doing, active>>
           ELSE /\ Become(c, "busy")
                /\ doing' = [doing EXCEPT ![c] = Head(down[c])]
                /\ active' = [active EXCEPT ![c] = Head(down[c])]
  /\ UNCHANGED <<gateway, pid, up, map, fuse, reaper, faults>>

Answer(c) ==
  /\ worker[c] = "busy" /\ call[c] = NoCall /\ Become(c, "loop")
  /\ active' = [active EXCEPT ![c] = 0]
  /\ up' = [up EXCEPT ![c] = Append(@, doing[c])]
  /\ doing' = [doing EXCEPT ![c] = 0]
  /\ UNCHANGED <<gateway, pid, down, map, fuse, reaper, faults>>

\* An exception, the deadline, or the limit on commands leads to the finally clause.
WorkerFails(c) ==
  /\ worker[c] \in {"boot", "ready", "loop", "busy"} /\ call[c] = NoCall
  /\ Fault /\ Become(c, "exit")
  /\ UNCHANGED <<gateway, pid, doing, pipes, redis, fuse, reaper>>

\* finally: the process deletes its mapping, which may fail, and is gone.
Exit(c) ==
  /\ worker[c] = "exit" /\ Dies(c)
  /\ \/ map' = [map EXCEPT ![pid[c]] = None] /\ UNCHANGED faults
     \/ map' = map /\ Fault
  /\ UNCHANGED <<gateway, pid, pipes, active, fuse, reaper>>

\* Killed by a resource limit, anywhere, also while a callback serves it.
Die(c) ==
  /\ Alive(c) /\ Fault /\ Dies(c)
  /\ UNCHANGED <<gateway, pid, pipes, redis, fuse, reaper>>

\* Mutant of MapExpires: the mapping has no TTL.
MapStays(p) == FALSE /\ UNCHANGED vars
\* 120 s without a renewal.  A live worker renews each second, and the gateway
\* lets no command run for more than 20 s, so only a dead one's mapping runs out.
MapExpires(p) ==
  /\ map[p] # None /\ \A c \in Conn : pid[c] = p => ~Alive(c)
  /\ map' = [map EXCEPT ![p] = None]
  /\ UNCHANGED <<gateway, process, pipes, active, fuse, reaper, faults>>

ActiveExpires(c) ==
  /\ active[c] # 0 /\ ~Alive(c) /\ active' = [active EXCEPT ![c] = 0]
  /\ UNCHANGED <<gateway, process, pipes, map, fuse, reaper, faults>>

-----------------------------------------------------------------------------
(* FUSE callbacks, on threads of the gateway's process *)

\* A system call of the worker reaches FUSE, which looks the caller's PID up;
\* without a mapping the callback ends in EACCES and nothing happened.
Enter(c) ==
  /\ worker[c] \in {"ready", "busy"} /\ call[c] = NoCall /\ map[pid[c]] # None
  /\ call' = [call EXCEPT ![c] = [at |-> "entered", session |-> map[pid[c]], cmd |-> doing[c]]]
  /\ UNCHANGED <<gateway, process, pipes, redis, kernel, keys, sessions, reaper, faults>>

\* _session: under the lock, the PID looked up again; the first callback of a
\* session initializes its namespace.
Bind(c) ==
  /\ call[c].at = "entered"
  /\ LET s == map[pid[c]] IN
       IF s = None
       THEN /\ call' = [call EXCEPT ![c] = NoCall]
            /\ UNCHANGED <<keys, sessions>>
       ELSE /\ SlowStart => s \in sessions \/ reaper.at # "pids" \/ s \in reaper.seen
            /\ call' = [call EXCEPT ![c].at = "bound"]
            /\ keys' = IF s \in sessions THEN keys ELSE [keys EXCEPT ![s] = {"next", "file"}]
            /\ sessions' = sessions \cup {s}
  /\ UNCHANGED <<gateway, process, pipes, redis, kernel, reaper, faults>>

\* The operation writes to the namespace and is audited with the active command.
Serve(c) ==
  /\ call[c].at = "bound"
  /\ LET s == call[c].session IN
       /\ keys' = [keys EXCEPT ![s] = @ \cup {"file"}]
       /\ kernel' = [by |-> c, cmd |-> call[c].cmd, session |-> s, tag |-> active[s]]
  /\ call' = [call EXCEPT ![c] = NoCall]
  /\ UNCHANGED <<gateway, process, pipes, redis, sessions, reaper, faults>>

-----------------------------------------------------------------------------
(* The reaper: _reap_sessions, orphan_sessions, delete_namespace *)

ScanPids ==
  /\ reaper.at = "idle"
  /\ reaper' = [Asleep EXCEPT !.at = "pids", !.seen = {map[p] : p \in Pid} \ {None}]
  /\ UNCHANGED <<gateway, process, pipes, redis, fuse, faults>>

\* The namespaces that no mapping names are taken one after the other; the scan of
\* one's keys may miss those written later.
Take(stale) ==
  IF stale = {} THEN reaper' = Asleep
  ELSE \E s \in stale :
         reaper' = [Asleep EXCEPT !.at = "deleting", !.victim = s,
                                  !.todo = stale \ {s}, !.left = keys[s]]

ScanNamespaces ==
  /\ reaper.at = "pids"
  /\ Take({s \in Conn : "next" \in keys[s]} \ reaper.seen)
  /\ UNCHANGED <<gateway, process, pipes, redis, fuse, faults>>

DeleteKey ==
  /\ reaper.at = "deleting"
  /\ \E k \in reaper.left :
       /\ reaper' = [reaper EXCEPT !.left = @ \ {k}]
       /\ keys' = [keys EXCEPT ![reaper.victim] = @ \ {k}]
  /\ UNCHANGED <<gateway, process, pipes, redis, call, kernel, sessions, faults>>

Forget ==
  /\ reaper.at = "deleting" /\ reaper.left = {}
  /\ sessions' = sessions \ {reaper.victim}
  /\ Take(reaper.todo)
  /\ UNCHANGED <<gateway, process, pipes, redis, call, kernel, keys, faults>>

\* Redis cannot be reached: this round is over.
ReapFails ==
  /\ reaper.at # "idle" /\ Fault /\ reaper' = Asleep
  /\ UNCHANGED <<gateway, process, pipes, redis, fuse>>

-----------------------------------------------------------------------------
\* The container restarts: every process is gone, the cache is empty, and what is
\* in Redis stays.
Restart ==
  /\ Fault /\ free' = Slots
  /\ thread' = [c \in Conn |-> IF thread[c] = "new" THEN "new" ELSE "done"]
  /\ worker' = [c \in Conn |-> IF worker[c] = "none" THEN "none" ELSE "dead"]
  /\ doing' = [c \in Conn |-> 0]
  /\ down' = [c \in Conn |-> <<>>] /\ up' = down'
  /\ call' = [c \in Conn |-> NoCall] /\ sessions' = {} /\ reaper' = Asleep
  /\ UNCHANGED <<sent, trail, pid, redis, kernel, keys>>

Gateway(c) ==
  \/ NoShell(c) \/ StartWorker(c) \/ Greeted(c) \/ NotGreeted(c) \/ HangUp(c)
  \/ Result(c) \/ NoAnswer(c) \/ Join(c) \/ Unmap(c) \/ Disconnect(c)
Callback(c) == Bind(c) \/ Serve(c)
Reaper == ScanPids \/ ScanNamespaces \/ DeleteKey \/ Forget
Worker(c) == Register(c) \/ SendInit(c) \/ Receive(c) \/ Answer(c) \/ Exit(c)

Next ==
  \/ \E c \in Conn :
       \/ Accept(c) \/ CommandIn(c) \/ AuditRefused(c) \/ Gateway(c)
       \/ Worker(c) \/ WorkerFails(c) \/ Die(c) \/ ActiveExpires(c)
       \/ Enter(c) \/ Callback(c)
  \/ \E p \in Pid : MapExpires(p)
  \/ Reaper \/ ReapFails \/ Restart

Spec == Init /\ [][Next]_vars
\* Each thread runs, a callback returns, a TTL runs out; nobody has to type.
FairSpec ==
  /\ Spec
  /\ \A c \in Conn : WF_vars(Gateway(c)) /\ WF_vars(Callback(c))
  /\ \A p \in Pid : WF_vars(MapExpires(p))
  /\ WF_vars(Reaper)
-----------------------------------------------------------------------------
(* Properties *)

Calls == [at : {"none", "entered", "bound"}, session : Conn \cup {None}, cmd : Nat]

\* Types, and that the slots in use are those of the connections being served.
TypeOK ==
  /\ free \in 0..Slots
  /\ thread \in [Conn -> {"new", "refused", "handshake", "starting", "idle", "waiting",
                          "joining", "unmap", "last", "done"}]
  /\ free + Cardinality({c \in Conn : thread[c] \notin {"new", "refused", "done"}}) = Slots
  /\ sent \in [Conn -> Nat] /\ \A c \in Conn : sent[c] <= MaxCommands[c]
  /\ worker \in [Conn -> {"none", "boot", "ready", "loop", "busy", "exit", "dead"}]
  /\ pid \in [Conn -> Pid \cup {None}] /\ doing \in [Conn -> Nat]
  /\ map \in [Pid -> Conn \cup {None}] /\ active \in [Conn -> Nat]
  /\ call \in [Conn -> Calls]
  /\ keys \in [Conn -> SUBSET {"next", "file"}] /\ sessions \subseteq Conn
  /\ faults \in 0..MaxFaults

\* A callback of a worker acts in the session of that worker and no other, also
\* when the PID had another holder before, and its audit row names the command
\* that caused it or none ("Prevents stale attribution", session_worker).
AttributionTrue ==
  kernel.session = kernel.by /\ kernel.tag \in {0, kernel.cmd}

\* A result in the audit log follows its own command, is the worker's answer to
\* that command or says that none is known; nothing follows the disconnect.
TrailTrue ==
  \A c \in Conn : \A i \in DOMAIN trail[c] : LET row == trail[c][i] IN
    /\ row.op = "ssh_command_result" =>
         /\ i > 1 /\ trail[c][i - 1] = CommandRow(row.cmd)
         /\ row.answer \in {row.cmd, Unknown}
    /\ row.op = "ssh_disconnect" => i = Len(trail[c])

\* A worker that entered its namespace keeps it: the reaper deletes only what is
\* orphaned.  It rests on SlowStart, because PIDs are scanned before namespaces.
LiveNamespaceKept ==
  \A c \in Conn : worker[c] \in {"ready", "loop", "busy"} /\ c \in sessions =>
    {"next", "file"} \subseteq keys[c]

\* Every slot comes back, on every way out of handle_client, and no namespace that
\* can be found stays behind: after faults and restarts, the reaper deletes
\* fs:next_inode of every session in the end.
LeavesNothing == <>[](free = Slots /\ \A c \in Conn : "next" \notin keys[c])

=============================================================================
