-------------------------- MODULE SessionLifeProofs --------------------------
(***************************************************************************)
(* Proofs about SessionLife for any number of connections, PIDs, commands, *)
(* slots and failures.                                                     *)
(***************************************************************************)
EXTENDS SessionLife, FiniteSetTheorems, TLAPS

Rows == [op : {"ssh_command", "ssh_command_result", "ssh_disconnect"}, cmd : Nat, answer : Int]
Reapers == [at : {"idle", "pids", "deleting"}, seen : SUBSET Conn, todo : SUBSET Conn,
            victim : Conn \cup {None}, left : SUBSET {"next", "file"}]

\* TypeOK without the count of slots, and the types of what it leaves out.
Typed ==
  /\ thread \in [Conn -> {"new", "refused", "handshake", "starting", "idle", "waiting",
                          "joining", "unmap", "last", "done"}]
  /\ sent \in [Conn -> Nat] /\ \A c \in Conn : sent[c] <= MaxCommands[c]
  /\ worker \in [Conn -> {"none", "boot", "ready", "loop", "busy", "exit", "dead"}]
  /\ pid \in [Conn -> Pid \cup {None}] /\ doing \in [Conn -> Nat]
  /\ map \in [Pid -> Conn \cup {None}] /\ active \in [Conn -> Nat]
  /\ call \in [Conn -> Calls]
  /\ keys \in [Conn -> SUBSET {"next", "file"}] /\ sessions \subseteq Conn
  /\ faults \in 0..MaxFaults
  /\ down \in [Conn -> Seq(Nat \cup {Quit})] /\ up \in [Conn -> Seq(Nat)]
  /\ trail \in [Conn -> Seq(Rows)]
  /\ reaper \in Reapers

Served == {c \in Conn : thread[c] \notin {"new", "refused", "done"}}
SlotsCounted == free \in Nat /\ free + Cardinality(Served) = Slots

(***************************************************************************)
(* Who is who: a PID has one user, and the mapping of a worker that has    *)
(* registered is its own.                                                  *)
(***************************************************************************)
Live(c) == worker[c] \in {"ready", "loop", "busy"}
Uses(c) == Alive(c) \/ call[c] # NoCall

\* A worker lives between the handshake and the join.
Stages ==
  \A c \in Conn :
    /\ thread[c] \in {"new", "refused", "handshake"} => worker[c] = "none"
    /\ thread[c] \in {"unmap", "last", "done"} => worker[c] \in {"none", "dead"}

PidsDistinct ==
  /\ \A c \in Conn : Uses(c) => pid[c] \in Pid
  /\ \A c, d \in Conn : Uses(c) /\ Uses(d) /\ pid[c] = pid[d] => c = d

MapsLive == \A c \in Conn : Live(c) => map[pid[c]] = c

\* active_command is that of the worker, as long as there is one.
TagsTrue ==
  \A c \in Conn :
    /\ worker[c] \in {"none", "boot", "ready", "loop"} => active[c] = 0 /\ doing[c] = 0
    /\ worker[c] = "busy" => active[c] = doing[c]

\* A callback under way has its worker's session, and its command or none is active.
CallsTrue ==
  \A c \in Conn : call[c] # NoCall =>
    /\ worker[c] \in {"ready", "busy", "dead"}
    /\ call[c].session = c /\ active[c] \in {0, call[c].cmd}

Held == Stages /\ PidsDistinct /\ MapsLive /\ TagsTrue /\ CallsTrue

(***************************************************************************)
(* What is in the pipes: at most one message, that of the latest command.  *)
(***************************************************************************)
Quiet(c) == down[c] = <<>> /\ up[c] = <<>>

PipeOf(c) ==
  /\ thread[c] \in {"new", "refused", "handshake", "idle"} => Quiet(c)
  /\ thread[c] = "starting" =>
       /\ down[c] = <<>> /\ worker[c] \notin {"none", "busy"} /\ up[c] \in {<<>>, <<0>>}
       /\ worker[c] \in {"boot", "ready"} => up[c] = <<>>
  /\ thread[c] = "idle" => worker[c] \in {"loop", "exit", "dead"}
  /\ thread[c] = "waiting" =>
       \/ worker[c] = "busy" /\ Quiet(c) /\ doing[c] = sent[c]
       \/ worker[c] \in {"exit", "dead"} /\ Quiet(c)
       \/ /\ worker[c] \in {"loop", "exit", "dead"}
          /\ \/ down[c] = <<sent[c]>> /\ up[c] = <<>>
             \/ down[c] = <<>> /\ up[c] = <<sent[c]>>

Pipes == \A c \in Conn : PipeOf(c)

\* The trail of a session is open until its thread is done, and ends with the
\* command that is waited for.
TrailOf(c) ==
  /\ thread[c] # "done" => \A i \in DOMAIN trail[c] : trail[c][i].op # "ssh_disconnect"
  /\ thread[c] = "waiting" =>
       trail[c] # <<>> /\ trail[c][Len(trail[c])] = CommandRow(sent[c])

Trails == \A c \in Conn : TrailOf(c)

(***************************************************************************)
(* What the reaper may take.                                               *)
(***************************************************************************)
\* A session that nobody registered has no keys; one that is live and has fs:next_inode
\* is in the cache.
Rooms ==
  \A c \in Conn :
    /\ worker[c] \in {"none", "boot"} =>
         c \notin sessions /\ keys[c] = {} /\ \A q \in Pid : map[q] # c
    /\ Live(c) /\ "next" \in keys[c] => c \in sessions

\* A live session in the cache has been seen; what is to be deleted lives no more.
Spared ==
  /\ reaper.at = "pids" => \A c \in Conn : Live(c) /\ c \in sessions => c \in reaper.seen
  /\ reaper.at = "deleting" =>
       /\ reaper.victim \in Conn
       /\ \A c \in reaper.todo \cup {reaper.victim} : worker[c] \in {"exit", "dead"}

Kept == Rooms /\ Spared /\ LiveNamespaceKept

-----------------------------------------------------------------------------
(* Types *)

\* The reaper goes on to a namespace of those it found, or to sleep.
LEMMA TakeTyped ==
  ASSUME Typed, NEW stale \in SUBSET Conn, Take(stale)
  PROVE  reaper' \in Reapers
<1>1. CASE stale = {}
  BY <1>1 DEF Take, Asleep, Reapers
<1>2. CASE stale # {}
  <2>1. PICK s \in stale : reaper' = [Asleep EXCEPT !.at = "deleting", !.victim = s,
                                      !.todo = stale \ {s}, !.left = keys[s]]
    BY <1>2, Zenon DEF Take
  <2>2. reaper' = [at |-> "deleting", seen |-> {}, todo |-> stale \ {s}, victim |-> s,
                   left |-> keys[s]]
    BY <2>1 DEF Asleep
  <2>3. s \in Conn /\ keys[s] \in SUBSET {"next", "file"}
    BY DEF Typed
  <2> QED BY <2>2, <2>3 DEF Reapers
<1> QED BY <1>1, <1>2

\* Every step keeps the types; a worker that acts has a PID.
LEMMA TypedStep ==
  Typed /\ PidsDistinct /\ [Next]_vars => Typed'
<1> SUFFICES ASSUME Typed, PidsDistinct, [Next]_vars PROVE Typed'
  OBVIOUS
<1> USE SessionConstants
<1>1. ASSUME NEW c \in Conn, Accept(c) PROVE Typed'
  BY <1>1 DEF Accept, Goto, gateway, process, pipes, redis, fuse, Typed
<1>2. ASSUME NEW c \in Conn, NoShell(c) PROVE Typed'
  BY <1>2 DEF NoShell, Shut, Goto, gateway, process, pipes, redis, fuse, Typed, Quit
<1>3. ASSUME NEW c \in Conn, StartWorker(c) PROVE Typed'
  BY <1>3 DEF StartWorker, Goto, Become, gateway, process, pipes, redis, fuse, Typed
<1>4. ASSUME NEW c \in Conn, Greeted(c) PROVE Typed'
  <2>0. UNCHANGED <<free, sent, trail, process, down, redis, fuse, reaper, faults>>
    BY <1>4 DEF Greeted
  <2>1. Tail(up[c]) \in Seq(Nat)
    BY <1>4 DEF Greeted, Typed
  <2>2. up' \in [Conn -> Seq(Nat)]
    BY <1>4, <2>1 DEF Greeted, Typed
  <2>3. thread' \in [Conn -> {"new", "refused", "handshake", "starting", "idle", "waiting",
                          "joining", "unmap", "last", "done"}]
    BY <1>4 DEF Greeted, Goto, Typed
  <2> QED BY <2>0, <2>1, <2>2, <2>3 DEF Typed, gateway, process, pipes, redis, fuse
<1>5. ASSUME NEW c \in Conn, NotGreeted(c) PROVE Typed'
  BY <1>5 DEF NotGreeted, Shut, Goto, gateway, process, pipes, redis, fuse, Typed, Quit
<1>6. ASSUME NEW c \in Conn, CommandIn(c) PROVE Typed'
  <2>0. UNCHANGED <<free, process, up, redis, fuse, reaper, faults>>
    BY <1>6 DEF CommandIn
  <2>1. CommandRow(sent[c] + 1) \in Rows
    BY <1>6 DEF CommandRow, Rows, Typed
  <2>2. Append(trail[c], CommandRow(sent[c] + 1)) \in Seq(Rows)
    BY <1>6, <2>1 DEF Typed
  <2>3. trail' \in [Conn -> Seq(Rows)]
    BY <1>6, <2>2 DEF CommandIn, Row, Typed
  <2>4. /\ Append(down[c], sent[c] + 1) \in Seq(Nat \cup {Quit})
         /\ Append(down[c], Quit) \in Seq(Nat \cup {Quit})
    BY <1>6 DEF Typed
  <2>5. \E m \in Seq(Nat \cup {Quit}) : down' = [down EXCEPT ![c] = m] \/ down' = down
    BY <1>6, <2>4 DEF CommandIn, Shut
  <2>6. down' \in [Conn -> Seq(Nat \cup {Quit})]
    BY <1>6, <2>5 DEF Typed
  <2>7. \E t \in {"waiting", "joining", "last"} : thread' = [thread EXCEPT ![c] = t]
    BY <1>6 DEF CommandIn, Shut, Goto
  <2>8. thread' \in [Conn -> {"new", "refused", "handshake", "starting", "idle", "waiting",
                          "joining", "unmap", "last", "done"}]
    BY <1>6, <2>7 DEF Typed
  <2>9. sent' \in [Conn -> Nat] /\ \A d \in Conn : sent'[d] <= MaxCommands[d]
    BY <1>6 DEF CommandIn, Typed
  <2> QED BY <2>0, <2>1, <2>2, <2>3, <2>4, <2>5, <2>6, <2>7, <2>8, <2>9 DEF Typed,
      gateway, process, pipes, redis, fuse
<1>7. ASSUME NEW c \in Conn, HangUp(c) PROVE Typed'
  BY <1>7 DEF HangUp, Shut, Goto, gateway, process, pipes, redis, fuse, Typed, Quit
<1>8. ASSUME NEW c \in Conn, Result(c) PROVE Typed'
  <2>0. UNCHANGED <<free, sent, process, down, redis, fuse, reaper, faults>>
    BY <1>8 DEF Result
  <2>1. Head(up[c]) \in Nat /\ Tail(up[c]) \in Seq(Nat)
    BY <1>8 DEF Result, Typed
  <2>2. ResultRow(sent[c], Head(up[c])) \in Rows
    BY <1>8, <2>1 DEF ResultRow, Rows, Typed
  <2>3. Append(trail[c], ResultRow(sent[c], Head(up[c]))) \in Seq(Rows)
    BY <1>8, <2>2 DEF Typed
  <2>4. trail' \in [Conn -> Seq(Rows)]
    BY <1>8, <2>3 DEF Result, Row, Typed
  <2>5. up' \in [Conn -> Seq(Nat)]
    BY <1>8, <2>1 DEF Result, Typed
  <2>6. thread' \in [Conn -> {"new", "refused", "handshake", "starting", "idle", "waiting",
                          "joining", "unmap", "last", "done"}]
    BY <1>8 DEF Result, Goto, Typed
  <2> QED BY <2>0, <2>1, <2>2, <2>3, <2>4, <2>5, <2>6 DEF Typed, gateway, process, pipes,
      redis, fuse
<1>9. ASSUME NEW c \in Conn, NoAnswer(c) PROVE Typed'
  <2>0. UNCHANGED <<free, sent, process, up, redis, fuse, reaper, faults>>
    BY <1>9 DEF NoAnswer
  <2>1. ResultRow(sent[c], Unknown) \in Rows
    BY <1>9 DEF ResultRow, Unknown, Rows, Typed
  <2>2. Append(trail[c], ResultRow(sent[c], Unknown)) \in Seq(Rows)
    BY <1>9, <2>1 DEF Typed
  <2>3. trail' \in [Conn -> Seq(Rows)]
    BY <1>9, <2>2 DEF NoAnswer, Row, Typed
  <2>4. down' \in [Conn -> Seq(Nat \cup {Quit})]
    BY <1>9 DEF NoAnswer, Shut, Quit, Typed
  <2>5. thread' \in [Conn -> {"new", "refused", "handshake", "starting", "idle", "waiting",
                          "joining", "unmap", "last", "done"}]
    BY <1>9 DEF NoAnswer, Shut, Goto, Typed
  <2> QED BY <2>0, <2>1, <2>2, <2>3, <2>4, <2>5 DEF Typed, gateway, process, pipes, redis,
      fuse
<1>10. ASSUME NEW c \in Conn, AuditRefused(c) PROVE Typed'
  <2>0. UNCHANGED <<free, sent, trail, process, redis, fuse, reaper>>
    BY <1>10 DEF AuditRefused
  <2>1. up[c] # <<>> => Tail(up[c]) \in Seq(Nat)
    BY <1>10 DEF Typed
  <2>2. up' \in [Conn -> Seq(Nat)]
    BY <1>10, <2>1 DEF AuditRefused, Typed
  <2>3. down' \in [Conn -> Seq(Nat \cup {Quit})]
    BY <1>10 DEF AuditRefused, Shut, Quit, Typed
  <2>4. thread' \in [Conn -> {"new", "refused", "handshake", "starting", "idle", "waiting",
                          "joining", "unmap", "last", "done"}]
    BY <1>10 DEF AuditRefused, Shut, Goto, Typed
  <2>5. faults' \in 0..MaxFaults
    BY <1>10 DEF AuditRefused, Fault, Typed
  <2> QED BY <2>0, <2>1, <2>2, <2>3, <2>4, <2>5 DEF Typed, gateway, process, pipes, redis,
      fuse
<1>11. ASSUME NEW c \in Conn, Join(c) PROVE Typed'
  BY <1>11 DEF Join, Goto, Dies, Become, gateway, process, pipes, redis, fuse, Typed
<1>12. ASSUME NEW c \in Conn, Unmap(c) PROVE Typed'
  <2>0. UNCHANGED <<free, sent, trail, process, pipes, active, fuse, reaper>>
    BY <1>12 DEF Unmap
  <2>1. map' \in [Pid -> Conn \cup {None}]
    BY <1>12 DEF Unmap, Unmapped, Typed
  <2>2. faults' \in 0..MaxFaults
    BY <1>12 DEF Unmap, Fault, Typed
  <2>3. thread' \in [Conn -> {"new", "refused", "handshake", "starting", "idle", "waiting",
                          "joining", "unmap", "last", "done"}]
    BY <1>12 DEF Unmap, Goto, Typed
  <2> QED BY <2>0, <2>1, <2>2, <2>3 DEF Typed, gateway, process, pipes, redis, fuse
<1>13. ASSUME NEW c \in Conn, Disconnect(c) PROVE Typed'
  <2>0. UNCHANGED <<sent, process, pipes, redis, fuse, reaper>>
    BY <1>13 DEF Disconnect
  <2>1. DisconnectRow \in Rows
    BY <1>13 DEF DisconnectRow, Rows
  <2>2. Append(trail[c], DisconnectRow) \in Seq(Rows)
    BY <1>13, <2>1 DEF Typed
  <2>3. trail' \in [Conn -> Seq(Rows)]
    BY <1>13, <2>2 DEF Disconnect, Leave, Row, Typed
  <2>4. faults' \in 0..MaxFaults
    BY <1>13 DEF Disconnect, Leave, Fault, Typed
  <2>5. thread' \in [Conn -> {"new", "refused", "handshake", "starting", "idle", "waiting",
                          "joining", "unmap", "last", "done"}]
    BY <1>13 DEF Disconnect, Goto, Typed
  <2> QED BY <2>0, <2>1, <2>2, <2>3, <2>4, <2>5 DEF Typed, gateway, process, pipes, redis,
      fuse
<1>14. ASSUME NEW c \in Conn, Register(c) PROVE Typed'
  BY <1>14 DEF Register, Become, Registered, gateway, process, pipes, redis, fuse, Typed
<1>15. ASSUME NEW c \in Conn, SendInit(c) PROVE Typed'
  BY <1>15 DEF SendInit, Become, gateway, process, pipes, redis, fuse, Typed
<1>16. ASSUME NEW c \in Conn, Receive(c) PROVE Typed'
  <2>0. UNCHANGED <<gateway, pid, up, map, fuse, reaper, faults>>
    BY <1>16 DEF Receive
  <2>1. down[c] # <<>> =>
          Head(down[c]) \in Nat \cup {Quit} /\ Tail(down[c]) \in Seq(Nat \cup {Quit})
    BY <1>16 DEF Typed
  <2>2. down' \in [Conn -> Seq(Nat \cup {Quit})]
    BY <1>16, <2>1 DEF Receive, Typed
  <2>3. doing' \in [Conn -> Nat]
    BY <1>16, <2>1 DEF Receive, Typed
  <2>4. active' \in [Conn -> Nat]
    BY <1>16, <2>1 DEF Receive, Typed
  <2>5. \E w \in {"exit", "busy"} : worker' = [worker EXCEPT ![c] = w]
    BY <1>16 DEF Receive, Become
  <2>6. worker' \in [Conn -> {"none", "boot", "ready", "loop", "busy", "exit", "dead"}]
    BY <1>16, <2>5 DEF Typed
  <2> QED BY <2>0, <2>1, <2>2, <2>3, <2>4, <2>5, <2>6 DEF Typed, gateway, process, pipes,
      redis, fuse
<1>17. ASSUME NEW c \in Conn, Answer(c) PROVE Typed'
  BY <1>17 DEF Answer, Become, gateway, process, pipes, redis, fuse, Typed
<1>18. ASSUME NEW c \in Conn, WorkerFails(c) PROVE Typed'
  BY <1>18 DEF WorkerFails, Become, Fault, gateway, process, pipes, redis, fuse, Typed
<1>19. ASSUME NEW c \in Conn, Exit(c) PROVE Typed'
  <2>0. UNCHANGED <<gateway, pid, pipes, active, fuse, reaper>>
    BY <1>19 DEF Exit
  <2>1. map' \in [Pid -> Conn \cup {None}]
    BY <1>19 DEF Exit, Typed
  <2>2. faults' \in 0..MaxFaults
    BY <1>19 DEF Exit, Fault, Typed
  <2>3. worker' \in [Conn -> {"none", "boot", "ready", "loop", "busy", "exit", "dead"}]
    BY <1>19 DEF Exit, Dies, Become, Typed
  <2>4. doing' \in [Conn -> Nat]
    BY <1>19 DEF Exit, Dies, Typed
  <2> QED BY <2>0, <2>1, <2>2, <2>3, <2>4 DEF Typed, gateway, process, pipes, redis, fuse
<1>20. ASSUME NEW c \in Conn, Die(c) PROVE Typed'
  BY <1>20 DEF Die, Dies, Become, Fault, gateway, process, pipes, redis, fuse, Typed
<1>21. ASSUME NEW c \in Conn, ActiveExpires(c) PROVE Typed'
  BY <1>21 DEF ActiveExpires, gateway, process, pipes, redis, fuse, Typed
<1>22. ASSUME NEW c \in Conn, Enter(c) PROVE Typed'
  <2>0. UNCHANGED <<gateway, process, pipes, redis, kernel, keys, sessions, reaper, faults>>
    BY <1>22 DEF Enter
  <2>1. pid[c] \in Pid
    BY <1>22 DEF Enter, PidsDistinct, Uses, Alive
  <2>2. map[pid[c]] \in Conn
    BY <1>22, <2>1 DEF Enter, Typed
  <2>3. [at |-> "entered", session |-> map[pid[c]], cmd |-> doing[c]] \in Calls
    BY <1>22, <2>2 DEF Calls, Typed
  <2>4. call' \in [Conn -> Calls]
    BY <1>22, <2>3 DEF Enter, Typed
  <2> QED BY <2>0, <2>1, <2>2, <2>3, <2>4 DEF Typed, gateway, process, pipes, redis, fuse
<1>23. ASSUME NEW c \in Conn, Bind(c) PROVE Typed'
  <2>0. UNCHANGED <<gateway, process, pipes, redis, kernel, reaper, faults>>
    BY <1>23 DEF Bind
  <2>1. call[c] \in Calls /\ NoCall \in Calls
    BY <1>23 DEF NoCall, Calls, Typed
  <2>2. [call[c] EXCEPT !.at = "bound"] \in Calls
    BY <1>23, <2>1 DEF Calls
  <2>3. call' \in [Conn -> Calls]
    BY <1>23, <2>1, <2>2 DEF Bind, Typed
  <2>4. pid[c] \in Pid
    BY <1>23 DEF Bind, NoCall, PidsDistinct, Uses
  <2>5. map[pid[c]] \in Conn \cup {None}
    BY <1>23, <2>4 DEF Typed
  <2>6. keys' \in [Conn -> SUBSET {"next", "file"}]
    BY <1>23, <2>5 DEF Bind, Typed
  <2>7. sessions' \subseteq Conn
    BY <1>23, <2>5 DEF Bind, Typed
  <2> QED BY <2>0, <2>1, <2>2, <2>3, <2>4, <2>5, <2>6, <2>7 DEF Typed, gateway, process,
      pipes, redis, fuse
<1>24. ASSUME NEW c \in Conn, Serve(c) PROVE Typed'
  BY <1>24 DEF Serve, gateway, process, pipes, redis, fuse, Typed, Calls, NoCall
<1>25. ASSUME NEW p \in Pid, MapExpires(p) PROVE Typed'
  BY <1>25 DEF MapExpires, gateway, process, pipes, redis, fuse, Typed
<1>26. ASSUME ScanPids PROVE Typed'
  <2>0. UNCHANGED <<gateway, process, pipes, redis, fuse, faults>>
    BY <1>26 DEF ScanPids
  <2>1. {map[p] : p \in Pid} \ {None} \in SUBSET Conn
    BY <1>26 DEF Typed
  <2>2. reaper' = [at |-> "pids", seen |-> {map[p] : p \in Pid} \ {None}, todo |-> {},
                    victim |-> None, left |-> {}]
    BY <1>26 DEF ScanPids, Asleep
  <2>3. reaper' \in Reapers
    BY <1>26, <2>1, <2>2 DEF Reapers
  <2> QED BY <2>0, <2>1, <2>2, <2>3 DEF Typed, gateway, process, pipes, redis, fuse
<1>27. ASSUME ScanNamespaces PROVE Typed'
  <2>0. UNCHANGED <<gateway, process, pipes, redis, fuse, faults>>
    BY <1>27 DEF ScanNamespaces
  <2>1. reaper' \in Reapers
    BY <1>27, TakeTyped, {s \in Conn : "next" \in keys[s]} \ reaper.seen \in SUBSET Conn
        DEF ScanNamespaces
  <2> QED BY <2>0, <2>1 DEF Typed, gateway, process, pipes, redis, fuse
<1>28. ASSUME DeleteKey PROVE Typed'
  <2>0. UNCHANGED <<gateway, process, pipes, redis, call, kernel, sessions, faults>>
    BY <1>28 DEF DeleteKey
  <2>1. reaper \in Reapers
    BY <1>28 DEF Typed
  <2>2. /\ reaper.at \in {"idle", "pids", "deleting"} /\ reaper.seen \in SUBSET Conn
         /\ reaper.todo \in SUBSET Conn /\ reaper.victim \in Conn \cup {None}
         /\ reaper.left \in SUBSET {"next", "file"}
    BY <1>28, <2>1 DEF Reapers
  <2>3. PICK k \in reaper.left : /\ reaper' = [reaper EXCEPT !.left = @ \ {k}]
                                /\ keys' = [keys EXCEPT ![reaper.victim] = @ \ {k}]
    BY <1>28 DEF DeleteKey
  <2>4. reaper' = [at |-> reaper.at, seen |-> reaper.seen, todo |-> reaper.todo,
                    victim |-> reaper.victim, left |-> reaper.left \ {k}]
    BY <1>28, <2>1, <2>3 DEF Reapers
  <2>5. reaper' \in Reapers
    BY <1>28, <2>2, <2>4 DEF Reapers
  <2>6. keys' \in [Conn -> SUBSET {"next", "file"}]
    BY <1>28, <2>3 DEF Typed
  <2> QED BY <2>0, <2>1, <2>2, <2>3, <2>4, <2>5, <2>6 DEF Typed, gateway, process, pipes,
      redis, fuse
<1>29. ASSUME Forget PROVE Typed'
  <2>0. UNCHANGED <<gateway, process, pipes, redis, call, kernel, keys, faults>>
    BY <1>29 DEF Forget
  <2>1. reaper.todo \in SUBSET Conn
    BY <1>29 DEF Typed, Reapers
  <2>2. reaper' \in Reapers
    BY <1>29, TakeTyped, <2>1 DEF Forget
  <2>3. sessions' \subseteq Conn
    BY <1>29 DEF Forget, Typed
  <2> QED BY <2>0, <2>1, <2>2, <2>3 DEF Typed, gateway, process, pipes, redis, fuse
<1>30. ASSUME ReapFails PROVE Typed'
  <2>0. UNCHANGED <<gateway, process, pipes, redis, fuse>>
    BY <1>30 DEF ReapFails
  <2>1. reaper' \in Reapers
    BY <1>30 DEF ReapFails, Asleep, Reapers
  <2>2. faults' \in 0..MaxFaults
    BY <1>30 DEF ReapFails, Fault, Typed
  <2> QED BY <2>0, <2>1, <2>2 DEF Typed, gateway, process, pipes, redis, fuse
<1>31. ASSUME Restart PROVE Typed'
  <2>0. UNCHANGED <<sent, trail, pid, redis, kernel, keys>>
    BY <1>31 DEF Restart
  <2>1. <<>> \in Seq(Nat) /\ <<>> \in Seq(Nat \cup {Quit})
    BY <1>31 DEF Quit
  <2>2. down' \in [Conn -> Seq(Nat \cup {Quit})] /\ up' \in [Conn -> Seq(Nat)]
    BY <1>31, <2>1 DEF Restart
  <2>3. NoCall \in Calls
    BY <1>31 DEF NoCall, Calls
  <2>4. call' \in [Conn -> Calls]
    BY <1>31, <2>3 DEF Restart
  <2>5. reaper' \in Reapers
    BY <1>31 DEF Restart, Asleep, Reapers
  <2>6. faults' \in 0..MaxFaults
    BY <1>31 DEF Restart, Fault, Typed
  <2>7. thread' \in [Conn -> {"new", "refused", "handshake", "starting", "idle", "waiting",
                          "joining", "unmap", "last", "done"}]
    BY <1>31 DEF Restart, Typed
  <2>8. worker' \in [Conn -> {"none", "boot", "ready", "loop", "busy", "exit", "dead"}]
    BY <1>31 DEF Restart, Typed
  <2>9. doing' \in [Conn -> Nat] /\ sessions' \subseteq Conn
    BY <1>31 DEF Restart
  <2> QED BY <2>0, <2>1, <2>2, <2>3, <2>4, <2>5, <2>6, <2>7, <2>8, <2>9 DEF Typed,
      gateway, process, pipes, redis, fuse
<1>32. CASE UNCHANGED vars
  BY <1>32 DEF vars, gateway, process, pipes, redis, fuse, Typed
<1> QED
  BY <1>1, <1>2, <1>3, <1>4, <1>5, <1>6, <1>7, <1>8, <1>9, <1>10, <1>11, <1>12, <1>13,
      <1>14, <1>15, <1>16, <1>17, <1>18, <1>19, <1>20, <1>21, <1>22, <1>23, <1>24, <1>25,
      <1>26, <1>27, <1>28, <1>29, <1>30, <1>31, <1>32
  DEF Next, Gateway, Callback, Reaper, Worker

-----------------------------------------------------------------------------
(* Slots *)

\* A slot is taken with Accept and given back once, with Disconnect or a restart.
LEMMA SlotsStep ==
  Typed /\ SlotsCounted /\ [Next]_vars => SlotsCounted'
<1> SUFFICES ASSUME Typed, SlotsCounted, [Next]_vars PROVE SlotsCounted'
  OBVIOUS
<1> Served \in SUBSET Conn /\ IsFiniteSet(Served) /\ Cardinality(Served) \in Nat
  <2>1. Served \in SUBSET Conn
    BY DEF Served
  <2>2. IsFiniteSet(Served)
    BY <2>1, FS_Subset, SessionConstants
  <2> QED BY <2>1, <2>2, FS_CardinalityType
<1> Slots \in Nat
  BY SessionConstants
<1>1. ASSUME NEW c \in Conn, Accept(c) PROVE SlotsCounted'
  <2>1. CASE free > 0
    <3>1. Served' = Served \cup {c} /\ c \notin Served
      BY <1>1, <2>1 DEF Accept, Goto, Served, Typed
    <3>2. Cardinality(Served') = Cardinality(Served) + 1
      BY <3>1, FS_AddElement
    <3> QED BY <1>1, <2>1, <3>2 DEF Accept, SlotsCounted
  <2>2. CASE ~(free > 0)
    <3>1. Served' = Served
      BY <1>1, <2>2 DEF Accept, Goto, Served, Typed
    <3> QED BY <1>1, <2>2, <3>1 DEF Accept, SlotsCounted
  <2> QED BY <2>1, <2>2
<1>2. ASSUME NEW c \in Conn, NoShell(c) PROVE SlotsCounted'
  <2>1. Served' = Served /\ free' = free
    BY <1>2 DEF NoShell, Goto, Shut, Served, Typed
  <2> QED BY <2>1 DEF SlotsCounted
<1>3. ASSUME NEW c \in Conn, StartWorker(c) PROVE SlotsCounted'
  <2>1. Served' = Served /\ free' = free
    BY <1>3 DEF StartWorker, Goto, Served, Typed
  <2> QED BY <2>1 DEF SlotsCounted
<1>4. ASSUME NEW c \in Conn, Greeted(c) PROVE SlotsCounted'
  <2>1. Served' = Served /\ free' = free
    BY <1>4 DEF Greeted, Goto, Served, Typed
  <2> QED BY <2>1 DEF SlotsCounted
<1>5. ASSUME NEW c \in Conn, NotGreeted(c) PROVE SlotsCounted'
  <2>1. Served' = Served /\ free' = free
    BY <1>5 DEF NotGreeted, Goto, Shut, Served, Typed
  <2> QED BY <2>1 DEF SlotsCounted
<1>6. ASSUME NEW c \in Conn, CommandIn(c) PROVE SlotsCounted'
  <2>1. Served' = Served /\ free' = free
    BY <1>6 DEF CommandIn, Goto, Shut, Served, Typed
  <2> QED BY <2>1 DEF SlotsCounted
<1>7. ASSUME NEW c \in Conn, HangUp(c) PROVE SlotsCounted'
  <2>1. Served' = Served /\ free' = free
    BY <1>7 DEF HangUp, Goto, Shut, Served, Typed
  <2> QED BY <2>1 DEF SlotsCounted
<1>8. ASSUME NEW c \in Conn, Result(c) PROVE SlotsCounted'
  <2>1. Served' = Served /\ free' = free
    BY <1>8 DEF Result, Goto, Served, Typed
  <2> QED BY <2>1 DEF SlotsCounted
<1>9. ASSUME NEW c \in Conn, NoAnswer(c) PROVE SlotsCounted'
  <2>1. Served' = Served /\ free' = free
    BY <1>9 DEF NoAnswer, Goto, Shut, Served, Typed
  <2> QED BY <2>1 DEF SlotsCounted
<1>10. ASSUME NEW c \in Conn, AuditRefused(c) PROVE SlotsCounted'
  <2>1. Served' = Served /\ free' = free
    BY <1>10 DEF AuditRefused, Goto, Shut, Served, Typed
  <2> QED BY <2>1 DEF SlotsCounted
<1>11. ASSUME NEW c \in Conn, Join(c) PROVE SlotsCounted'
  <2>1. Served' = Served /\ free' = free
    BY <1>11 DEF Join, Goto, Served, Typed
  <2> QED BY <2>1 DEF SlotsCounted
<1>12. ASSUME NEW c \in Conn, Unmap(c) PROVE SlotsCounted'
  <2>1. Served' = Served /\ free' = free
    BY <1>12 DEF Unmap, Goto, Served, Typed
  <2> QED BY <2>1 DEF SlotsCounted
<1>13. ASSUME NEW c \in Conn, Disconnect(c) PROVE SlotsCounted'
  <2>1. Served' = Served \ {c} /\ c \in Served
    BY <1>13 DEF Disconnect, Goto, Served, Typed
  <2>2. Cardinality(Served') = Cardinality(Served) - 1
    BY <2>1, FS_RemoveElement
  <2>3. free' = free + 1
    BY <1>13 DEF Disconnect, Leave
  <2> QED BY <2>2, <2>3 DEF SlotsCounted
<1>14. ASSUME NEW c \in Conn, Register(c) PROVE SlotsCounted'
  BY <1>14 DEF Register, gateway, SlotsCounted, Served
<1>15. ASSUME NEW c \in Conn, SendInit(c) PROVE SlotsCounted'
  BY <1>15 DEF SendInit, gateway, SlotsCounted, Served
<1>16. ASSUME NEW c \in Conn, Receive(c) PROVE SlotsCounted'
  BY <1>16 DEF Receive, gateway, SlotsCounted, Served
<1>17. ASSUME NEW c \in Conn, Answer(c) PROVE SlotsCounted'
  BY <1>17 DEF Answer, gateway, SlotsCounted, Served
<1>18. ASSUME NEW c \in Conn, WorkerFails(c) PROVE SlotsCounted'
  BY <1>18 DEF WorkerFails, gateway, SlotsCounted, Served
<1>19. ASSUME NEW c \in Conn, Exit(c) PROVE SlotsCounted'
  BY <1>19 DEF Exit, gateway, SlotsCounted, Served
<1>20. ASSUME NEW c \in Conn, Die(c) PROVE SlotsCounted'
  BY <1>20 DEF Die, gateway, SlotsCounted, Served
<1>21. ASSUME NEW c \in Conn, ActiveExpires(c) PROVE SlotsCounted'
  BY <1>21 DEF ActiveExpires, gateway, SlotsCounted, Served
<1>22. ASSUME NEW c \in Conn, Enter(c) PROVE SlotsCounted'
  BY <1>22 DEF Enter, gateway, SlotsCounted, Served
<1>23. ASSUME NEW c \in Conn, Bind(c) PROVE SlotsCounted'
  BY <1>23 DEF Bind, gateway, SlotsCounted, Served
<1>24. ASSUME NEW c \in Conn, Serve(c) PROVE SlotsCounted'
  BY <1>24 DEF Serve, gateway, SlotsCounted, Served
<1>25. ASSUME NEW p \in Pid, MapExpires(p) PROVE SlotsCounted'
  BY <1>25 DEF MapExpires, gateway, SlotsCounted, Served
<1>26. ASSUME ScanPids PROVE SlotsCounted'
  BY <1>26 DEF ScanPids, gateway, SlotsCounted, Served
<1>27. ASSUME ScanNamespaces PROVE SlotsCounted'
  BY <1>27 DEF ScanNamespaces, gateway, SlotsCounted, Served
<1>28. ASSUME DeleteKey PROVE SlotsCounted'
  BY <1>28 DEF DeleteKey, gateway, SlotsCounted, Served
<1>29. ASSUME Forget PROVE SlotsCounted'
  BY <1>29 DEF Forget, gateway, SlotsCounted, Served
<1>30. ASSUME ReapFails PROVE SlotsCounted'
  BY <1>30 DEF ReapFails, gateway, SlotsCounted, Served
<1>31. ASSUME Restart PROVE SlotsCounted'
  <2>1. Served' = {}
    BY <1>31 DEF Restart, Served
  <2> QED BY <1>31, <2>1, FS_EmptySet, SessionConstants DEF Restart, SlotsCounted
<1>32. CASE UNCHANGED vars
  BY <1>32 DEF vars, gateway, SlotsCounted, Served
<1> QED
  BY <1>1, <1>2, <1>3, <1>4, <1>5, <1>6, <1>7, <1>8, <1>9, <1>10, <1>11, <1>12, <1>13,
      <1>14, <1>15, <1>16, <1>17, <1>18, <1>19, <1>20, <1>21, <1>22, <1>23, <1>24, <1>25,
      <1>26, <1>27, <1>28, <1>29, <1>30, <1>31, <1>32
  DEF Next, Gateway, Callback, Reaper, Worker

-----------------------------------------------------------------------------
(* PIDs, mappings and tags *)

\* A worker is made after the handshake and is dead after the join.
LEMMA StagesStep ==
  Typed /\ Stages /\ [Next]_vars => Stages'
<1> SUFFICES ASSUME Typed, Stages, [Next]_vars PROVE Stages'
  OBVIOUS
\* Steps that leave alone what it is about.
<1>1. ASSUME UNCHANGED <<thread, worker>> PROVE Stages'
  BY <1>1 DEF Stages, Typed
<1>2. ASSUME NEW c \in Conn,
             \/ ActiveExpires(c) \/ Enter(c) \/ Bind(c) \/ Serve(c)
      PROVE  Stages'
  BY <1>2, <1>1 DEF ActiveExpires, Enter, Bind, Serve, gateway, process
<1>3. ASSUME NEW p \in Pid,
             MapExpires(p)
      PROVE  Stages'
  BY <1>3, <1>1 DEF MapExpires, gateway, process
<1>4. ASSUME \/ ScanPids \/ ScanNamespaces \/ DeleteKey \/ Forget \/ ReapFails
      PROVE  Stages'
  BY <1>4, <1>1 DEF ScanPids, ScanNamespaces, DeleteKey, Forget, ReapFails, gateway,
    process
<1>5. ASSUME NEW c \in Conn, Accept(c) PROVE Stages'
  BY <1>5 DEF Accept, Goto, process, Stages, Typed
<1>6. ASSUME NEW c \in Conn, NoShell(c) PROVE Stages'
  BY <1>6 DEF NoShell, Shut, Goto, process, Stages, Typed
<1>7. ASSUME NEW c \in Conn, StartWorker(c) PROVE Stages'
  BY <1>7 DEF StartWorker, Goto, Become, Stages, Typed
<1>8. ASSUME NEW c \in Conn, Greeted(c) PROVE Stages'
  BY <1>8 DEF Greeted, Goto, process, Stages, Typed
<1>9. ASSUME NEW c \in Conn, NotGreeted(c) PROVE Stages'
  BY <1>9 DEF NotGreeted, Shut, Goto, process, Stages, Typed
<1>10. ASSUME NEW c \in Conn, CommandIn(c) PROVE Stages'
  BY <1>10 DEF CommandIn, Shut, Goto, process, Stages, Typed
<1>11. ASSUME NEW c \in Conn, HangUp(c) PROVE Stages'
  BY <1>11 DEF HangUp, Shut, Goto, process, Stages, Typed
<1>12. ASSUME NEW c \in Conn, Result(c) PROVE Stages'
  BY <1>12 DEF Result, Goto, process, Stages, Typed
<1>13. ASSUME NEW c \in Conn, NoAnswer(c) PROVE Stages'
  BY <1>13 DEF NoAnswer, Shut, Goto, process, Stages, Typed
<1>14. ASSUME NEW c \in Conn, AuditRefused(c) PROVE Stages'
  BY <1>14 DEF AuditRefused, Shut, Goto, process, Stages, Typed
<1>15. ASSUME NEW c \in Conn, Join(c) PROVE Stages'
  BY <1>15 DEF Join, Goto, Dies, Become, Stages, Typed
<1>16. ASSUME NEW c \in Conn, Unmap(c) PROVE Stages'
  BY <1>16 DEF Unmap, Goto, process, Stages, Typed
<1>17. ASSUME NEW c \in Conn, Disconnect(c) PROVE Stages'
  BY <1>17 DEF Disconnect, Goto, process, Stages, Typed
<1>18. ASSUME NEW c \in Conn, Register(c) PROVE Stages'
  BY <1>18 DEF Register, Become, gateway, Stages, Typed
<1>19. ASSUME NEW c \in Conn, SendInit(c) PROVE Stages'
  BY <1>19 DEF SendInit, Become, gateway, Stages, Typed
<1>20. ASSUME NEW c \in Conn, Receive(c) PROVE Stages'
  BY <1>20 DEF Receive, Become, gateway, Stages, Typed
<1>21. ASSUME NEW c \in Conn, Answer(c) PROVE Stages'
  BY <1>21 DEF Answer, Become, gateway, Stages, Typed
<1>22. ASSUME NEW c \in Conn, WorkerFails(c) PROVE Stages'
  BY <1>22 DEF WorkerFails, Become, gateway, Stages, Typed
<1>23. ASSUME NEW c \in Conn, Exit(c) PROVE Stages'
  BY <1>23 DEF Exit, Dies, Become, gateway, Stages, Typed
<1>24. ASSUME NEW c \in Conn, Die(c) PROVE Stages'
  BY <1>24 DEF Die, Dies, Become, gateway, Alive, Stages, Typed
<1>25. ASSUME Restart PROVE Stages'
  BY <1>25 DEF Restart, Stages, Typed
<1>26. CASE UNCHANGED vars
  BY <1>26, <1>1 DEF vars, gateway, process
<1> QED
  BY <1>2, <1>3, <1>4, <1>5, <1>6, <1>7, <1>8, <1>9, <1>10, <1>11, <1>12, <1>13, <1>14,
    <1>15, <1>16, <1>17, <1>18, <1>19, <1>20, <1>21, <1>22, <1>23, <1>24, <1>25, <1>26
  DEF Next, Gateway, Callback, Reaper, Worker

\* A PID is given to a new worker only when nobody uses it.
LEMMA PidsStep ==
  Typed /\ Stages /\ PidsDistinct /\ CallsTrue /\ [Next]_vars => PidsDistinct'
<1> SUFFICES ASSUME Typed, Stages, PidsDistinct, CallsTrue, [Next]_vars
             PROVE  PidsDistinct'
  OBVIOUS
\* Steps that leave alone what it is about.
<1>1. ASSUME UNCHANGED <<worker, pid, call>> PROVE PidsDistinct'
  BY <1>1 DEF PidsDistinct, Uses, Alive, Typed
<1>2. ASSUME NEW c \in Conn,
             \/ Accept(c) \/ NoShell(c) \/ Greeted(c) \/ NotGreeted(c)
             \/ CommandIn(c) \/ HangUp(c) \/ Result(c) \/ NoAnswer(c)
             \/ AuditRefused(c) \/ Unmap(c) \/ Disconnect(c) \/ ActiveExpires(c)
      PROVE  PidsDistinct'
  BY <1>2, <1>1 DEF Accept, NoShell, Greeted, NotGreeted, CommandIn, HangUp, Result,
    NoAnswer, AuditRefused, Unmap, Disconnect, ActiveExpires, process, fuse
<1>3. ASSUME NEW p \in Pid,
             MapExpires(p)
      PROVE  PidsDistinct'
  BY <1>3, <1>1 DEF MapExpires, process, fuse
<1>4. ASSUME \/ ScanPids \/ ScanNamespaces \/ DeleteKey \/ Forget \/ ReapFails
      PROVE  PidsDistinct'
  BY <1>4, <1>1 DEF ScanPids, ScanNamespaces, DeleteKey, Forget, ReapFails, process,
    fuse
<1>5. ASSUME NEW c \in Conn, StartWorker(c) PROVE PidsDistinct'
  <2>1. PICK p \in Pid : FreePid(p) /\ pid' = [pid EXCEPT ![c] = p]
    BY <1>5 DEF StartWorker
  <2>2. worker' = [worker EXCEPT ![c] = "boot"] /\ call' = call
    BY <1>5 DEF StartWorker, Become, fuse
  <2>3. pid'[c] = p /\ \A d \in Conn : Uses(d) => pid[d] # p
    BY <2>1 DEF FreePid, Uses, Typed
  <2>4. \A d \in Conn : d # c => pid'[d] = pid[d] /\ (Uses(d)' <=> Uses(d))
    BY <2>1, <2>2 DEF Uses, Alive, Typed
  <2> QED BY <2>3, <2>4 DEF PidsDistinct
<1>6. ASSUME NEW c \in Conn, Join(c) PROVE PidsDistinct'
  BY <1>6 DEF Join, Dies, Become, fuse, PidsDistinct, Uses, Alive, Typed
<1>7. ASSUME NEW c \in Conn, Register(c) PROVE PidsDistinct'
  BY <1>7 DEF Register, Become, fuse, PidsDistinct, Uses, Alive, Typed
<1>8. ASSUME NEW c \in Conn, SendInit(c) PROVE PidsDistinct'
  BY <1>8 DEF SendInit, Become, fuse, PidsDistinct, Uses, Alive, Typed
<1>9. ASSUME NEW c \in Conn, Receive(c) PROVE PidsDistinct'
  <2>1. /\ \E w \in {"exit", "busy"} : worker' = [worker EXCEPT ![c] = w]
        /\ worker[c] = "loop" /\ pid' = pid /\ call' = call
    BY <1>9 DEF Receive, Become, fuse
  <2> QED BY <2>1 DEF PidsDistinct, Uses, Alive, Typed
<1>10. ASSUME NEW c \in Conn, Answer(c) PROVE PidsDistinct'
  BY <1>10 DEF Answer, Become, fuse, PidsDistinct, Uses, Alive, Typed
<1>11. ASSUME NEW c \in Conn, WorkerFails(c) PROVE PidsDistinct'
  BY <1>11 DEF WorkerFails, Become, fuse, PidsDistinct, Uses, Alive, Typed
<1>12. ASSUME NEW c \in Conn, Exit(c) PROVE PidsDistinct'
  BY <1>12 DEF Exit, Dies, Become, fuse, PidsDistinct, Uses, Alive, Typed
<1>13. ASSUME NEW c \in Conn, Die(c) PROVE PidsDistinct'
  BY <1>13 DEF Die, Dies, Become, fuse, PidsDistinct, Uses, Alive, Typed
<1>14. ASSUME NEW c \in Conn, Enter(c) PROVE PidsDistinct'
  BY <1>14 DEF Enter, process, PidsDistinct, Uses, Alive, Typed
<1>15. ASSUME NEW c \in Conn, Bind(c) PROVE PidsDistinct'
  <2>1. call[c] # NoCall
    BY <1>15 DEF Bind, NoCall
  <2>2. \/ call' = [call EXCEPT ![c] = NoCall]
        \/ call' = [call EXCEPT ![c].at = "bound"]
    BY <1>15 DEF Bind
  <2>3. worker' = worker /\ pid' = pid /\ active' = active
    BY <1>15 DEF Bind, process, redis
  <2>4. \A d \in Conn : call'[d] # NoCall => call[d] # NoCall
    BY <2>1, <2>2 DEF Typed
  <2> QED BY <2>3, <2>4 DEF PidsDistinct, Uses, Alive
<1>16. ASSUME NEW c \in Conn, Serve(c) PROVE PidsDistinct'
  BY <1>16 DEF Serve, process, PidsDistinct, Uses, Alive, Typed
<1>17. ASSUME Restart PROVE PidsDistinct'
  BY <1>17 DEF Restart, PidsDistinct, Uses, Alive, Typed
<1>18. CASE UNCHANGED vars
  BY <1>18, <1>1 DEF vars, process, fuse
<1> QED
  BY <1>2, <1>3, <1>4, <1>5, <1>6, <1>7, <1>8, <1>9, <1>10, <1>11, <1>12, <1>13, <1>14,
    <1>15, <1>16, <1>17, <1>18
  DEF Next, Gateway, Callback, Reaper, Worker

\* Nobody changes the mapping of a live worker: it would have to share its PID.
LEMMA MapsStep ==
  Typed /\ Stages /\ PidsDistinct /\ MapsLive /\ [Next]_vars => MapsLive'
<1> SUFFICES ASSUME Typed, Stages, PidsDistinct, MapsLive, [Next]_vars
             PROVE  MapsLive'
  OBVIOUS
\* Steps that leave alone what it is about.
<1>1. ASSUME UNCHANGED <<worker, pid, map>> PROVE MapsLive'
  BY <1>1 DEF MapsLive, Live, Typed
<1>2. ASSUME NEW c \in Conn,
             \/ Accept(c) \/ NoShell(c) \/ Greeted(c) \/ NotGreeted(c)
             \/ CommandIn(c) \/ HangUp(c) \/ Result(c) \/ NoAnswer(c)
             \/ AuditRefused(c) \/ Disconnect(c) \/ ActiveExpires(c) \/ Enter(c)
             \/ Bind(c) \/ Serve(c)
      PROVE  MapsLive'
  BY <1>2, <1>1 DEF Accept, NoShell, Greeted, NotGreeted, CommandIn, HangUp, Result,
    NoAnswer, AuditRefused, Disconnect, ActiveExpires, Enter, Bind, Serve, process,
    redis
<1>3. ASSUME \/ ScanPids \/ ScanNamespaces \/ DeleteKey \/ Forget \/ ReapFails
      PROVE  MapsLive'
  BY <1>3, <1>1 DEF ScanPids, ScanNamespaces, DeleteKey, Forget, ReapFails, process,
    redis
<1>4. ASSUME NEW c \in Conn, StartWorker(c) PROVE MapsLive'
  BY <1>4 DEF StartWorker, Become, redis, PidsDistinct, Uses, Alive, MapsLive, Live,
    Typed
<1>5. ASSUME NEW c \in Conn, Join(c) PROVE MapsLive'
  BY <1>5 DEF Join, Dies, Become, redis, PidsDistinct, Uses, Alive, MapsLive, Live,
    Typed
<1>6. ASSUME NEW c \in Conn, Unmap(c) PROVE MapsLive'
  BY <1>6 DEF Unmap, Unmapped, process, Stages, PidsDistinct, Uses, Alive, MapsLive,
    Live, Typed
<1>7. ASSUME NEW c \in Conn, Register(c) PROVE MapsLive'
  BY <1>7 DEF Register, Become, Registered, PidsDistinct, Uses, Alive, MapsLive, Live,
    Typed
<1>8. ASSUME NEW c \in Conn, SendInit(c) PROVE MapsLive'
  BY <1>8 DEF SendInit, Become, redis, MapsLive, Live, Typed
<1>9. ASSUME NEW c \in Conn, Receive(c) PROVE MapsLive'
  BY <1>9 DEF Receive, Become, MapsLive, Live, Typed
<1>10. ASSUME NEW c \in Conn, Answer(c) PROVE MapsLive'
  BY <1>10 DEF Answer, Become, MapsLive, Live, Typed
<1>11. ASSUME NEW c \in Conn, WorkerFails(c) PROVE MapsLive'
  BY <1>11 DEF WorkerFails, Become, redis, MapsLive, Live, Typed
<1>12. ASSUME NEW c \in Conn, Exit(c) PROVE MapsLive'
  <2>1. /\ worker[c] = "exit" /\ worker' = [worker EXCEPT ![c] = "dead"] /\ pid' = pid
        /\ map' = [map EXCEPT ![pid[c]] = None] \/ map' = map
    BY <1>12 DEF Exit, Dies, Become
  <2>2. \A d \in Conn : worker'[d] \in {"ready", "loop", "busy"} =>
          worker[d] = worker'[d] /\ pid[d] # pid[c] /\ pid[d] \in Pid
    BY <2>1 DEF PidsDistinct, Uses, Alive, Typed
  <2> QED BY <2>1, <2>2 DEF MapsLive, Live, Typed
<1>13. ASSUME NEW c \in Conn, Die(c) PROVE MapsLive'
  BY <1>13 DEF Die, Dies, Become, redis, MapsLive, Live, Typed
<1>14. ASSUME NEW p \in Pid, MapExpires(p) PROVE MapsLive'
  BY <1>14 DEF MapExpires, process, PidsDistinct, Uses, Alive, MapsLive, Live, Typed
<1>15. ASSUME Restart PROVE MapsLive'
  BY <1>15 DEF Restart, redis, MapsLive, Live, Typed
<1>16. CASE UNCHANGED vars
  BY <1>16, <1>1 DEF vars, process, redis
<1> QED
  BY <1>2, <1>3, <1>4, <1>5, <1>6, <1>7, <1>8, <1>9, <1>10, <1>11, <1>12, <1>13, <1>14,
    <1>15, <1>16
  DEF Next, Gateway, Callback, Reaper, Worker

\* active_command is set and cleared together with what the worker does.
LEMMA TagsStep ==
  Typed /\ Stages /\ TagsTrue /\ [Next]_vars => TagsTrue'
<1> SUFFICES ASSUME Typed, Stages, TagsTrue, [Next]_vars PROVE TagsTrue'
  OBVIOUS
\* Steps that leave alone what it is about.
<1>1. ASSUME UNCHANGED <<worker, doing, active>> PROVE TagsTrue'
  BY <1>1 DEF TagsTrue, Typed
<1>2. ASSUME NEW c \in Conn,
             \/ Accept(c) \/ NoShell(c) \/ Greeted(c) \/ NotGreeted(c)
             \/ CommandIn(c) \/ HangUp(c) \/ Result(c) \/ NoAnswer(c)
             \/ AuditRefused(c) \/ Unmap(c) \/ Disconnect(c) \/ Enter(c) \/ Bind(c)
             \/ Serve(c)
      PROVE  TagsTrue'
  BY <1>2, <1>1 DEF Accept, NoShell, Greeted, NotGreeted, CommandIn, HangUp, Result,
    NoAnswer, AuditRefused, Unmap, Disconnect, Enter, Bind, Serve, process, redis
<1>3. ASSUME NEW p \in Pid,
             MapExpires(p)
      PROVE  TagsTrue'
  BY <1>3, <1>1 DEF MapExpires, process, redis
<1>4. ASSUME \/ ScanPids \/ ScanNamespaces \/ DeleteKey \/ Forget \/ ReapFails
      PROVE  TagsTrue'
  BY <1>4, <1>1 DEF ScanPids, ScanNamespaces, DeleteKey, Forget, ReapFails, process,
    redis
<1>5. ASSUME NEW c \in Conn, StartWorker(c) PROVE TagsTrue'
  BY <1>5 DEF StartWorker, Become, redis, Stages, TagsTrue, Typed
<1>6. ASSUME NEW c \in Conn, Join(c) PROVE TagsTrue'
  BY <1>6 DEF Join, Dies, Become, redis, TagsTrue, Typed
<1>7. ASSUME NEW c \in Conn, Register(c) PROVE TagsTrue'
  BY <1>7 DEF Register, Become, TagsTrue, Typed
<1>8. ASSUME NEW c \in Conn, SendInit(c) PROVE TagsTrue'
  BY <1>8 DEF SendInit, Become, redis, TagsTrue, Typed
<1>9. ASSUME NEW c \in Conn, Receive(c) PROVE TagsTrue'
  BY <1>9 DEF Receive, Become, TagsTrue, Typed
<1>10. ASSUME NEW c \in Conn, Answer(c) PROVE TagsTrue'
  BY <1>10 DEF Answer, Become, TagsTrue, Typed
<1>11. ASSUME NEW c \in Conn, WorkerFails(c) PROVE TagsTrue'
  BY <1>11 DEF WorkerFails, Become, redis, TagsTrue, Typed
<1>12. ASSUME NEW c \in Conn, Exit(c) PROVE TagsTrue'
  BY <1>12 DEF Exit, Dies, Become, TagsTrue, Typed
<1>13. ASSUME NEW c \in Conn, Die(c) PROVE TagsTrue'
  BY <1>13 DEF Die, Dies, Become, redis, TagsTrue, Typed
<1>14. ASSUME NEW c \in Conn, ActiveExpires(c) PROVE TagsTrue'
  BY <1>14 DEF ActiveExpires, process, Alive, TagsTrue, Typed
<1>15. ASSUME Restart PROVE TagsTrue'
  BY <1>15 DEF Restart, redis, TagsTrue, Typed
<1>16. CASE UNCHANGED vars
  BY <1>16, <1>1 DEF vars, process, redis
<1> QED
  BY <1>2, <1>3, <1>4, <1>5, <1>6, <1>7, <1>8, <1>9, <1>10, <1>11, <1>12, <1>13, <1>14,
    <1>15, <1>16
  DEF Next, Gateway, Callback, Reaper, Worker

\* A callback starts with its worker's session and command; while it is under way the
\* worker waits or is dead.
LEMMA CallsStep ==
  Typed /\ Stages /\ PidsDistinct /\ MapsLive /\ TagsTrue /\ CallsTrue /\
  [Next]_vars => CallsTrue'
<1> SUFFICES ASSUME Typed, Stages, PidsDistinct, MapsLive, TagsTrue,
                    CallsTrue, [Next]_vars
             PROVE  CallsTrue'
  OBVIOUS
\* Steps that leave alone what it is about.
<1>1. ASSUME UNCHANGED <<worker, active, call>> PROVE CallsTrue'
  BY <1>1 DEF CallsTrue, NoCall, Typed
<1>2. ASSUME NEW c \in Conn,
             \/ Accept(c) \/ NoShell(c) \/ Greeted(c) \/ NotGreeted(c)
             \/ CommandIn(c) \/ HangUp(c) \/ Result(c) \/ NoAnswer(c)
             \/ AuditRefused(c) \/ Unmap(c) \/ Disconnect(c)
      PROVE  CallsTrue'
  BY <1>2, <1>1 DEF Accept, NoShell, Greeted, NotGreeted, CommandIn, HangUp, Result,
    NoAnswer, AuditRefused, Unmap, Disconnect, process, redis, fuse
<1>3. ASSUME NEW p \in Pid,
             MapExpires(p)
      PROVE  CallsTrue'
  BY <1>3, <1>1 DEF MapExpires, process, redis, fuse
<1>4. ASSUME \/ ScanPids \/ ScanNamespaces \/ DeleteKey \/ Forget \/ ReapFails
      PROVE  CallsTrue'
  BY <1>4, <1>1 DEF ScanPids, ScanNamespaces, DeleteKey, Forget, ReapFails, process,
    redis, fuse
<1>5. ASSUME NEW c \in Conn, StartWorker(c) PROVE CallsTrue'
  BY <1>5 DEF StartWorker, Become, redis, fuse, Stages, CallsTrue, NoCall, Typed
<1>6. ASSUME NEW c \in Conn, Join(c) PROVE CallsTrue'
  BY <1>6 DEF Join, Dies, Become, redis, fuse, CallsTrue, NoCall, Typed
<1>7. ASSUME NEW c \in Conn, Register(c) PROVE CallsTrue'
  BY <1>7 DEF Register, Become, fuse, CallsTrue, NoCall, Typed
<1>8. ASSUME NEW c \in Conn, SendInit(c) PROVE CallsTrue'
  BY <1>8 DEF SendInit, Become, redis, fuse, CallsTrue, NoCall, Typed
<1>9. ASSUME NEW c \in Conn, Receive(c) PROVE CallsTrue'
  <2>1. /\ \E w \in {"exit", "busy"} : worker' = [worker EXCEPT ![c] = w]
        /\ worker[c] = "loop" /\ pid' = pid /\ call' = call
    BY <1>9 DEF Receive, Become, fuse
  <2>2. active' = active \/ \E m : active' = [active EXCEPT ![c] = m]
    BY <1>9 DEF Receive
  <2> QED BY <2>1, <2>2 DEF CallsTrue, Typed
<1>10. ASSUME NEW c \in Conn, Answer(c) PROVE CallsTrue'
  BY <1>10 DEF Answer, Become, fuse, CallsTrue, NoCall, Typed
<1>11. ASSUME NEW c \in Conn, WorkerFails(c) PROVE CallsTrue'
  BY <1>11 DEF WorkerFails, Become, redis, fuse, CallsTrue, NoCall, Typed
<1>12. ASSUME NEW c \in Conn, Exit(c) PROVE CallsTrue'
  BY <1>12 DEF Exit, Dies, Become, fuse, CallsTrue, NoCall, Typed
<1>13. ASSUME NEW c \in Conn, Die(c) PROVE CallsTrue'
  BY <1>13 DEF Die, Dies, Become, redis, fuse, CallsTrue, NoCall, Typed
<1>14. ASSUME NEW c \in Conn, ActiveExpires(c) PROVE CallsTrue'
  BY <1>14 DEF ActiveExpires, process, fuse, CallsTrue, NoCall, Typed
<1>15. ASSUME NEW c \in Conn, Enter(c) PROVE CallsTrue'
  <2>1. /\ worker[c] \in {"ready", "busy"} /\ worker' = worker /\ active' = active
        /\ call' = [call EXCEPT ![c] =
             [at |-> "entered", session |-> map[pid[c]], cmd |-> doing[c]]]
    BY <1>15 DEF Enter, process, redis
  <2>2. map[pid[c]] = c
    BY <2>1 DEF MapsLive, Live
  <2>3. active[c] \in {0, doing[c]}
    BY <2>1 DEF TagsTrue
  <2>4. call'[c].session = c /\ call'[c].cmd = doing[c]
    BY <2>1, <2>2 DEF Typed
  <2>5. \A d \in Conn : d # c => call'[d] = call[d]
    BY <2>1 DEF Typed
  <2> QED BY <2>1, <2>3, <2>4, <2>5 DEF CallsTrue
<1>16. ASSUME NEW c \in Conn, Bind(c) PROVE CallsTrue'
  <2>1. call[c] # NoCall
    BY <1>16 DEF Bind, NoCall
  <2>2. \/ call' = [call EXCEPT ![c] = NoCall]
        \/ call' = [call EXCEPT ![c].at = "bound"]
    BY <1>16 DEF Bind
  <2>3. worker' = worker /\ pid' = pid /\ active' = active
    BY <1>16 DEF Bind, process, redis
  <2>4. call'[c] # NoCall => call'[c].session = call[c].session /\ call'[c].cmd = call[c].cmd
    BY <2>2 DEF Typed, Calls
  <2>5. \A d \in Conn : d # c => call'[d] = call[d]
    BY <2>2 DEF Typed
  <2> QED BY <2>1, <2>3, <2>4, <2>5 DEF CallsTrue
<1>17. ASSUME NEW c \in Conn, Serve(c) PROVE CallsTrue'
  BY <1>17 DEF Serve, process, redis, CallsTrue, NoCall, Typed
<1>18. ASSUME Restart PROVE CallsTrue'
  BY <1>18 DEF Restart, redis, CallsTrue, NoCall, Typed
<1>19. CASE UNCHANGED vars
  BY <1>19, <1>1 DEF vars, process, redis, fuse
<1> QED
  BY <1>2, <1>3, <1>4, <1>5, <1>6, <1>7, <1>8, <1>9, <1>10, <1>11, <1>12, <1>13, <1>14,
    <1>15, <1>16, <1>17, <1>18, <1>19
  DEF Next, Gateway, Callback, Reaper, Worker

-----------------------------------------------------------------------------
(* Attribution, and the trail *)

\* The row of a callback is made from what the callback knows.
LEMMA AttributionStep ==
  Typed /\ CallsTrue /\ AttributionTrue /\ [Next]_vars => AttributionTrue'
<1> SUFFICES ASSUME Typed, CallsTrue, AttributionTrue, [Next]_vars
             PROVE  AttributionTrue'
  OBVIOUS
\* Steps that leave alone what it is about.
<1>1. ASSUME UNCHANGED <<kernel>> PROVE AttributionTrue'
  BY <1>1 DEF AttributionTrue
<1>2. ASSUME NEW c \in Conn,
             \/ Accept(c) \/ NoShell(c) \/ StartWorker(c) \/ Greeted(c)
             \/ NotGreeted(c) \/ CommandIn(c) \/ HangUp(c) \/ Result(c)
             \/ NoAnswer(c) \/ AuditRefused(c) \/ Join(c) \/ Unmap(c)
             \/ Disconnect(c) \/ Register(c) \/ SendInit(c) \/ Receive(c)
             \/ Answer(c) \/ WorkerFails(c) \/ Exit(c) \/ Die(c) \/ ActiveExpires(c)
             \/ Enter(c) \/ Bind(c)
      PROVE  AttributionTrue'
  BY <1>2, <1>1 DEF Accept, NoShell, StartWorker, Greeted, NotGreeted, CommandIn,
    HangUp, Result, NoAnswer, AuditRefused, Join, Unmap, Disconnect, Register, SendInit,
    Receive, Answer, WorkerFails, Exit, Die, ActiveExpires, Enter, Bind, fuse
<1>3. ASSUME NEW p \in Pid,
             MapExpires(p)
      PROVE  AttributionTrue'
  BY <1>3, <1>1 DEF MapExpires, fuse
<1>4. ASSUME \/ ScanPids \/ ScanNamespaces \/ DeleteKey \/ Forget \/ ReapFails
             \/ Restart
      PROVE  AttributionTrue'
  BY <1>4, <1>1 DEF ScanPids, ScanNamespaces, DeleteKey, Forget, ReapFails, Restart,
    fuse
<1>5. ASSUME NEW c \in Conn, Serve(c) PROVE AttributionTrue'
  <2>1. call[c] # NoCall
    BY <1>5 DEF Serve, NoCall
  <2>2. kernel' = [by |-> c, cmd |-> call[c].cmd, session |-> call[c].session,
                   tag |-> active[call[c].session]]
    BY <1>5 DEF Serve
  <2> QED BY <2>1, <2>2 DEF CallsTrue, AttributionTrue
<1>6. CASE UNCHANGED vars
  BY <1>6, <1>1 DEF vars, fuse
<1> QED
  BY <1>2, <1>3, <1>4, <1>5, <1>6
  DEF Next, Gateway, Callback, Reaper, Worker

\* Sequences of one message.
LEMMA OneMessage ==
  ASSUME NEW m
  PROVE  /\ Append(<<>>, m) = <<m>> /\ Head(<<m>>) = m /\ Tail(<<m>>) = <<>>
         /\ <<m>> # <<>>
  OBVIOUS

\* A command is in one pipe, in the worker, or lost; and so is its answer.
LEMMA PipesStep ==
  Typed /\ Stages /\ Pipes /\ [Next]_vars => Pipes'
<1> SUFFICES ASSUME Typed, Stages, Pipes, [Next]_vars PROVE Pipes'
  OBVIOUS
\* Steps that leave alone what it is about.
<1>1. ASSUME UNCHANGED <<thread, sent, worker, doing, down, up>> PROVE Pipes'
  BY <1>1 DEF Pipes, PipeOf, Quiet, Typed
<1>2. ASSUME NEW c \in Conn,
             \/ ActiveExpires(c) \/ Enter(c) \/ Bind(c) \/ Serve(c)
      PROVE  Pipes'
  BY <1>2, <1>1 DEF ActiveExpires, Enter, Bind, Serve, gateway, process, pipes
<1>3. ASSUME NEW p \in Pid,
             MapExpires(p)
      PROVE  Pipes'
  BY <1>3, <1>1 DEF MapExpires, gateway, process, pipes
<1>4. ASSUME \/ ScanPids \/ ScanNamespaces \/ DeleteKey \/ Forget \/ ReapFails
      PROVE  Pipes'
  BY <1>4, <1>1 DEF ScanPids, ScanNamespaces, DeleteKey, Forget, ReapFails, gateway,
    process, pipes
<1>5. ASSUME NEW c \in Conn, Accept(c) PROVE Pipes'
  BY <1>5 DEF Accept, Goto, process, pipes, Pipes, PipeOf, Quiet, Typed
<1>6. ASSUME NEW c \in Conn, NoShell(c) PROVE Pipes'
  BY <1>6 DEF NoShell, Shut, Goto, process, Pipes, PipeOf, Quiet, Typed
<1>7. ASSUME NEW c \in Conn, StartWorker(c) PROVE Pipes'
  BY <1>7 DEF StartWorker, Goto, Become, pipes, Stages, Pipes, PipeOf, Quiet, Typed
<1>8. ASSUME NEW c \in Conn, Greeted(c) PROVE Pipes'
  BY <1>8, OneMessage DEF Greeted, Goto, process, Pipes, PipeOf, Quiet, Typed
<1>9. ASSUME NEW c \in Conn, NotGreeted(c) PROVE Pipes'
  BY <1>9 DEF NotGreeted, Shut, Goto, process, Pipes, PipeOf, Quiet, Typed
<1>10. ASSUME NEW c \in Conn, CommandIn(c) PROVE Pipes'
  <2>1. thread[c] = "idle" /\ Quiet(c) /\ worker[c] \in {"loop", "exit", "dead"}
    BY <1>10 DEF CommandIn, Pipes, PipeOf
  <2>2. worker'[c] = worker[c] /\ doing'[c] = doing[c] /\ up'[c] = <<>> /\ sent'[c] = sent[c] + 1
    BY <1>10, <2>1 DEF CommandIn, process, Quiet, Typed
  <2>3. Alive(c) => thread'[c] = "waiting" /\ down'[c] = <<sent[c] + 1>>
    BY <1>10, <2>1, OneMessage DEF CommandIn, Goto, Quiet, Typed
  <2>4. ~Alive(c) => thread'[c] = "joining"
    BY <1>10, <2>1 DEF CommandIn, Shut, Goto, Typed
  <2>5. \A d \in Conn : d # c =>
         thread'[d] = thread[d] /\ sent'[d] = sent[d] /\ worker'[d] = worker[d] /\
         doing'[d] = doing[d] /\ down'[d] = down[d] /\ up'[d] = up[d]
    BY <1>10 DEF CommandIn, Shut, Goto, process, Typed
  <2>6. \A d \in Conn : d # c => PipeOf(d)'
    BY <2>5 DEF Pipes, PipeOf, Quiet
  <2>7. PipeOf(c)'
    BY <2>1, <2>2, <2>3, <2>4 DEF PipeOf, Quiet
  <2> QED BY <2>6, <2>7 DEF Pipes
<1>11. ASSUME NEW c \in Conn, HangUp(c) PROVE Pipes'
  BY <1>11 DEF HangUp, Shut, Goto, process, Pipes, PipeOf, Quiet, Typed
<1>12. ASSUME NEW c \in Conn, Result(c) PROVE Pipes'
  <2>1. thread[c] = "waiting" /\ up[c] # <<>>
    BY <1>12 DEF Result
  <2>2. /\ worker[c] \in {"loop", "exit", "dead"} /\ down[c] = <<>> /\ up[c] = <<sent[c]>>
    BY <1>12, <2>1 DEF Pipes, PipeOf, Quiet
  <2>3. /\ thread'[c] = "idle" /\ worker'[c] = worker[c] /\ down'[c] = down[c]
         /\ up'[c] = Tail(up[c])
    BY <1>12 DEF Result, Goto, process, Typed
  <2>4. up'[c] = <<>>
    BY <1>12, <2>2, <2>3, OneMessage DEF Result
  <2>5. \A d \in Conn : d # c =>
         thread'[d] = thread[d] /\ sent'[d] = sent[d] /\ worker'[d] = worker[d] /\
         doing'[d] = doing[d] /\ down'[d] = down[d] /\ up'[d] = up[d]
    BY <1>12 DEF Result, Goto, process, Typed
  <2>6. \A d \in Conn : d # c => PipeOf(d)'
    BY <2>5 DEF Pipes, PipeOf, Quiet
  <2>7. PipeOf(c)'
    BY <2>1, <2>2, <2>3, <2>4 DEF PipeOf, Quiet
  <2> QED BY <2>6, <2>7 DEF Pipes
<1>13. ASSUME NEW c \in Conn, NoAnswer(c) PROVE Pipes'
  BY <1>13 DEF NoAnswer, Shut, Goto, process, Pipes, PipeOf, Quiet, Typed
<1>14. ASSUME NEW c \in Conn, AuditRefused(c) PROVE Pipes'
  BY <1>14, OneMessage DEF AuditRefused, Shut, Goto, process, Pipes, PipeOf, Quiet,
    Typed
<1>15. ASSUME NEW c \in Conn, Join(c) PROVE Pipes'
  BY <1>15 DEF Join, Goto, Dies, Become, Pipes, PipeOf, Quiet, Typed
<1>16. ASSUME NEW c \in Conn, Unmap(c) PROVE Pipes'
  BY <1>16 DEF Unmap, Goto, process, pipes, Pipes, PipeOf, Quiet, Typed
<1>17. ASSUME NEW c \in Conn, Disconnect(c) PROVE Pipes'
  BY <1>17 DEF Disconnect, Goto, process, pipes, Pipes, PipeOf, Quiet, Typed
<1>18. ASSUME NEW c \in Conn, Register(c) PROVE Pipes'
  BY <1>18 DEF Register, Become, gateway, pipes, Pipes, PipeOf, Quiet, Typed
<1>19. ASSUME NEW c \in Conn, SendInit(c) PROVE Pipes'
  <2>1. worker[c] = "ready" /\ thread'[c] = thread[c] /\ sent'[c] = sent[c]
    BY <1>19 DEF SendInit, gateway
  <2>2. /\ worker'[c] = "loop" /\ down'[c] = down[c] /\ up'[c] = Append(up[c], 0)
    BY <1>19 DEF SendInit, Become, Typed
  <2>3. thread[c] \notin {"new", "refused", "handshake", "idle", "waiting"}
    BY <1>19, <2>1 DEF Stages, Pipes, PipeOf
  <2>4. thread[c] = "starting" => down[c] = <<>> /\ up'[c] = <<0>>
    BY <1>19, <2>1, <2>2, OneMessage DEF Pipes, PipeOf
  <2>5. \A d \in Conn : d # c =>
         thread'[d] = thread[d] /\ sent'[d] = sent[d] /\ worker'[d] = worker[d] /\
         doing'[d] = doing[d] /\ down'[d] = down[d] /\ up'[d] = up[d]
    BY <1>19 DEF SendInit, Become, gateway, Typed
  <2>6. \A d \in Conn : d # c => PipeOf(d)'
    BY <2>5 DEF Pipes, PipeOf, Quiet
  <2>7. PipeOf(c)'
    BY <2>1, <2>2, <2>3, <2>4 DEF PipeOf, Quiet
  <2> QED BY <2>6, <2>7 DEF Pipes
<1>20. ASSUME NEW c \in Conn, Receive(c) PROVE Pipes'
  <2>1. worker[c] = "loop" /\ thread'[c] = thread[c] /\ sent'[c] = sent[c] /\ up'[c] = up[c]
    BY <1>20 DEF Receive, gateway
  <2>2. \/ worker'[c] = "exit" /\ down'[c] = down[c]
        \/ /\ down[c] # <<>> /\ down'[c] = Tail(down[c])
           /\ \/ Head(down[c]) = Quit /\ worker'[c] = "exit"
              \/ worker'[c] = "busy" /\ doing'[c] = Head(down[c])
    BY <1>20, <2>1 DEF Receive, Become, Typed
  <2>3. thread[c] \notin {"new", "refused", "handshake"}
    BY <1>20, <2>1 DEF Stages
  <2>4. thread[c] \in {"starting", "idle"} => down[c] = <<>>
    BY <1>20, <2>1 DEF Pipes, PipeOf, Quiet
  <2>5. thread[c] = "waiting" =>
         \/ down[c] = <<sent[c]>> /\ up[c] = <<>>
         \/ down[c] = <<>> /\ up[c] = <<sent[c]>>
    BY <1>20, <2>1 DEF Pipes, PipeOf, Quiet
  <2>6. sent[c] # Quit /\ Head(<<sent[c]>>) = sent[c] /\ Tail(<<sent[c]>>) = <<>>
    BY <1>20, OneMessage DEF Quit, Typed
  <2>7. thread[c] = "starting" => up[c] \in {<<>>, <<0>>}
    BY <1>20 DEF Pipes, PipeOf
  <2>8. thread[c] \in {"starting", "idle"} => worker'[c] = "exit" /\ down'[c] = down[c]
    BY <1>20, <2>2, <2>4 DEF Quit
  <2>9. thread[c] = "waiting" =>
         \/ worker'[c] = "exit" /\ down'[c] = down[c]
         \/ /\ worker'[c] = "busy" /\ doing'[c] = sent[c]
            /\ down'[c] = <<>> /\ up[c] = <<>>
    BY <1>20, <2>2, <2>5, <2>6 DEF Quit
  <2>10. \A d \in Conn : d # c =>
         thread'[d] = thread[d] /\ sent'[d] = sent[d] /\ worker'[d] = worker[d] /\
         doing'[d] = doing[d] /\ down'[d] = down[d] /\ up'[d] = up[d]
    BY <1>20 DEF Receive, Become, gateway, Typed
  <2>11. \A d \in Conn : d # c => PipeOf(d)'
    BY <2>10 DEF Pipes, PipeOf, Quiet
  <2>12. PipeOf(c)'
    <3>1. CASE thread[c] = "waiting"
      BY <3>1, <2>1, <2>5, <2>9 DEF PipeOf, Quiet
    <3>2. CASE thread[c] \in {"starting", "idle"}
      BY <3>2, <2>1, <2>4, <2>7, <2>8, <1>20 DEF Pipes, PipeOf, Quiet
    <3>3. CASE thread[c] \notin {"starting", "idle", "waiting"}
      BY <3>3, <2>1, <2>3 DEF PipeOf
    <3> QED BY <3>1, <3>2, <3>3
  <2> QED BY <2>11, <2>12 DEF Pipes
<1>21. ASSUME NEW c \in Conn, Answer(c) PROVE Pipes'
  <2>1. /\ worker[c] = "busy" /\ thread'[c] = thread[c] /\ sent'[c] = sent[c]
        /\ worker'[c] = "loop" /\ down'[c] = down[c] /\ up'[c] = Append(up[c], doing[c])
    BY <1>21 DEF Answer, Become, gateway, Typed
  <2>2. thread[c] \notin {"new", "refused", "handshake", "starting", "idle"}
    BY <1>21, <2>1 DEF Stages, Pipes, PipeOf
  <2>3. thread[c] = "waiting" => down[c] = <<>> /\ up'[c] = <<sent[c]>>
    BY <1>21, <2>1, OneMessage DEF Pipes, PipeOf, Quiet
  <2>4. \A d \in Conn : d # c =>
         thread'[d] = thread[d] /\ sent'[d] = sent[d] /\ worker'[d] = worker[d] /\
         doing'[d] = doing[d] /\ down'[d] = down[d] /\ up'[d] = up[d]
    BY <1>21 DEF Answer, Become, gateway, Typed
  <2>5. \A d \in Conn : d # c => PipeOf(d)'
    BY <2>4 DEF Pipes, PipeOf, Quiet
  <2>6. PipeOf(c)'
    BY <2>1, <2>2, <2>3 DEF PipeOf, Quiet
  <2> QED BY <2>5, <2>6 DEF Pipes
<1>22. ASSUME NEW c \in Conn, WorkerFails(c) PROVE Pipes'
  BY <1>22 DEF WorkerFails, Become, gateway, pipes, Pipes, PipeOf, Quiet, Typed
<1>23. ASSUME NEW c \in Conn, Exit(c) PROVE Pipes'
  BY <1>23 DEF Exit, Dies, Become, gateway, pipes, Pipes, PipeOf, Quiet, Typed
<1>24. ASSUME NEW c \in Conn, Die(c) PROVE Pipes'
  BY <1>24 DEF Die, Dies, Become, gateway, pipes, Alive, Pipes, PipeOf, Quiet, Typed
<1>25. ASSUME Restart PROVE Pipes'
  BY <1>25 DEF Restart, Pipes, PipeOf, Quiet, Typed
<1>26. CASE UNCHANGED vars
  BY <1>26, <1>1 DEF vars, gateway, process, pipes
<1> QED
  BY <1>2, <1>3, <1>4, <1>5, <1>6, <1>7, <1>8, <1>9, <1>10, <1>11, <1>12, <1>13, <1>14,
    <1>15, <1>16, <1>17, <1>18, <1>19, <1>20, <1>21, <1>22, <1>23, <1>24, <1>25, <1>26
  DEF Next, Gateway, Callback, Reaper, Worker

\* A row goes to the end, those before it stay where they are.
LEMMA RowAdded ==
  ASSUME NEW t \in Seq(Rows), NEW row
  PROVE  /\ Len(t) \in Nat /\ DOMAIN t = 1 .. Len(t)
         /\ Len(Append(t, row)) = Len(t) + 1 /\ DOMAIN Append(t, row) = 1 .. (Len(t) + 1)
         /\ \A i \in DOMAIN t : Append(t, row)[i] = t[i]
         /\ Append(t, row)[Len(t) + 1] = row /\ Append(t, row) # <<>>
  OBVIOUS

\* Nothing is added after the disconnect, and a result goes after its command.
LEMMA TrailsStep ==
  Typed /\ Trails /\ [Next]_vars => Trails'
<1> SUFFICES ASSUME Typed, Trails, [Next]_vars PROVE Trails'
  OBVIOUS
\* Steps that leave alone what it is about.
<1>1. ASSUME UNCHANGED <<thread, sent, trail>> PROVE Trails'
  BY <1>1 DEF Trails, TrailOf, Typed
<1>2. ASSUME NEW c \in Conn,
             \/ Register(c) \/ SendInit(c) \/ Receive(c) \/ Answer(c)
             \/ WorkerFails(c) \/ Exit(c) \/ Die(c) \/ ActiveExpires(c) \/ Enter(c)
             \/ Bind(c) \/ Serve(c)
      PROVE  Trails'
  BY <1>2, <1>1 DEF Register, SendInit, Receive, Answer, WorkerFails, Exit, Die,
    ActiveExpires, Enter, Bind, Serve, gateway
<1>3. ASSUME NEW p \in Pid,
             MapExpires(p)
      PROVE  Trails'
  BY <1>3, <1>1 DEF MapExpires, gateway
<1>4. ASSUME \/ ScanPids \/ ScanNamespaces \/ DeleteKey \/ Forget \/ ReapFails
      PROVE  Trails'
  BY <1>4, <1>1 DEF ScanPids, ScanNamespaces, DeleteKey, Forget, ReapFails, gateway
<1>5. ASSUME NEW c \in Conn, Accept(c) PROVE Trails'
  BY <1>5 DEF Accept, Goto, Trails, TrailOf, Typed
<1>6. ASSUME NEW c \in Conn, NoShell(c) PROVE Trails'
  BY <1>6 DEF NoShell, Shut, Goto, Trails, TrailOf, Typed
<1>7. ASSUME NEW c \in Conn, StartWorker(c) PROVE Trails'
  BY <1>7 DEF StartWorker, Goto, Trails, TrailOf, Typed
<1>8. ASSUME NEW c \in Conn, Greeted(c) PROVE Trails'
  BY <1>8 DEF Greeted, Goto, Trails, TrailOf, Typed
<1>9. ASSUME NEW c \in Conn, NotGreeted(c) PROVE Trails'
  BY <1>9 DEF NotGreeted, Shut, Goto, Trails, TrailOf, Typed
<1>10. ASSUME NEW c \in Conn, CommandIn(c) PROVE Trails'
  <2>1. /\ thread[c] = "idle" /\ trail'[c] = Append(trail[c], CommandRow(sent[c] + 1))
        /\ sent'[c] = sent[c] + 1
    BY <1>10 DEF CommandIn, Row, Typed
  <2>2. thread'[c] \in {"waiting", "joining", "last"}
    BY <1>10 DEF CommandIn, Shut, Goto, Typed
  <2>3. /\ \A i \in DOMAIN trail'[c] : trail'[c][i].op # "ssh_disconnect"
        /\ trail'[c] # <<>> /\ trail'[c][Len(trail'[c])] = CommandRow(sent[c] + 1)
    <3>1. \A i \in DOMAIN trail[c] : trail[c][i].op # "ssh_disconnect"
      BY <2>1 DEF Trails, TrailOf
    <3>2. CommandRow(sent[c] + 1).op = "ssh_command"
      BY DEF CommandRow
    <3>3. trail[c] \in Seq(Rows)
      BY DEF Typed
    <3> DEFINE t == trail[c]
               u == Append(t, CommandRow(sent[c] + 1))
    <3>4. /\ Len(t) \in Nat /\ DOMAIN t = 1 .. Len(t) /\ DOMAIN u = 1 .. (Len(t) + 1)
          /\ \A i \in DOMAIN t : u[i] = t[i]
          /\ Len(u) = Len(t) + 1 /\ u[Len(t) + 1] = CommandRow(sent[c] + 1) /\ u # <<>>
      BY <3>3, RowAdded
    <3>5. trail'[c] = u
      BY <2>1
    <3> HIDE DEF u
    <3>6. \A i \in DOMAIN u : i \in DOMAIN t \/ i = Len(t) + 1
      BY <3>4
    <3> QED BY <3>1, <3>2, <3>4, <3>5, <3>6
  <2>4. \A d \in Conn : d # c =>
         thread'[d] = thread[d] /\ sent'[d] = sent[d] /\ trail'[d] = trail[d]
    BY <1>10 DEF CommandIn, Shut, Goto, Row, Typed
  <2>5. \A d \in Conn : d # c => TrailOf(d)'
    BY <2>4 DEF Trails, TrailOf, CommandRow
  <2>6. TrailOf(c)'
    BY <2>1, <2>2, <2>3 DEF TrailOf
  <2> QED BY <2>5, <2>6 DEF Trails
<1>11. ASSUME NEW c \in Conn, HangUp(c) PROVE Trails'
  BY <1>11 DEF HangUp, Shut, Goto, Trails, TrailOf, Typed
<1>12. ASSUME NEW c \in Conn, Result(c) PROVE Trails'
  BY <1>12 DEF Result, Goto, Row, ResultRow, Trails, TrailOf, Typed
<1>13. ASSUME NEW c \in Conn, NoAnswer(c) PROVE Trails'
  <2>1. /\ thread[c] = "waiting" /\ thread'[c] \in {"joining", "last"}
        /\ trail'[c] = Append(trail[c], ResultRow(sent[c], Unknown)) \/ trail'[c] = trail[c]
    BY <1>13 DEF NoAnswer, Shut, Goto, Row, Typed
  <2>2. \A i \in DOMAIN trail'[c] : trail'[c][i].op # "ssh_disconnect"
    <3>1. \A i \in DOMAIN trail[c] : trail[c][i].op # "ssh_disconnect"
      BY <2>1 DEF Trails, TrailOf
    <3>2. ResultRow(sent[c], Unknown).op = "ssh_command_result"
      BY DEF ResultRow
    <3>3. trail[c] \in Seq(Rows)
      BY DEF Typed
    <3> DEFINE t == trail[c]
               u == Append(t, ResultRow(sent[c], Unknown))
    <3>4. /\ Len(t) \in Nat /\ DOMAIN t = 1 .. Len(t) /\ DOMAIN u = 1 .. (Len(t) + 1)
          /\ \A i \in DOMAIN t : u[i] = t[i]
          /\ u[Len(t) + 1] = ResultRow(sent[c], Unknown)
      BY <3>3, RowAdded
    <3>5. trail'[c] = u \/ trail'[c] = t
      BY <2>1
    <3> HIDE DEF u
    <3>6. \A i \in DOMAIN u : i \in DOMAIN t \/ i = Len(t) + 1
      BY <3>4
    <3> QED BY <3>1, <3>2, <3>4, <3>5, <3>6
  <2>3. \A d \in Conn : d # c =>
         thread'[d] = thread[d] /\ sent'[d] = sent[d] /\ trail'[d] = trail[d]
    BY <1>13 DEF NoAnswer, Shut, Goto, Row, Typed
  <2>4. \A d \in Conn : d # c => TrailOf(d)'
    BY <2>3 DEF Trails, TrailOf, CommandRow
  <2>5. TrailOf(c)'
    BY <2>1, <2>2 DEF TrailOf
  <2> QED BY <2>4, <2>5 DEF Trails
<1>14. ASSUME NEW c \in Conn, AuditRefused(c) PROVE Trails'
  BY <1>14 DEF AuditRefused, Shut, Goto, Trails, TrailOf, Typed
<1>15. ASSUME NEW c \in Conn, Join(c) PROVE Trails'
  BY <1>15 DEF Join, Goto, Trails, TrailOf, Typed
<1>16. ASSUME NEW c \in Conn, Unmap(c) PROVE Trails'
  BY <1>16 DEF Unmap, Goto, Trails, TrailOf, Typed
<1>17. ASSUME NEW c \in Conn, Disconnect(c) PROVE Trails'
  BY <1>17 DEF Disconnect, Goto, Leave, Row, DisconnectRow, Trails, TrailOf, Typed
<1>18. ASSUME Restart PROVE Trails'
  BY <1>18 DEF Restart, Trails, TrailOf, Typed
<1>19. CASE UNCHANGED vars
  BY <1>19, <1>1 DEF vars, gateway
<1> QED
  BY <1>2, <1>3, <1>4, <1>5, <1>6, <1>7, <1>8, <1>9, <1>10, <1>11, <1>12, <1>13, <1>14,
    <1>15, <1>16, <1>17, <1>18, <1>19
  DEF Next, Gateway, Callback, Reaper, Worker

\* A row that may follow the trail t.
RightRow(t, row) ==
  row.op = "ssh_command_result" =>
    t # <<>> /\ t[Len(t)] = CommandRow(row.cmd) /\ row.answer \in {row.cmd, Unknown}

\* Such a row keeps an open trail true.
LEMMA AddRight ==
  ASSUME Typed, Trails, TrailTrue, NEW c \in Conn, thread[c] # "done", NEW row,
         RightRow(trail[c], row), trail' = [trail EXCEPT ![c] = Append(trail[c], row)]
  PROVE  TrailTrue'
<1> DEFINE t == trail[c]
<1>1. t \in Seq(Rows) /\ trail'[c] = Append(t, row)
  BY DEF Typed
<1>2. \A d \in Conn : d # c => trail'[d] = trail[d]
  BY DEF Typed
<1>3. \A i \in DOMAIN t : t[i].op # "ssh_disconnect"
  BY DEF Trails, TrailOf
<1>4. \A i \in DOMAIN t : t[i].op = "ssh_command_result" =>
        /\ i > 1 /\ t[i - 1] = CommandRow(t[i].cmd)
        /\ t[i].answer \in {t[i].cmd, Unknown}
  BY DEF TrailTrue
<1> DEFINE u == Append(t, row)
<1>5. /\ Len(t) \in Nat /\ DOMAIN t = 1 .. Len(t)
      /\ Len(u) = Len(t) + 1 /\ DOMAIN u = 1 .. (Len(t) + 1)
      /\ \A i \in DOMAIN t : u[i] = t[i]
      /\ u[Len(t) + 1] = row
  BY <1>1, RowAdded
<1>6. t # <<>> => Len(t) > 0
  BY <1>1
<1> HIDE DEF t, u
<1>7. \A i \in DOMAIN u :
        /\ u[i].op = "ssh_command_result" =>
             i > 1 /\ u[i - 1] = CommandRow(u[i].cmd) /\ u[i].answer \in {u[i].cmd, Unknown}
        /\ u[i].op = "ssh_disconnect" => i = Len(u)
  <2> TAKE i \in DOMAIN u
  <2>1. CASE i \in DOMAIN t
    <3>1. u[i] = t[i] /\ (i > 1 => u[i - 1] = t[i - 1])
      BY <2>1, <1>5
    <3> QED BY <2>1, <3>1, <1>3, <1>4
  <2>2. CASE i = Len(t) + 1
    <3>1. u[i] = row /\ (t # <<>> => i > 1 /\ u[i - 1] = t[Len(t)])
      BY <2>2, <1>5, <1>6
    <3> QED BY <2>2, <3>1, <1>5 DEF RightRow, t
  <2> QED BY <2>1, <2>2, <1>5
<1>8. trail'[c] = u
  BY <1>1 DEF u
<1> QED
  BY <1>2, <1>7, <1>8 DEF TrailTrue, CommandRow

\* An answer is taken from the pipe, which holds that of the latest command or none.
LEMMA TrailTrueStep ==
  Typed /\ Pipes /\ Trails /\ TrailTrue /\ [Next]_vars => TrailTrue'
<1> SUFFICES ASSUME Typed, Pipes, Trails, TrailTrue, [Next]_vars
             PROVE  TrailTrue'
  OBVIOUS
\* Steps that leave alone what it is about.
<1>1. ASSUME UNCHANGED <<trail>> PROVE TrailTrue'
  BY <1>1 DEF TrailTrue, Typed
<1>2. ASSUME NEW c \in Conn,
             \/ Accept(c) \/ NoShell(c) \/ StartWorker(c) \/ Greeted(c)
             \/ NotGreeted(c) \/ HangUp(c) \/ AuditRefused(c) \/ Join(c) \/ Unmap(c)
             \/ Register(c) \/ SendInit(c) \/ Receive(c) \/ Answer(c)
             \/ WorkerFails(c) \/ Exit(c) \/ Die(c) \/ ActiveExpires(c) \/ Enter(c)
             \/ Bind(c) \/ Serve(c)
      PROVE  TrailTrue'
  BY <1>2, <1>1 DEF Accept, NoShell, StartWorker, Greeted, NotGreeted, HangUp,
    AuditRefused, Join, Unmap, Register, SendInit, Receive, Answer, WorkerFails, Exit,
    Die, ActiveExpires, Enter, Bind, Serve, gateway
<1>3. ASSUME NEW p \in Pid,
             MapExpires(p)
      PROVE  TrailTrue'
  BY <1>3, <1>1 DEF MapExpires, gateway
<1>4. ASSUME \/ ScanPids \/ ScanNamespaces \/ DeleteKey \/ Forget \/ ReapFails
             \/ Restart
      PROVE  TrailTrue'
  BY <1>4, <1>1 DEF ScanPids, ScanNamespaces, DeleteKey, Forget, ReapFails, Restart,
    gateway
<1>5. ASSUME NEW c \in Conn, CommandIn(c) PROVE TrailTrue'
  <2>1. /\ thread[c] = "idle"
        /\ trail' = [trail EXCEPT ![c] = Append(trail[c], CommandRow(sent[c] + 1))]
    BY <1>5 DEF CommandIn, Row
  <2>2. RightRow(trail[c], CommandRow(sent[c] + 1))
    BY DEF RightRow, CommandRow
  <2> QED BY <2>1, <2>2, AddRight
<1>6. ASSUME NEW c \in Conn, Result(c) PROVE TrailTrue'
  <2>1. /\ thread[c] = "waiting" /\ up[c] # <<>>
        /\ trail' = [trail EXCEPT ![c] = Append(trail[c], ResultRow(sent[c], Head(up[c])))]
    BY <1>6 DEF Result, Row
  <2>2. Head(up[c]) = sent[c]
    BY <2>1, OneMessage DEF Pipes, PipeOf, Quiet
  <2>3. trail[c] # <<>> /\ trail[c][Len(trail[c])] = CommandRow(sent[c])
    BY <2>1 DEF Trails, TrailOf
  <2>4. RightRow(trail[c], ResultRow(sent[c], Head(up[c])))
    BY <2>2, <2>3 DEF RightRow, ResultRow
  <2> QED BY <2>1, <2>4, AddRight
<1>7. ASSUME NEW c \in Conn, NoAnswer(c) PROVE TrailTrue'
  <2>1. /\ thread[c] = "waiting"
        /\ \/ trail' = [trail EXCEPT ![c] = Append(trail[c], ResultRow(sent[c], Unknown))]
           \/ trail' = trail
    BY <1>7 DEF NoAnswer, Row
  <2>2. trail[c] # <<>> /\ trail[c][Len(trail[c])] = CommandRow(sent[c])
    BY <2>1 DEF Trails, TrailOf
  <2>3. RightRow(trail[c], ResultRow(sent[c], Unknown))
    BY <2>2 DEF RightRow, ResultRow
  <2> QED BY <2>1, <2>3, AddRight, <1>1
<1>8. ASSUME NEW c \in Conn, Disconnect(c) PROVE TrailTrue'
  <2>1. /\ thread[c] = "last"
        /\ trail' = [trail EXCEPT ![c] = Append(trail[c], DisconnectRow)] \/ trail' = trail
    BY <1>8 DEF Disconnect, Leave, Row
  <2>2. RightRow(trail[c], DisconnectRow)
    BY DEF RightRow, DisconnectRow
  <2> QED BY <2>1, <2>2, AddRight, <1>1
<1>9. CASE UNCHANGED vars
  BY <1>9, <1>1 DEF vars, gateway
<1> QED
  BY <1>2, <1>3, <1>4, <1>5, <1>6, <1>7, <1>8, <1>9
  DEF Next, Gateway, Callback, Reaper, Worker

-----------------------------------------------------------------------------
(* What the reaper spares *)

\* What is taken of stale is stale.
LEMMA Taken ==
  ASSUME NEW stale \in SUBSET Conn, Take(stale)
  PROVE  \/ reaper' = Asleep
         \/ /\ reaper'.at = "deleting" /\ reaper'.victim \in stale
            /\ reaper'.todo \subseteq stale
<1>1. CASE stale = {}
  BY <1>1 DEF Take
<1>2. CASE stale # {}
  <2>1. PICK s \in stale :
          reaper' = [Asleep EXCEPT !.at = "deleting", !.victim = s,
                                   !.todo = stale \ {s}, !.left = keys[s]]
    BY <1>2, Zenon DEF Take
  <2>2. reaper'.at = "deleting" /\ reaper'.victim = s /\ reaper'.todo = stale \ {s}
    BY <2>1 DEF Asleep
  <2> QED BY <2>2
<1> QED
  BY <1>1, <1>2

\* The keys of a session are made by its callbacks, after it has registered; the reaper
\* drops from the cache only what is dead.
LEMMA RoomsStep ==
  Typed /\ Stages /\ PidsDistinct /\ CallsTrue /\ Spared /\ Rooms /\ [Next]_vars => Rooms'
<1> SUFFICES ASSUME Typed, Stages, PidsDistinct, CallsTrue, Spared, Rooms,
                    [Next]_vars
             PROVE  Rooms'
  OBVIOUS
\* Steps that leave alone what it is about.
<1>1. ASSUME UNCHANGED <<worker, map, keys, sessions>> PROVE Rooms'
  BY <1>1 DEF Rooms, Live, Typed
<1>2. ASSUME NEW c \in Conn,
             \/ Accept(c) \/ NoShell(c) \/ Greeted(c) \/ NotGreeted(c)
             \/ CommandIn(c) \/ HangUp(c) \/ Result(c) \/ NoAnswer(c)
             \/ AuditRefused(c) \/ Disconnect(c) \/ ActiveExpires(c) \/ Enter(c)
      PROVE  Rooms'
  BY <1>2, <1>1 DEF Accept, NoShell, Greeted, NotGreeted, CommandIn, HangUp, Result,
    NoAnswer, AuditRefused, Disconnect, ActiveExpires, Enter, process, redis, fuse
<1>3. ASSUME \/ ScanPids \/ ScanNamespaces \/ ReapFails
      PROVE  Rooms'
  BY <1>3, <1>1 DEF ScanPids, ScanNamespaces, ReapFails, process, redis, fuse
<1>4. ASSUME NEW c \in Conn, StartWorker(c) PROVE Rooms'
  BY <1>4 DEF StartWorker, Become, redis, fuse, Stages, Rooms, Live, Typed
<1>5. ASSUME NEW c \in Conn, Join(c) PROVE Rooms'
  BY <1>5 DEF Join, Dies, Become, redis, fuse, Rooms, Live, Typed
<1>6. ASSUME NEW c \in Conn, Unmap(c) PROVE Rooms'
  BY <1>6, SessionConstants DEF Unmap, Unmapped, process, fuse, Rooms, Live, Typed
<1>7. ASSUME NEW c \in Conn, Register(c) PROVE Rooms'
  BY <1>7 DEF Register, Become, Registered, fuse, Rooms, Live, Typed
<1>8. ASSUME NEW c \in Conn, SendInit(c) PROVE Rooms'
  BY <1>8 DEF SendInit, Become, redis, fuse, Rooms, Live, Typed
<1>9. ASSUME NEW c \in Conn, Receive(c) PROVE Rooms'
  <2>1. /\ \E w \in {"exit", "busy"} : worker' = [worker EXCEPT ![c] = w]
        /\ worker[c] = "loop" /\ map' = map /\ keys' = keys /\ sessions' = sessions
        /\ reaper' = reaper
    BY <1>9 DEF Receive, Become, fuse
  <2> QED BY <2>1 DEF Rooms, Live, Typed
<1>10. ASSUME NEW c \in Conn, Answer(c) PROVE Rooms'
  BY <1>10 DEF Answer, Become, fuse, Rooms, Live, Typed
<1>11. ASSUME NEW c \in Conn, WorkerFails(c) PROVE Rooms'
  BY <1>11 DEF WorkerFails, Become, redis, fuse, Rooms, Live, Typed
<1>12. ASSUME NEW c \in Conn, Exit(c) PROVE Rooms'
  <2>1. /\ worker[c] = "exit" /\ worker' = [worker EXCEPT ![c] = "dead"]
        /\ keys' = keys /\ sessions' = sessions
        /\ map' = [map EXCEPT ![pid[c]] = None] \/ map' = map
    BY <1>12 DEF Exit, Dies, Become, fuse
  <2>2. \A d \in Conn, q \in Pid : map[q] # d => map'[q] # d
    BY <2>1, SessionConstants DEF Typed
  <2> QED BY <2>1, <2>2 DEF Rooms, Live, Typed
<1>13. ASSUME NEW c \in Conn, Die(c) PROVE Rooms'
  BY <1>13 DEF Die, Dies, Become, redis, fuse, Rooms, Live, Typed
<1>14. ASSUME NEW c \in Conn, Bind(c) PROVE Rooms'
  <2> DEFINE s == map[pid[c]]
  <2>1. pid[c] \in Pid
    BY <1>14 DEF Bind, NoCall, PidsDistinct, Uses
  <2>2. CASE s = None
    <3>1. keys' = keys /\ sessions' = sessions
      BY <1>14, <2>2 DEF Bind
    <3> QED BY <1>14, <3>1, <1>1 DEF Bind, process, redis
  <2>3. CASE s # None
    <3>1. s \in Conn
      BY <2>1, <2>3 DEF Typed
    <3>2. /\ keys' = IF s \in sessions THEN keys ELSE [keys EXCEPT ![s] = {"next", "file"}]
          /\ sessions' = sessions \cup {s} /\ reaper' = reaper
          /\ SlowStart => s \in sessions \/ reaper.at # "pids" \/ s \in reaper.seen
          /\ worker' = worker /\ map' = map
      BY <1>14, <2>3 DEF Bind, process, redis
    <3>3. worker[s] \notin {"none", "boot"}
      BY <2>1, <3>1 DEF Rooms
    <3> QED BY <3>1, <3>2, <3>3 DEF Rooms, Live, Typed
  <2> QED BY <2>2, <2>3
<1>15. ASSUME NEW c \in Conn, Serve(c) PROVE Rooms'
  <2>1. call[c].session = c /\ worker[c] \in {"ready", "busy", "dead"}
    BY <1>15 DEF Serve, NoCall, CallsTrue
  <2>2. /\ keys' = [keys EXCEPT ![c] = keys[c] \cup {"file"}]
        /\ worker' = worker /\ map' = map /\ sessions' = sessions
    BY <1>15, <2>1 DEF Serve, process, redis
  <2> QED BY <2>1, <2>2 DEF Rooms, Live, Typed
<1>16. ASSUME NEW p \in Pid, MapExpires(p) PROVE Rooms'
  BY <1>16, SessionConstants DEF MapExpires, process, fuse, Rooms, Live, Typed
<1>17. ASSUME DeleteKey PROVE Rooms'
  <2>1. PICK k : keys' = [keys EXCEPT ![reaper.victim] = keys[reaper.victim] \ {k}]
    BY <1>17 DEF DeleteKey
  <2>2. worker' = worker /\ map' = map /\ sessions' = sessions
    BY <1>17 DEF DeleteKey, process, redis
  <2> QED BY <1>17, <2>1, <2>2 DEF DeleteKey, Rooms, Live, Typed
<1>18. ASSUME Forget PROVE Rooms'
  <2>1. /\ sessions' = sessions \ {reaper.victim}
        /\ worker' = worker /\ map' = map /\ keys' = keys
        /\ worker[reaper.victim] \in {"exit", "dead"}
    BY <1>18 DEF Forget, Spared, process, redis
  <2> QED BY <2>1 DEF Rooms, Live
<1>19. ASSUME Restart PROVE Rooms'
  BY <1>19 DEF Restart, redis, Rooms, Live, Typed
<1>20. CASE UNCHANGED vars
  BY <1>20, <1>1 DEF vars, process, redis, fuse
<1> QED
  BY <1>2, <1>3, <1>4, <1>5, <1>6, <1>7, <1>8, <1>9, <1>10, <1>11, <1>12, <1>13, <1>14,
    <1>15, <1>16, <1>17, <1>18, <1>19, <1>20
  DEF Next, Gateway, Callback, Reaper, Worker

\* A live session that has fs:next_inode was in the cache, so its mapping was seen.
LEMMA SparedStep ==
  SlowStart /\ Typed /\ Stages /\ PidsDistinct /\ MapsLive /\ Rooms /\ Spared /\
  [Next]_vars => Spared'
<1> SUFFICES ASSUME SlowStart, Typed, Stages, PidsDistinct, MapsLive, Rooms,
                    Spared, [Next]_vars
             PROVE  Spared'
  OBVIOUS
\* Steps that leave alone what it is about.
<1>1. ASSUME UNCHANGED <<worker, sessions, reaper>> PROVE Spared'
  BY <1>1 DEF Spared, Live, Typed
<1>2. ASSUME NEW c \in Conn,
             \/ Accept(c) \/ NoShell(c) \/ Greeted(c) \/ NotGreeted(c)
             \/ CommandIn(c) \/ HangUp(c) \/ Result(c) \/ NoAnswer(c)
             \/ AuditRefused(c) \/ Unmap(c) \/ Disconnect(c) \/ ActiveExpires(c)
             \/ Enter(c) \/ Serve(c)
      PROVE  Spared'
  BY <1>2, <1>1 DEF Accept, NoShell, Greeted, NotGreeted, CommandIn, HangUp, Result,
    NoAnswer, AuditRefused, Unmap, Disconnect, ActiveExpires, Enter, Serve, process,
    fuse
<1>3. ASSUME NEW p \in Pid,
             MapExpires(p)
      PROVE  Spared'
  BY <1>3, <1>1 DEF MapExpires, process, fuse
<1>4. ASSUME NEW c \in Conn, StartWorker(c) PROVE Spared'
  BY <1>4 DEF StartWorker, Become, fuse, Stages, Spared, Live, Typed
<1>5. ASSUME NEW c \in Conn, Join(c) PROVE Spared'
  BY <1>5 DEF Join, Dies, Become, fuse, Spared, Live, Typed
<1>6. ASSUME NEW c \in Conn, Register(c) PROVE Spared'
  BY <1>6 DEF Register, Become, fuse, Rooms, Spared, Live, Typed
<1>7. ASSUME NEW c \in Conn, SendInit(c) PROVE Spared'
  BY <1>7 DEF SendInit, Become, fuse, Spared, Live, Typed
<1>8. ASSUME NEW c \in Conn, Receive(c) PROVE Spared'
  <2>1. /\ \E w \in {"exit", "busy"} : worker' = [worker EXCEPT ![c] = w]
        /\ worker[c] = "loop" /\ map' = map /\ keys' = keys /\ sessions' = sessions
        /\ reaper' = reaper
    BY <1>8 DEF Receive, Become, fuse
  <2> QED BY <2>1 DEF Spared, Live, Typed
<1>9. ASSUME NEW c \in Conn, Answer(c) PROVE Spared'
  BY <1>9 DEF Answer, Become, fuse, Spared, Live, Typed
<1>10. ASSUME NEW c \in Conn, WorkerFails(c) PROVE Spared'
  BY <1>10 DEF WorkerFails, Become, fuse, Spared, Live, Typed
<1>11. ASSUME NEW c \in Conn, Exit(c) PROVE Spared'
  BY <1>11 DEF Exit, Dies, Become, fuse, Spared, Live, Typed
<1>12. ASSUME NEW c \in Conn, Die(c) PROVE Spared'
  BY <1>12 DEF Die, Dies, Become, fuse, Spared, Live, Typed
<1>13. ASSUME NEW c \in Conn, Bind(c) PROVE Spared'
  <2> DEFINE s == map[pid[c]]
  <2>1. pid[c] \in Pid
    BY <1>13 DEF Bind, NoCall, PidsDistinct, Uses
  <2>2. CASE s = None
    <3>1. keys' = keys /\ sessions' = sessions
      BY <1>13, <2>2 DEF Bind
    <3> QED BY <1>13, <3>1, <1>1 DEF Bind, process, redis
  <2>3. CASE s # None
    <3>1. s \in Conn
      BY <2>1, <2>3 DEF Typed
    <3>2. /\ keys' = IF s \in sessions THEN keys ELSE [keys EXCEPT ![s] = {"next", "file"}]
          /\ sessions' = sessions \cup {s} /\ reaper' = reaper
          /\ SlowStart => s \in sessions \/ reaper.at # "pids" \/ s \in reaper.seen
          /\ worker' = worker /\ map' = map
      BY <1>13, <2>3 DEF Bind, process, redis
    <3> QED BY <3>1, <3>2 DEF Spared, Live
  <2> QED BY <2>2, <2>3
<1>14. ASSUME ScanPids PROVE Spared'
  <2>1. /\ reaper' = [Asleep EXCEPT !.at = "pids", !.seen = {map[p] : p \in Pid} \ {None}]
        /\ worker' = worker /\ sessions' = sessions
    BY <1>14 DEF ScanPids, process, fuse
  <2>2. reaper'.at = "pids" /\ reaper'.seen = {map[p] : p \in Pid} \ {None}
    BY <2>1 DEF Asleep
  <2>3. \A d \in Conn : Live(d) => pid[d] \in Pid /\ map[pid[d]] = d /\ d # None
    BY SessionConstants DEF PidsDistinct, Uses, Alive, Live, MapsLive
  <2> QED BY <2>1, <2>2, <2>3 DEF Spared, Live
<1>15. ASSUME ScanNamespaces PROVE Spared'
  <2> DEFINE stale == {s \in Conn : "next" \in keys[s]} \ reaper.seen
  <2>1. reaper.at = "pids" /\ Take(stale) /\ worker' = worker
    BY <1>15 DEF ScanNamespaces, process
  <2>2. \A s \in stale : worker[s] \in {"exit", "dead"}
    BY <2>1 DEF Spared, Rooms, Live, Typed
  <2>3. stale \subseteq Conn
    OBVIOUS
  <2> HIDE DEF stale
  <2> QED BY <2>1, <2>2, <2>3, Taken DEF Spared, Asleep
<1>16. ASSUME DeleteKey PROVE Spared'
  <2>1. /\ \E k : reaper' = [reaper EXCEPT !.left = reaper.left \ {k}]
        /\ worker' = worker /\ sessions' = sessions
    BY <1>16 DEF DeleteKey, process
  <2>2. /\ reaper'.at = reaper.at /\ reaper'.seen = reaper.seen
        /\ reaper'.todo = reaper.todo /\ reaper'.victim = reaper.victim
    BY <2>1 DEF Typed, Reapers
  <2> QED BY <2>1, <2>2 DEF Spared, Live
<1>17. ASSUME Forget PROVE Spared'
  <2>1. /\ reaper.at = "deleting" /\ Take(reaper.todo) /\ worker' = worker
        /\ reaper.todo \subseteq Conn
    BY <1>17 DEF Forget, process, Typed, Reapers
  <2> QED BY <2>1, Taken DEF Spared, Asleep
<1>18. ASSUME ReapFails PROVE Spared'
  BY <1>18 DEF ReapFails, Asleep, Spared
<1>19. ASSUME Restart PROVE Spared'
  BY <1>19 DEF Restart, Asleep, Spared
<1>20. CASE UNCHANGED vars
  BY <1>20, <1>1 DEF vars, process, fuse
<1> QED
  BY <1>2, <1>3, <1>4, <1>5, <1>6, <1>7, <1>8, <1>9, <1>10, <1>11, <1>12, <1>13, <1>14,
    <1>15, <1>16, <1>17, <1>18, <1>19, <1>20
  DEF Next, Gateway, Callback, Reaper, Worker

\* Only keys of the dead are deleted.
LEMMA KeptStep ==
  Typed /\ PidsDistinct /\ CallsTrue /\ Rooms /\ Spared /\ LiveNamespaceKept /\
  [Next]_vars => LiveNamespaceKept'
<1> SUFFICES ASSUME Typed, PidsDistinct, CallsTrue, Rooms, Spared,
                    LiveNamespaceKept, [Next]_vars
             PROVE  LiveNamespaceKept'
  OBVIOUS
\* Steps that leave alone what it is about.
<1>1. ASSUME UNCHANGED <<worker, keys, sessions>> PROVE LiveNamespaceKept'
  BY <1>1 DEF LiveNamespaceKept, Typed
<1>2. ASSUME NEW c \in Conn,
             \/ Accept(c) \/ NoShell(c) \/ Greeted(c) \/ NotGreeted(c)
             \/ CommandIn(c) \/ HangUp(c) \/ Result(c) \/ NoAnswer(c)
             \/ AuditRefused(c) \/ Unmap(c) \/ Disconnect(c) \/ ActiveExpires(c)
             \/ Enter(c)
      PROVE  LiveNamespaceKept'
  BY <1>2, <1>1 DEF Accept, NoShell, Greeted, NotGreeted, CommandIn, HangUp, Result,
    NoAnswer, AuditRefused, Unmap, Disconnect, ActiveExpires, Enter, process, fuse
<1>3. ASSUME NEW p \in Pid,
             MapExpires(p)
      PROVE  LiveNamespaceKept'
  BY <1>3, <1>1 DEF MapExpires, process, fuse
<1>4. ASSUME \/ ScanPids \/ ScanNamespaces \/ ReapFails
      PROVE  LiveNamespaceKept'
  BY <1>4, <1>1 DEF ScanPids, ScanNamespaces, ReapFails, process, fuse
<1>5. ASSUME NEW c \in Conn, StartWorker(c) PROVE LiveNamespaceKept'
  BY <1>5 DEF StartWorker, Become, fuse, Typed, LiveNamespaceKept, Typed
<1>6. ASSUME NEW c \in Conn, Join(c) PROVE LiveNamespaceKept'
  BY <1>6 DEF Join, Dies, Become, fuse, LiveNamespaceKept, Typed
<1>7. ASSUME NEW c \in Conn, Register(c) PROVE LiveNamespaceKept'
  BY <1>7 DEF Register, Become, fuse, Rooms, LiveNamespaceKept, Typed
<1>8. ASSUME NEW c \in Conn, SendInit(c) PROVE LiveNamespaceKept'
  BY <1>8 DEF SendInit, Become, fuse, LiveNamespaceKept, Typed
<1>9. ASSUME NEW c \in Conn, Receive(c) PROVE LiveNamespaceKept'
  <2>1. /\ \E w \in {"exit", "busy"} : worker' = [worker EXCEPT ![c] = w]
        /\ worker[c] = "loop" /\ map' = map /\ keys' = keys /\ sessions' = sessions
        /\ reaper' = reaper
    BY <1>9 DEF Receive, Become, fuse
  <2> QED BY <2>1 DEF LiveNamespaceKept, Typed
<1>10. ASSUME NEW c \in Conn, Answer(c) PROVE LiveNamespaceKept'
  BY <1>10 DEF Answer, Become, fuse, LiveNamespaceKept, Typed
<1>11. ASSUME NEW c \in Conn, WorkerFails(c) PROVE LiveNamespaceKept'
  BY <1>11 DEF WorkerFails, Become, fuse, LiveNamespaceKept, Typed
<1>12. ASSUME NEW c \in Conn, Exit(c) PROVE LiveNamespaceKept'
  BY <1>12 DEF Exit, Dies, Become, fuse, LiveNamespaceKept, Typed
<1>13. ASSUME NEW c \in Conn, Die(c) PROVE LiveNamespaceKept'
  BY <1>13 DEF Die, Dies, Become, fuse, LiveNamespaceKept, Typed
<1>14. ASSUME NEW c \in Conn, Bind(c) PROVE LiveNamespaceKept'
  <2> DEFINE s == map[pid[c]]
  <2>1. pid[c] \in Pid
    BY <1>14 DEF Bind, NoCall, PidsDistinct, Uses
  <2>2. CASE s = None
    <3>1. keys' = keys /\ sessions' = sessions
      BY <1>14, <2>2 DEF Bind
    <3> QED BY <1>14, <3>1, <1>1 DEF Bind, process, redis
  <2>3. CASE s # None
    <3>1. s \in Conn
      BY <2>1, <2>3 DEF Typed
    <3>2. /\ keys' = IF s \in sessions THEN keys ELSE [keys EXCEPT ![s] = {"next", "file"}]
          /\ sessions' = sessions \cup {s} /\ reaper' = reaper
          /\ SlowStart => s \in sessions \/ reaper.at # "pids" \/ s \in reaper.seen
          /\ worker' = worker /\ map' = map
      BY <1>14, <2>3 DEF Bind, process, redis
    <3> QED BY <3>1, <3>2 DEF LiveNamespaceKept, Typed
  <2> QED BY <2>2, <2>3
<1>15. ASSUME NEW c \in Conn, Serve(c) PROVE LiveNamespaceKept'
  <2>1. call[c].session = c /\ worker[c] \in {"ready", "busy", "dead"}
    BY <1>15 DEF Serve, NoCall, CallsTrue
  <2>2. /\ keys' = [keys EXCEPT ![c] = keys[c] \cup {"file"}]
        /\ worker' = worker /\ map' = map /\ sessions' = sessions
    BY <1>15, <2>1 DEF Serve, process, redis
  <2> QED BY <2>1, <2>2 DEF LiveNamespaceKept, Typed
<1>16. ASSUME DeleteKey PROVE LiveNamespaceKept'
  <2>1. PICK k : keys' = [keys EXCEPT ![reaper.victim] = keys[reaper.victim] \ {k}]
    BY <1>16 DEF DeleteKey
  <2>2. worker' = worker /\ map' = map /\ sessions' = sessions
    BY <1>16 DEF DeleteKey, process, redis
  <2> QED BY <1>16, <2>1, <2>2 DEF DeleteKey, Spared, LiveNamespaceKept, Typed
<1>17. ASSUME Forget PROVE LiveNamespaceKept'
  BY <1>17 DEF Forget, process, LiveNamespaceKept, Typed
<1>18. ASSUME Restart PROVE LiveNamespaceKept'
  BY <1>18 DEF Restart, LiveNamespaceKept, Typed
<1>19. CASE UNCHANGED vars
  BY <1>19, <1>1 DEF vars, process, fuse
<1> QED
  BY <1>2, <1>3, <1>4, <1>5, <1>6, <1>7, <1>8, <1>9, <1>10, <1>11, <1>12, <1>13, <1>14,
    <1>15, <1>16, <1>17, <1>18, <1>19
  DEF Next, Gateway, Callback, Reaper, Worker

-----------------------------------------------------------------------------
(* The inductive invariant, and the theorems *)

IInv ==
  /\ Typed /\ SlotsCounted /\ Held
  /\ AttributionTrue /\ Pipes /\ Trails /\ TrailTrue
  /\ SlowStart => Kept

\* The first state: nobody is there.
LEMMA InitIInv == Init => IInv
<1> SUFFICES ASSUME Init PROVE IInv
  OBVIOUS
<1>1. Typed
  BY SessionConstants DEF Init, Typed, NoCall, Calls, Asleep, Reapers
<1>2. SlotsCounted
  <2>1. Served = {}
    BY DEF Init, Served
  <2> QED BY <2>1, FS_EmptySet, SessionConstants DEF SlotsCounted, Init
<1>3. Held
  BY DEF Init, Held, Stages, PidsDistinct, Uses, Alive, MapsLive, Live, TagsTrue,
      CallsTrue
<1>4. AttributionTrue
  BY DEF Init, AttributionTrue, NoRow
<1>5. Pipes
  BY DEF Init, Pipes, PipeOf, Quiet
<1>6. Trails /\ TrailTrue
  BY DEF Init, Trails, TrailOf, TrailTrue
<1>7. Kept
  BY SessionConstants DEF Init, Kept, Rooms, Spared, LiveNamespaceKept, Live, Asleep
<1> QED
  BY <1>1, <1>2, <1>3, <1>4, <1>5, <1>6, <1>7 DEF IInv

\* Each part is kept by every step, with the help of others.
LEMMA NextIInv ==
  IInv /\ [Next]_vars => IInv'
<1> SUFFICES ASSUME IInv, [Next]_vars PROVE IInv'
  OBVIOUS
<1>1. /\ Typed /\ SlotsCounted /\ AttributionTrue /\ Pipes /\ Trails /\ TrailTrue
      /\ Stages /\ PidsDistinct /\ MapsLive /\ TagsTrue /\ CallsTrue
  BY DEF IInv, Held
<1>2. Typed' /\ SlotsCounted'
  BY <1>1, TypedStep, SlotsStep
<1>3. Held'
  BY <1>1, StagesStep, PidsStep, MapsStep, TagsStep, CallsStep DEF Held
<1>4. AttributionTrue' /\ Pipes' /\ Trails' /\ TrailTrue'
  BY <1>1, AttributionStep, PipesStep, TrailsStep, TrailTrueStep
<1>5. SlowStart => Kept'
  BY <1>1, RoomsStep, SparedStep, KeptStep DEF IInv, Kept
<1> QED
  BY <1>2, <1>3, <1>4, <1>5 DEF IInv

\* The invariant holds throughout, with faults, restarts and whatever the reaper does.
THEOREM SpecIInv == Spec => []IInv
<1> QED
  BY InitIInv, NextIInv, PTL DEF Spec

\* The types, and the count of slots: those in use are the connections being served, on
\* every way out of handle_client (_limited_client gives each one back once).
THEOREM SpecTypeOK == Spec => []TypeOK
<1>1. ASSUME IInv PROVE TypeOK
  <2>1. Served \in SUBSET Conn
    BY DEF Served
  <2>2. Cardinality(Served) \in Nat
    BY <2>1, FS_Subset, FS_CardinalityType, SessionConstants
  <2>3. free \in 0..Slots
    BY <1>1, <2>2, SessionConstants DEF IInv, SlotsCounted
  <2> QED BY <1>1, <2>3 DEF IInv, Typed, SlotsCounted, Served, TypeOK
<1> QED
  BY <1>1, SpecIInv, PTL

\* A callback is attributed to its worker's session and to that worker's command or none,
\* however PIDs are used again, mappings expire, and workers die (_session, session_worker).
THEOREM SpecAttributionTrue == Spec => []AttributionTrue
<1>1. IInv => AttributionTrue
  BY DEF IInv
<1> QED
  BY <1>1, SpecIInv, PTL

\* A result in the audit log is the answer to the command before it (handle_client).
THEOREM SpecTrailTrue == Spec => []TrailTrue
<1>1. IInv => TrailTrue
  BY DEF IInv
<1> QED
  BY <1>1, SpecIInv, PTL

\* If no first callback falls between the reaper's two scans, no live session loses its
\* namespace (orphan_sessions, delete_namespace).
THEOREM SpecLiveNamespaceKept == SlowStart /\ Spec => []LiveNamespaceKept
<1>1. SlowStart /\ IInv => LiveNamespaceKept
  BY DEF IInv, Kept
<1>2. SlowStart => [](IInv => LiveNamespaceKept)
  <2>1. SUFFICES ASSUME SlowStart PROVE [](IInv => LiveNamespaceKept)
    OBVIOUS
  <2>2. IInv => LiveNamespaceKept
    BY <2>1, <1>1
  <2> QED BY <2>2, PTL
<1> QED
  BY <1>2, SpecIInv, PTL
=============================================================================
