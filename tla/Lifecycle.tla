----------------------------- MODULE Lifecycle -----------------------------
(***************************************************************************)
(* Starting, probing and stopping the daemon (src/src/lock.rs,             *)
(* src/src/endpoint.rs, src/src/lib.rs, src/src/main.rs).                  *)
(*                                                                         *)
(* Any number of processes of one user run `nostdb-server run` or          *)
(* `nostdb-server status` at once.  They share the run directory, the lock *)
(* file and the address of the socket.  Each file-system call is a step of *)
(* its own, may fail, and may be the last one before a crash.  What a      *)
(* connection's thread says to its client is left to module Serve; here it *)
(* only ends, asking for shutdown or not.                                  *)
(***************************************************************************)
EXTENDS Naturals

CONSTANTS
  Procs,       \* processes
  Threads,     \* bound: connections a process serves at once
  MaxBacklog,  \* bound: connections waiting to be accepted
  None         \* no process, no file

ASSUME LifecycleAssumption ==
  /\ None \notin Procs /\ "stale" \notin Procs /\ None # "stale"
  /\ MaxBacklog \in Nat \ {0}

VARIABLES
  pc,        \* where each process is in main
  task,      \* the command it was started with, "run" or "status"
  answer,    \* what its last command reported, or None
  lock,      \* the process holding the lock on daemon.lock, or None
  dir,       \* the run directory: "absent", "wide" or "narrow" (mode 0700)
  sock,      \* the file at the address: None, "stale" or its listening process
  stopping,  \* the flag accept_until_shutdown shares with its threads
  backlog,   \* connections waiting in the process's listening socket
  th,        \* th[p][t]: what connection thread t of p is doing
  lost       \* history: processes a thread of which failed to connect

files == <<lock, dir, sock>>
serving == <<stopping, backlog, th, lost>>
vars == <<pc, task, answer, files, serving>>

(* The points of main at which the process has the guard in scope, and at  *)
(* which it has a listening socket.                                        *)
Holding == {"probed", "bind", "unlink", "listen", "chmod", "accept", "drop", "release"}
Listening == {"chmod", "accept", "drop"}

NoThreads == [t \in Threads |-> "none"]

Init ==
  /\ pc = [p \in Procs |-> "off"]
  /\ task = [p \in Procs |-> "run"]
  /\ answer = [p \in Procs |-> None]
  /\ lock = None
  /\ dir \in {"absent", "wide", "narrow"}
  /\ sock \in {None, "stale"}
  /\ stopping = [p \in Procs |-> FALSE]
  /\ backlog = [p \in Procs |-> 0]
  /\ th = [p \in Procs |-> NoThreads]
  /\ lost = {}

Goto(p, where) == pc' = [pc EXCEPT ![p] = where]

(* fs::create_dir_all leaves an existing directory as it is.               *)
create_dir_all(d) == IF d = "absent" THEN "wide" ELSE d

(* Mutant of restrict_to_current_user: an inherited mode is trusted.       *)
restrict_trusting(d) == d

(* The mode is reset to 0700 whatever it was.                              *)
restrict_to_current_user(d) == "narrow"

(* A listening socket whose process closes it, or dies, leaves its file.   *)
Orphan(p) == IF sock = p THEN "stale" ELSE sock
-----------------------------------------------------------------------------
(* lock::acquire. *)

Start(p, command) ==
  /\ pc[p] = "off"
  /\ Goto(p, "mkdir")
  /\ task' = [task EXCEPT ![p] = command]
  /\ answer' = [answer EXCEPT ![p] = None]
  /\ UNCHANGED <<files, serving>>

MakeDir(p) ==
  /\ pc[p] = "mkdir"
  /\ dir' = create_dir_all(dir)
  /\ Goto(p, "restrict")
  /\ UNCHANGED <<task, answer, lock, sock, serving>>

Restrict(p) ==
  /\ pc[p] = "restrict"
  /\ dir' = restrict_to_current_user(dir)
  /\ Goto(p, "lock")
  /\ UNCHANGED <<task, answer, lock, sock, serving>>

Acquired(p) ==
  /\ pc[p] = "lock" /\ lock = None
  /\ lock' = p
  /\ Goto(p, IF task[p] = "run" THEN "bind" ELSE "probed")
  /\ UNCHANGED <<task, answer, dir, sock, serving>>

(* Another process holds the lock: start reports AlreadyRunning, and       *)
(* is_running that a daemon runs.                                          *)
AlreadyHeld(p) ==
  /\ pc[p] = "lock" /\ lock # None
  /\ answer' = [answer EXCEPT ![p] = IF task[p] = "run" THEN "AlreadyRunning" ELSE "running"]
  /\ Goto(p, "off")
  /\ UNCHANGED <<task, files, serving>>

(* is_running drops the guard it did not want.                             *)
NotRunning(p) ==
  /\ pc[p] = "probed"
  /\ lock' = None
  /\ answer' = [answer EXCEPT ![p] = "not_running"]
  /\ Goto(p, "off")
  /\ UNCHANGED <<task, dir, sock, serving>>
-----------------------------------------------------------------------------
(* endpoint::bind, under the guard that start holds. *)

BindDir(p) ==
  /\ pc[p] = "bind"
  /\ dir' = restrict_to_current_user(create_dir_all(dir))
  /\ Goto(p, "unlink")
  /\ UNCHANGED <<task, answer, lock, sock, serving>>

(* Mutant of Unlink: a file found at the address is left there.            *)
UnlinkNothing(p) ==
  /\ pc[p] = "unlink"
  /\ UNCHANGED sock
  /\ Goto(p, "listen")
  /\ UNCHANGED <<task, answer, lock, dir, serving>>

Unlink(p) ==
  /\ pc[p] = "unlink"
  /\ sock' = None
  /\ Goto(p, "listen")
  /\ UNCHANGED <<task, answer, lock, dir, serving>>

(* UnixListener::bind creates the file, and fails when there is one.       *)
Listen(p) ==
  /\ pc[p] = "listen" /\ sock = None
  /\ sock' = p
  /\ Goto(p, "chmod")
  /\ UNCHANGED <<task, answer, lock, dir, serving>>

(* The socket's own mode, which nothing here depends on, is narrowed too.  *)
Chmod(p) ==
  /\ pc[p] = "chmod"
  /\ Goto(p, "accept")
  /\ UNCHANGED <<task, answer, files, serving>>

(* A call of acquire or bind returns an error.  A guard is dropped, and so *)
(* is a listening socket, whose file only Listener::drop would remove.     *)
StartFails(p) ==
  /\ pc[p] \in {"mkdir", "restrict", "lock", "bind", "unlink", "listen", "chmod"}
  /\ answer' = [answer EXCEPT ![p] = "error"]
  /\ lock' = IF lock = p THEN None ELSE lock
  /\ sock' = Orphan(p)
  /\ backlog' = [backlog EXCEPT ![p] = 0]
  /\ Goto(p, "off")
  /\ UNCHANGED <<task, dir, stopping, th, lost>>
-----------------------------------------------------------------------------
(* accept_until_shutdown and its threads. *)

Connects(q) == backlog' = [backlog EXCEPT ![q] = @ + 1]

(* A client connects to the address.                                       *)
ClientConnect(q) ==
  /\ sock = q /\ pc[q] \in Listening /\ backlog[q] < MaxBacklog
  /\ Connects(q)
  /\ UNCHANGED <<pc, task, answer, files, stopping, th, lost>>

(* A connection arrives and the flag is not set: a thread serves it.       *)
Accept(p, t) ==
  /\ pc[p] = "accept" /\ backlog[p] > 0 /\ ~stopping[p] /\ th[p][t] = "none"
  /\ backlog' = [backlog EXCEPT ![p] = @ - 1]
  /\ th' = [th EXCEPT ![p][t] = "serving"]
  /\ UNCHANGED <<pc, task, answer, files, stopping, lost>>

(* Mutant of LeaveLoop: the guard is dropped before the listener.          *)
LeaveLoopReleases(p) ==
  /\ pc[p] = "accept" /\ backlog[p] > 0 /\ stopping[p]
  /\ backlog' = [backlog EXCEPT ![p] = @ - 1]
  /\ lock' = None
  /\ Goto(p, "drop")
  /\ UNCHANGED <<task, answer, dir, sock, stopping, th, lost>>

(* Mutant of LeaveLoop: the flag is noticed before a connection arrives.   *)
LeaveLoopUnwoken(p) ==
  /\ pc[p] = "accept" /\ stopping[p]
  /\ backlog' = [backlog EXCEPT ![p] = @ - 1]
  /\ Goto(p, "drop")
  /\ UNCHANGED <<task, answer, files, stopping, th, lost>>

(* A connection arrives and the flag is set: it is dropped unserved.       *)
LeaveLoop(p) ==
  /\ pc[p] = "accept" /\ backlog[p] > 0 /\ stopping[p]
  /\ backlog' = [backlog EXCEPT ![p] = @ - 1]
  /\ Goto(p, "drop")
  /\ UNCHANGED <<task, answer, files, stopping, th, lost>>

(* accept fails, or the catalog's default path cannot be determined.  The  *)
(* flag is looked at before the error.                                     *)
AcceptFails(p) ==
  /\ pc[p] = "accept"
  /\ answer' = [answer EXCEPT ![p] = IF stopping[p] THEN @ ELSE "error"]
  /\ Goto(p, "drop")
  /\ UNCHANGED <<task, files, serving>>

(* serve_connection returns, for a shutdown request or for anything else.  *)
ConnectionEnds(p, t) ==
  /\ th[p][t] = "serving"
  /\ \E next \in {"none", "asked"} : th' = [th EXCEPT ![p][t] = next]
  /\ UNCHANGED <<pc, task, answer, files, stopping, backlog, lost>>

StoreFlag(p, t) ==
  /\ th[p][t] = "asked"
  /\ stopping' = [stopping EXCEPT ![p] = TRUE]
  /\ th' = [th EXCEPT ![p][t] = "stored"]
  /\ UNCHANGED <<pc, task, answer, files, backlog, lost>>

(* Mutant of Wake: the thread only sets the flag.                          *)
WakeNobody(p, t) ==
  /\ th[p][t] = "stored"
  /\ th' = [th EXCEPT ![p][t] = "none"]
  /\ UNCHANGED <<pc, task, answer, files, stopping, backlog, lost>>

(* The thread connects to the address, whichever process now listens       *)
(* there.  The connect may fail, with a listener or without one: the       *)
(* process has no descriptor left, say.  Its result is ignored.            *)
Wake(p, t) ==
  /\ th[p][t] = "stored"
  /\ th' = [th EXCEPT ![p][t] = "none"]
  /\ \/ /\ \E q \in Procs :
             sock = q /\ pc[q] \in Listening /\ backlog[q] < MaxBacklog /\ Connects(q)
        /\ UNCHANGED lost
     \/ /\ lost' = lost \union {p}
        /\ UNCHANGED backlog
  /\ UNCHANGED <<pc, task, answer, files, stopping>>

(* Listener::drop removes whatever file is at the address, if it can, and  *)
(* the listening socket closes.                                            *)
DropListener(p) ==
  /\ pc[p] = "drop"
  /\ sock' \in {None, Orphan(p)}
  /\ backlog' = [backlog EXCEPT ![p] = 0]
  /\ Goto(p, "release")
  /\ UNCHANGED <<task, answer, lock, dir, stopping, th, lost>>

DropGuard(p) ==
  /\ pc[p] = "release"
  /\ lock' = IF lock = p THEN None ELSE lock
  /\ Goto(p, "exit")
  /\ UNCHANGED <<task, answer, dir, sock, serving>>

(* Mutant of Exit: the threads are joined first.                           *)
ExitJoins(p) ==
  /\ pc[p] = "exit" /\ th[p] = NoThreads
  /\ stopping' = [stopping EXCEPT ![p] = FALSE]
  /\ lost' = lost \ {p}
  /\ Goto(p, "off")
  /\ UNCHANGED <<task, answer, files, backlog, th>>

(* main returns: the process ends, and its detached threads with it.       *)
Exit(p) ==
  /\ pc[p] = "exit"
  /\ stopping' = [stopping EXCEPT ![p] = FALSE]
  /\ th' = [th EXCEPT ![p] = NoThreads]
  /\ lost' = lost \ {p}
  /\ Goto(p, "off")
  /\ UNCHANGED <<task, answer, files, backlog>>

(* The process dies at any point.  The system releases its lock; the       *)
(* socket file stays.                                                      *)
Crash(p) ==
  /\ pc[p] # "off"
  /\ lock' = IF lock = p THEN None ELSE lock
  /\ sock' = Orphan(p)
  /\ stopping' = [stopping EXCEPT ![p] = FALSE]
  /\ backlog' = [backlog EXCEPT ![p] = 0]
  /\ th' = [th EXCEPT ![p] = NoThreads]
  /\ lost' = lost \ {p}
  /\ answer' = [answer EXCEPT ![p] = None]
  /\ Goto(p, "off")
  /\ UNCHANGED <<task, dir>>
-----------------------------------------------------------------------------
Starting(p) ==
  \/ MakeDir(p) \/ Restrict(p) \/ Acquired(p) \/ AlreadyHeld(p) \/ NotRunning(p)
  \/ BindDir(p) \/ Unlink(p) \/ Listen(p) \/ Chmod(p)

Stopping(p) == LeaveLoop(p) \/ DropListener(p) \/ DropGuard(p) \/ Exit(p)

Next ==
  \E p \in Procs :
    \/ \E command \in {"run", "status"} : Start(p, command)
    \/ Starting(p) \/ StartFails(p)
    \/ ClientConnect(p) \/ AcceptFails(p) \/ Stopping(p) \/ Crash(p)
    \/ \E t \in Threads :
         Accept(p, t) \/ ConnectionEnds(p, t) \/ StoreFlag(p, t) \/ Wake(p, t)

Spec == Init /\ [][Next]_vars

(* Fairness.  A process and its threads keep running unless they wait for  *)
(* a connection or a client; a connection that waits is accepted.  Nothing *)
(* is assumed of commands, clients, failures or crashes.                   *)
Fairness ==
  \A p \in Procs :
    /\ WF_vars(Starting(p)) /\ WF_vars(Stopping(p))
    /\ \A t \in Threads :
         WF_vars(Accept(p, t)) /\ WF_vars(StoreFlag(p, t)) /\ WF_vars(Wake(p, t))

LiveSpec == Spec /\ Fairness
-----------------------------------------------------------------------------
(* Properties. *)

TypeOK ==
  /\ pc \in [Procs -> {"off", "mkdir", "restrict", "lock", "exit"} \union Holding]
  /\ task \in [Procs -> {"run", "status"}]
  /\ answer \in [Procs -> {None, "AlreadyRunning", "running", "not_running", "error"}]
  /\ lock \in Procs \union {None}
  /\ dir \in {"absent", "wide", "narrow"}
  /\ sock \in Procs \union {None, "stale"}
  /\ stopping \in [Procs -> BOOLEAN]
  /\ backlog \in [Procs -> 0..MaxBacklog]
  /\ th \in [Procs -> [Threads -> {"none", "serving", "asked", "stored"}]]
  /\ lost \subseteq Procs

(* The process that has bound the endpoint is the one clients reach at the *)
(* address, from the bind to the removal of the file, however many other   *)
(* processes start, stop, fail or crash meanwhile: "Binding first and      *)
(* locking second would let two processes each unlink the other's socket"  *)
(* (endpoint.rs:92).  And a file at the address that some process listens  *)
(* on belongs to one that is still there.                                  *)
SocketOwned ==
  /\ \A p \in Procs : pc[p] \in Listening => sock = p
  /\ sock \in Procs => pc[sock] \in Listening

(* A process that has removed what it found at the address finds it free   *)
(* when it binds: what a daemon that crashed, failed to start or could not *)
(* remove its file left there never keeps the next one from starting, and  *)
(* no other process gets in between (endpoint.rs:80).                      *)
AddressFree == \A p \in Procs : pc[p] = "listen" => sock = None

(* No socket is ever reachable through a directory that other users can    *)
(* write, not even one inherited with a wider mode (lock.rs:81).           *)
EndpointRestricted == sock \in Procs => dir = "narrow"

(* A daemon that was told to stop is never left waiting for a connection   *)
(* that nobody will make: one has arrived, a thread is about to make it,   *)
(* or a thread tried and the error was ignored (lib.rs:142).               *)
WakeUpComes ==
  \A p \in Procs : stopping[p] /\ pc[p] = "accept" =>
    backlog[p] > 0 \/ p \in lost \/ \E t \in Threads : th[p][t] = "stored"

(* Once a thread has set the flag the daemon stops, although its accept    *)
(* loop is blocked and no client need ever connect (lib.rs:101), unless    *)
(* the connection that was to wake it failed; and then the next one that   *)
(* arrives, from anybody, stops it.                                        *)
ShutdownStops ==
  \A p \in Procs :
    /\ stopping[p] ~> pc[p] = "off" \/ p \in lost
    /\ stopping[p] /\ backlog[p] > 0 ~> pc[p] = "off"
=============================================================================
