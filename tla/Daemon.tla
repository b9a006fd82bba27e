------------------------------- MODULE Daemon -------------------------------
(***************************************************************************)
(* The daemon as a whole: the processes of Lifecycle with the connections  *)
(* of Serve in their threads (src/src/lib.rs, accept_until_shutdown).      *)
(*                                                                         *)
(* Connection <<p, t>> is served by thread t of process p.  A connection   *)
(* begins when the accept loop hands its stream to a thread, the thread    *)
(* learns from serve_connection's result whether to stop the daemon, and   *)
(* every thread ends with its process.  The databases and the catalog      *)
(* outlive all of them.                                                    *)
(***************************************************************************)
EXTENDS Serve

CONSTANTS
  Procs,      \* processes
  Threads,    \* bound: connections a process serves at once
  MaxBacklog  \* bound: connections waiting to be accepted

VARIABLES
  proc,  \* where each process is in main
  task, answer, lock, dir, sock, stopping, backlog, th, lost  \* as in Lifecycle

Life == INSTANCE Lifecycle WITH pc <- proc

life == <<proc, task, answer, lock, dir, sock, stopping, backlog, th, lost>>
dvars == <<vars, life>>

ASSUME DaemonAssumption ==
  /\ Conns = Procs \X Threads
  /\ None \notin Procs /\ "stale" \notin Procs /\ None # "stale"
  /\ MaxBacklog \in Nat \ {0}

DaemonInit == Init /\ Life!Init

(* Mutant of Accept: the stream is not handed to the thread.               *)
AcceptUnserved(p, t) == Life!Accept(p, t) /\ UNCHANGED vars

(* The accept loop starts a thread with the stream of a new connection.    *)
Accept(p, t) == Life!Accept(p, t) /\ Connect(<<p, t>>)

(* What the thread does with serve_connection's result.                    *)
EndsAs(ended) == IF ended = "ShutdownRequested" THEN "asked" ELSE "none"

(* Step A of connection <<p, t>>, and with its last one the return from    *)
(* serve_connection.                                                       *)
InThread(p, t, A) ==
  /\ th[p][t] = "serving" /\ A
  /\ IF pc'[<<p, t>>] \in Ended
       THEN /\ Life!ConnectionEnds(p, t)
            /\ th'[p][t] = EndsAs(pc'[<<p, t>>])
       ELSE UNCHANGED life

(* The threads of p end wherever they are, their clients are cut off and   *)
(* their open transactions are never committed.                            *)
EndThreads(p) ==
  LET Of(f, end) == [c \in Conns |-> IF c[1] = p THEN end ELSE f[c]] IN
  /\ pc' = Of(pc, "idle") /\ client' = Of(client, "gone") /\ out' = Of(out, None)
  /\ slot' = Of(slot, NewSlot) /\ txn' = Of(txn, None)
  /\ outstanding' = Of(outstanding, {}) /\ req' = Of(req, None)
  /\ loaded' = Of(loaded, None) /\ opened' = Of(opened, {}) /\ seen' = Of(seen, {})
  /\ UNCHANGED shared

Exit(p) == Life!Exit(p) /\ EndThreads(p)
Crash(p) == Life!Crash(p) /\ EndThreads(p)

(* What main does once the daemon listens.                                 *)
Main(p) ==
  \/ \E t \in Threads : Accept(p, t)
  \/ (Life!LeaveLoop(p) \/ Life!DropListener(p) \/ Life!DropGuard(p)) /\ UNCHANGED vars
  \/ Exit(p)

(* What thread t does once serve_connection asked for shutdown.            *)
Asked(p, t) == (Life!StoreFlag(p, t) \/ Life!Wake(p, t)) /\ UNCHANGED vars

Elsewhere(p) ==
  \/ \E command \in {"run", "status"} : Life!Start(p, command)
  \/ Life!Starting(p) \/ Life!StartFails(p) \/ Life!ClientConnect(p) \/ Life!AcceptFails(p)

DaemonNext ==
  \/ \E p \in Procs :
       \/ Elsewhere(p) /\ UNCHANGED vars
       \/ Main(p) \/ Crash(p)
       \/ \E t \in Threads : InThread(p, t, Step(<<p, t>>)) \/ Asked(p, t)
  \/ CatalogChange /\ UNCHANGED life

DaemonSpec == DaemonInit /\ [][DaemonNext]_dvars

(* A step of thread t that waits for no client: a write to a client that   *)
(* has gone fails rather than blocks.                                      *)
Unblocked(c) == Work(c) \/ (Send(c) /\ client[c] = "gone")

(* Fairness.  The main thread of a process and the threads of its          *)
(* connections keep running while they wait for no client, and a client    *)
(* that has stopped sending left finitely many frames behind, so the reads *)
(* of its connection reach the end of the stream (EndIsReached of Frame).  *)
(* Nothing is assumed of commands, clients, failures and crashes.          *)
DaemonFairness ==
  \A p \in Procs :
    /\ WF_dvars(Main(p))
    /\ \A t \in Threads :
         /\ WF_dvars(InThread(p, t, Unblocked(<<p, t>>)) \/ Asked(p, t))
         /\ SF_dvars(InThread(p, t, ReadClosed(<<p, t>>)))

DaemonLiveSpec == DaemonSpec /\ DaemonFairness
-----------------------------------------------------------------------------
(* Properties. *)

(* The types, and that a thread is in serve_connection exactly while its   *)
(* process counts it as serving, so that nothing is left of the sessions   *)
(* and transactions of a process that is off.                              *)
DaemonTypeOK ==
  /\ TypeOK /\ Life!TypeOK
  /\ \A p \in Procs : \A t \in Threads :
       /\ th[p][t] = "serving" <=> pc[<<p, t>>] \notin {"idle"} \union Ended
       /\ proc[p] = "off" => slot[<<p, t>>].session = None /\ txn[<<p, t>>] = None

(* A shutdown that was served stops the daemon, whether or not its client  *)
(* stays to read the reply, whatever the other connections are in the      *)
(* middle of and although nobody need ever connect again (serve.rs:174,    *)
(* lib.rs:137), unless the thread's own connection to the address fails,   *)
(* which lib.rs:142 ignores.                                               *)
ShutdownHonoured ==
  \A p \in Procs :
    (\E t \in Threads :
       LET c == <<p, t>> IN
       \/ pc[c] = "ShutdownRequested"
       \/ pc[c] = "reply" /\ out[c].then = "ShutdownRequested" /\ client[c] = "gone")
    ~> proc[p] = "off" \/ p \in lost
=============================================================================
