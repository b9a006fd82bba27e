-------------------------- MODULE LifecycleClaims --------------------------
(***************************************************************************)
(* What the comments of lib.rs say of a daemon that runs, and the code     *)
(* does not guarantee.  A run of its own finds the interleaving.           *)
(***************************************************************************)
EXTENDS Lifecycle

Reports(p, answers) == answer'[p] # answer[p] /\ answer'[p] \in answers

(* lib.rs:48: AlreadyRunning means "A healthy daemon was already running", *)
(* and lib.rs:149: is_running tells "Whether a daemon is currently running *)
(* for this user".  Then the lock's holder is a process that was started   *)
(* to be the daemon.                                                       *)
RunningMeansDaemon ==
  [][\A p \in Procs : Reports(p, {"AlreadyRunning", "running"}) =>
       \E q \in Procs : lock = q /\ task[q] = "run"]_vars
=============================================================================
