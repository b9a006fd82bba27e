---------------------------- MODULE DaemonClaims ----------------------------
(***************************************************************************)
(* What README.md and main.rs say of the one daemon per user, and the code *)
(* does not guarantee.  A run of its own finds the interleaving.           *)
(***************************************************************************)
EXTENDS MCDaemon

OneWriter == {HelloBody, Open(A), Run(Write)}

(* README.md:17: "the OS lock that enforces at most one instance per OS    *)
(* user"; main.rs:54: the guard "outlives this loop and the one-instance   *)
(* rule holds for as long as the daemon runs".  Then a process does not    *)
(* commit to a database while another one serves the address.              *)
CommitsAlone ==
  [][\A p \in Procs : \A t \in Threads :
       (txn[<<p, t>>] # None /\ txn'[<<p, t>>] = None /\ log' # log) =>
         sock \notin Procs \ {p}]_dvars
=============================================================================
