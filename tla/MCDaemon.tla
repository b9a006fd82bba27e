------------------------------ MODULE MCDaemon ------------------------------
(***************************************************************************)
(* Instances of Daemon for TLC.                                            *)
(***************************************************************************)
EXTENDS Daemon, MCServe

MCConns == Procs \X Threads

(* A transaction on one connection, shutdown on another.                   *)
Several == {HelloBody, Open(A), Do("begin"), Do("shutdown")}
=============================================================================
