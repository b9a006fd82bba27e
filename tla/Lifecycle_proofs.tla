-------------------------- MODULE Lifecycle_proofs --------------------------
(***************************************************************************)
(* Proofs about Lifecycle, for any set of processes and threads.           *)
(*                                                                         *)
(* SocketOwned, AddressFree and EndpointRestricted are not inductive: each *)
(* rests on the lock.  The invariant they follow from adds that exactly    *)
(* the process between acquire and the drop of its guard holds the lock,   *)
(* and that the directory is narrow from the moment a process has          *)
(* restricted it.                                                          *)
(***************************************************************************)
EXTENDS Lifecycle, TLAPS

(* The lock belongs to the process that has the guard in scope.            *)
LockHeld == \A p \in Procs : pc[p] \in Holding <=> lock = p

(* From the restriction in bind on, the run directory is narrow.           *)
DirNarrow == \A p \in Procs : pc[p] \in {"unlink", "listen", "chmod", "accept", "drop"}
                                => dir = "narrow"

Inv == TypeOK /\ LockHeld /\ SocketOwned /\ AddressFree /\ DirNarrow

(* Every initial state satisfies the invariant: no process runs, and a     *)
(* file at the address has no listener.                                    *)
LEMMA InitInv == Init => Inv
BY LifecycleAssumption
   DEF Init, Inv, TypeOK, LockHeld, SocketOwned, AddressFree, DirNarrow, Holding,
       Listening, NoThreads

(* Every step, and every stutter, of the types.                            *)
LEMMA NextType == TypeOK /\ [Next]_vars => TypeOK'
<1> SUFFICES ASSUME TypeOK, [Next]_vars PROVE TypeOK'
  OBVIOUS
<1> USE LifecycleAssumption DEF TypeOK, Goto, files, serving, Holding
<1>1. CASE UNCHANGED vars
  BY <1>1 DEF vars
<1>2. ASSUME NEW p \in Procs, NEW command \in {"run", "status"}, Start(p, command)
      PROVE  TypeOK'
  BY <1>2 DEF Start
<1>3. ASSUME NEW p \in Procs, MakeDir(p) PROVE TypeOK'
  BY <1>3 DEF MakeDir, create_dir_all
<1>4. ASSUME NEW p \in Procs, Restrict(p) PROVE TypeOK'
  BY <1>4 DEF Restrict, restrict_to_current_user
<1>5. ASSUME NEW p \in Procs, Acquired(p) PROVE TypeOK'
  BY <1>5 DEF Acquired
<1>6. ASSUME NEW p \in Procs, AlreadyHeld(p) PROVE TypeOK'
  BY <1>6 DEF AlreadyHeld
<1>7. ASSUME NEW p \in Procs, NotRunning(p) PROVE TypeOK'
  BY <1>7 DEF NotRunning
<1>8. ASSUME NEW p \in Procs, BindDir(p) PROVE TypeOK'
  BY <1>8 DEF BindDir, create_dir_all, restrict_to_current_user
<1>9. ASSUME NEW p \in Procs, Unlink(p) PROVE TypeOK'
  BY <1>9 DEF Unlink
<1>10. ASSUME NEW p \in Procs, Listen(p) PROVE TypeOK'
  BY <1>10 DEF Listen
<1>11. ASSUME NEW p \in Procs, Chmod(p) PROVE TypeOK'
  BY <1>11 DEF Chmod
<1>12. ASSUME NEW p \in Procs, StartFails(p) PROVE TypeOK'
  BY <1>12 DEF StartFails, Orphan
<1>13. ASSUME NEW p \in Procs, ClientConnect(p) PROVE TypeOK'
  BY <1>13 DEF ClientConnect, Connects
<1>14. ASSUME NEW p \in Procs, NEW t \in Threads, Accept(p, t) PROVE TypeOK'
  BY <1>14 DEF Accept
<1>15. ASSUME NEW p \in Procs, LeaveLoop(p) PROVE TypeOK'
  BY <1>15 DEF LeaveLoop
<1>16. ASSUME NEW p \in Procs, AcceptFails(p) PROVE TypeOK'
  BY <1>16 DEF AcceptFails
<1>17. ASSUME NEW p \in Procs, NEW t \in Threads, ConnectionEnds(p, t) PROVE TypeOK'
  BY <1>17 DEF ConnectionEnds
<1>18. ASSUME NEW p \in Procs, NEW t \in Threads, StoreFlag(p, t) PROVE TypeOK'
  BY <1>18 DEF StoreFlag
<1>19. ASSUME NEW p \in Procs, NEW t \in Threads, Wake(p, t) PROVE TypeOK'
  <2>1. backlog' \in [Procs -> 0..MaxBacklog] /\ lost' \subseteq Procs
    BY <1>19 DEF Wake, Connects
  <2>2. QED
    BY <1>19, <2>1 DEF Wake
<1>20. ASSUME NEW p \in Procs, DropListener(p) PROVE TypeOK'
  BY <1>20 DEF DropListener, Orphan
<1>21. ASSUME NEW p \in Procs, DropGuard(p) PROVE TypeOK'
  BY <1>21 DEF DropGuard
<1>22. ASSUME NEW p \in Procs, Exit(p) PROVE TypeOK'
  BY <1>22 DEF Exit, NoThreads
<1>23. ASSUME NEW p \in Procs, Crash(p) PROVE TypeOK'
  BY <1>23 DEF Crash, Orphan, NoThreads
<1>24. QED
  BY <1>1, <1>2, <1>3, <1>4, <1>5, <1>6, <1>7, <1>8, <1>9, <1>10, <1>11, <1>12, <1>13,
     <1>14, <1>15, <1>16, <1>17, <1>18, <1>19, <1>20, <1>21, <1>22, <1>23
     DEF Next, Starting, Stopping

(* Every step, and every stutter, of what the lock protects.  Two          *)
(* processes are never both past acquire, so whatever one does to the      *)
(* address, no other was relying on it.                                    *)
LEMMA NextOwned ==
  Inv /\ TypeOK' /\ [Next]_vars => (LockHeld /\ SocketOwned /\ AddressFree /\ DirNarrow)'
<1> DEFINE Owned == LockHeld /\ SocketOwned /\ AddressFree /\ DirNarrow
<1> SUFFICES ASSUME Inv, TypeOK', [Next]_vars PROVE Owned'
  OBVIOUS
<1> USE LifecycleAssumption
        DEF Inv, TypeOK, LockHeld, SocketOwned, AddressFree, DirNarrow, Goto, files,
            Holding, Listening
<1>1. CASE UNCHANGED vars
  BY <1>1 DEF vars
<1>2. ASSUME NEW p \in Procs, NEW command \in {"run", "status"}, Start(p, command)
      PROVE  Owned'
  BY <1>2 DEF Start
<1>3. ASSUME NEW p \in Procs, MakeDir(p) PROVE Owned'
  BY <1>3 DEF MakeDir, create_dir_all
<1>4. ASSUME NEW p \in Procs, Restrict(p) PROVE Owned'
  BY <1>4 DEF Restrict, restrict_to_current_user
<1>5. ASSUME NEW p \in Procs, Acquired(p) PROVE Owned'
  BY <1>5 DEF Acquired
<1>6. ASSUME NEW p \in Procs, AlreadyHeld(p) PROVE Owned'
  BY <1>6 DEF AlreadyHeld
<1>7. ASSUME NEW p \in Procs, NotRunning(p) PROVE Owned'
  BY <1>7 DEF NotRunning
<1>8. ASSUME NEW p \in Procs, BindDir(p) PROVE Owned'
  BY <1>8 DEF BindDir, create_dir_all, restrict_to_current_user
<1>9. ASSUME NEW p \in Procs, Unlink(p) PROVE Owned'
  BY <1>9 DEF Unlink
<1>10. ASSUME NEW p \in Procs, Listen(p) PROVE Owned'
  BY <1>10 DEF Listen
<1>11. ASSUME NEW p \in Procs, Chmod(p) PROVE Owned'
  BY <1>11 DEF Chmod
<1>12. ASSUME NEW p \in Procs, StartFails(p) PROVE Owned'
  BY <1>12 DEF StartFails, Orphan
<1>13. ASSUME NEW p \in Procs, ClientConnect(p) PROVE Owned'
  BY <1>13 DEF ClientConnect
<1>14. ASSUME NEW p \in Procs, NEW t \in Threads, Accept(p, t) PROVE Owned'
  BY <1>14 DEF Accept
<1>15. ASSUME NEW p \in Procs, LeaveLoop(p) PROVE Owned'
  BY <1>15 DEF LeaveLoop
<1>16. ASSUME NEW p \in Procs, AcceptFails(p) PROVE Owned'
  BY <1>16 DEF AcceptFails
<1>17. ASSUME NEW p \in Procs, NEW t \in Threads, ConnectionEnds(p, t) PROVE Owned'
  BY <1>17 DEF ConnectionEnds
<1>18. ASSUME NEW p \in Procs, NEW t \in Threads, StoreFlag(p, t) PROVE Owned'
  BY <1>18 DEF StoreFlag
<1>19. ASSUME NEW p \in Procs, NEW t \in Threads, Wake(p, t) PROVE Owned'
  BY <1>19 DEF Wake
<1>20. ASSUME NEW p \in Procs, DropListener(p) PROVE Owned'
  BY <1>20 DEF DropListener, Orphan
<1>21. ASSUME NEW p \in Procs, DropGuard(p) PROVE Owned'
  BY <1>21 DEF DropGuard
<1>22. ASSUME NEW p \in Procs, Exit(p) PROVE Owned'
  BY <1>22 DEF Exit
<1>23. ASSUME NEW p \in Procs, Crash(p) PROVE Owned'
  BY <1>23 DEF Crash, Orphan
<1>24. QED
  BY <1>1, <1>2, <1>3, <1>4, <1>5, <1>6, <1>7, <1>8, <1>9, <1>10, <1>11, <1>12, <1>13,
     <1>14, <1>15, <1>16, <1>17, <1>18, <1>19, <1>20, <1>21, <1>22, <1>23
     DEF Next, Starting, Stopping

(* The invariant holds in every behaviour.                                 *)
THEOREM InvHolds == Spec => []Inv
<1>1. Inv /\ [Next]_vars => Inv'
  BY NextType, NextOwned DEF Inv
<1>2. QED
  BY InitInv, <1>1, PTL DEF Spec

(* Types, for any number of processes and threads: of the lock, the        *)
(* directory, the address, the flag and the threads.                       *)
THEOREM TypeCorrect == Spec => []TypeOK
<1>1. Inv => TypeOK
  BY DEF Inv
<1>2. QED
  BY InvHolds, <1>1, PTL

(* However many processes start, stop and crash, the address leads to the  *)
(* process that bound it: the order of lock and bind in lib.rs:73, and of  *)
(* the drops in main.rs:41, is enough.                                     *)
THEOREM SocketOwnership == Spec => []SocketOwned
<1>1. Inv => SocketOwned
  BY DEF Inv
<1>2. QED
  BY InvHolds, <1>1, PTL

(* A process that has removed what it found at the address can bind there, *)
(* whoever left it: endpoint.rs:115 never meets a file.                    *)
THEOREM AddressStaysFree == Spec => []AddressFree
<1>1. Inv => AddressFree
  BY DEF Inv
<1>2. QED
  BY InvHolds, <1>1, PTL

(* Nothing listens below a directory other users can write (lock.rs:93).   *)
THEOREM EndpointStaysRestricted == Spec => []EndpointRestricted
<1>1. Inv => EndpointRestricted
  BY DEF Inv, SocketOwned, DirNarrow, EndpointRestricted, Listening
<1>2. QED
  BY InvHolds, <1>1, PTL

(* A connection has a thread only in a process that has come to its accept *)
(* loop, since the threads of an earlier run ended with it.                *)
Unthreaded ==
  \A p \in Procs : pc[p] \notin {"accept", "drop", "release", "exit"} => th[p] = NoThreads

(* Every step, and every stutter, leaves processes that are not serving    *)
(* without threads.                                                        *)
LEMMA NextUnthreaded == TypeOK /\ Unthreaded /\ [Next]_vars => Unthreaded'
<1> SUFFICES ASSUME TypeOK, Unthreaded, [Next]_vars PROVE Unthreaded'
  OBVIOUS
<1> USE DEF TypeOK, Unthreaded, Goto, files, serving, Holding
<1>1. CASE UNCHANGED vars
  BY <1>1 DEF vars
<1>2. ASSUME NEW p \in Procs, NEW command \in {"run", "status"}, Start(p, command)
      PROVE  Unthreaded'
  BY <1>2 DEF Start
<1>3. ASSUME NEW p \in Procs, Starting(p) PROVE Unthreaded'
  BY <1>3 DEF Starting, MakeDir, Restrict, Acquired, AlreadyHeld, NotRunning, BindDir,
              Unlink, Listen, Chmod
<1>4. ASSUME NEW p \in Procs, StartFails(p) \/ ClientConnect(p) \/ AcceptFails(p)
      PROVE  Unthreaded'
  BY <1>4 DEF StartFails, ClientConnect, AcceptFails
<1>5. ASSUME NEW p \in Procs, Stopping(p) \/ Crash(p) PROVE Unthreaded'
  BY <1>5 DEF Stopping, LeaveLoop, DropListener, DropGuard, Exit, Crash
<1>6. ASSUME NEW p \in Procs, NEW t \in Threads, Accept(p, t) PROVE Unthreaded'
  BY <1>6 DEF Accept
<1>7. ASSUME NEW p \in Procs, NEW t \in Threads,
             ConnectionEnds(p, t) \/ StoreFlag(p, t) \/ Wake(p, t)
      PROVE  Unthreaded'
  <2>1. th[p] # NoThreads
    BY <1>7 DEF ConnectionEnds, StoreFlag, Wake, NoThreads
  <2>2. QED
    BY <1>7, <2>1 DEF ConnectionEnds, StoreFlag, Wake
<1>8. QED
  BY <1>1, <1>2, <1>3, <1>4, <1>5, <1>6, <1>7 DEF Next

(* No thread of an earlier run is left in a process that starts (lib.rs:   *)
(* 134): the threads of accept_until_shutdown end with their process.      *)
THEOREM ThreadsAreOfThisRun == Spec => []Unthreaded
<1>1. Init => Unthreaded
  BY DEF Init, Unthreaded
<1>2. QED
  BY <1>1, TypeCorrect, NextUnthreaded, PTL DEF Spec

(* The flag is set only in a process that has come to its accept loop.     *)
StopsServing ==
  \A p \in Procs : stopping[p] => pc[p] \in {"accept", "drop", "release", "exit"}

(* What WakeUpComes follows from: that a wake-up reaches the process it is *)
(* meant for is SocketOwned of Inv.                                        *)
WakeInv == Inv /\ Unthreaded /\ StopsServing /\ WakeUpComes

(* Every step, and every stutter, leaves the flag unset in processes that  *)
(* are not serving.                                                        *)
LEMMA NextStops == TypeOK /\ Unthreaded /\ StopsServing /\ [Next]_vars => StopsServing'
<1> SUFFICES ASSUME TypeOK, Unthreaded, StopsServing, [Next]_vars PROVE StopsServing'
  OBVIOUS
<1> USE DEF TypeOK, StopsServing, Goto, files, serving, Holding
<1>1. CASE UNCHANGED vars
  BY <1>1 DEF vars
<1>2. ASSUME NEW p \in Procs, NEW command \in {"run", "status"}, Start(p, command)
      PROVE  StopsServing'
  BY <1>2 DEF Start
<1>3. ASSUME NEW p \in Procs, Starting(p) PROVE StopsServing'
  BY <1>3 DEF Starting, MakeDir, Restrict, Acquired, AlreadyHeld, NotRunning, BindDir,
              Unlink, Listen, Chmod
<1>4. ASSUME NEW p \in Procs, StartFails(p) \/ ClientConnect(p) \/ AcceptFails(p)
      PROVE  StopsServing'
  BY <1>4 DEF StartFails, ClientConnect, AcceptFails
<1>5. ASSUME NEW p \in Procs, Stopping(p) \/ Crash(p) PROVE StopsServing'
  BY <1>5 DEF Stopping, LeaveLoop, DropListener, DropGuard, Exit, Crash
<1>6. ASSUME NEW p \in Procs, NEW t \in Threads,
             Accept(p, t) \/ ConnectionEnds(p, t) \/ Wake(p, t)
      PROVE  StopsServing'
  BY <1>6 DEF Accept, ConnectionEnds, Wake
<1>7. ASSUME NEW p \in Procs, NEW t \in Threads, StoreFlag(p, t) PROVE StopsServing'
  <2>1. th[p] # NoThreads
    BY <1>7 DEF StoreFlag, NoThreads
  <2>2. QED
    BY <1>7, <2>1 DEF StoreFlag, Unthreaded
<1>8. QED
  BY <1>1, <1>2, <1>3, <1>4, <1>5, <1>6, <1>7 DEF Next

(* Every step, and every stutter, keeps a wake-up on its way: the flag and *)
(* the thread that will connect appear together, the connection reaches    *)
(* the process whose flag is set because that process owns the address,    *)
(* and with the flag set a connection is taken only by leaving the loop.   *)
LEMMA NextWakes == WakeInv /\ [Next]_vars => WakeUpComes'
<1> SUFFICES ASSUME WakeInv, [Next]_vars, NEW q \in Procs, stopping'[q], pc'[q] = "accept"
             PROVE  \/ backlog'[q] > 0 \/ q \in lost'
                    \/ \E u \in Threads : th'[q][u] = "stored"
  BY DEF WakeUpComes
<1> DEFINE Waits == stopping[q] /\ pc[q] = "accept"
           Comes == backlog[q] > 0 \/ q \in lost \/ \E u \in Threads : th[q][u] = "stored"
           Goal == backlog'[q] > 0 \/ q \in lost' \/ \E u \in Threads : th'[q][u] = "stored"
<1>0. TypeOK /\ (Waits => Comes)
  BY DEF WakeInv, Inv, WakeUpComes
<1> USE DEF TypeOK, Goto, files, serving, Holding
<1>1. CASE UNCHANGED vars
  BY <1>0, <1>1 DEF vars
<1>2. ASSUME NEW p \in Procs, NEW command \in {"run", "status"}, Start(p, command)
      PROVE  Goal
  BY <1>0, <1>2 DEF Start
<1>3. ASSUME NEW p \in Procs, Starting(p) PROVE Goal
  BY <1>0, <1>3 DEF Starting, MakeDir, Restrict, Acquired, AlreadyHeld, NotRunning,
                    BindDir, Unlink, Listen, Chmod, WakeInv, StopsServing
<1>4. ASSUME NEW p \in Procs, StartFails(p) \/ ClientConnect(p) \/ AcceptFails(p)
      PROVE  Goal
  BY <1>0, <1>4 DEF StartFails, ClientConnect, Connects, AcceptFails
<1>5. ASSUME NEW p \in Procs, Stopping(p) \/ Crash(p) PROVE Goal
  BY <1>0, <1>5 DEF Stopping, LeaveLoop, DropListener, DropGuard, Exit, Crash
<1>6. ASSUME NEW p \in Procs, NEW t \in Threads, Accept(p, t) PROVE Goal
  BY <1>0, <1>6 DEF Accept
<1>7. ASSUME NEW p \in Procs, NEW t \in Threads, ConnectionEnds(p, t) \/ StoreFlag(p, t)
      PROVE  Goal
  <2>1. CASE ConnectionEnds(p, t)
    <3>1. ASSUME NEW u \in Threads, th[q][u] = "stored" PROVE th'[q][u] = "stored"
      BY <1>0, <2>1, <3>1 DEF ConnectionEnds
    <3>2. UNCHANGED <<stopping, pc, backlog, lost>>
      BY <2>1 DEF ConnectionEnds
    <3>3. QED
      BY <1>0, <3>1, <3>2
  <2>2. CASE StoreFlag(p, t) /\ p = q
    <3>1. th'[q][t] = "stored"
      BY <1>0, <2>2 DEF StoreFlag
    <3>2. QED
      BY <3>1
  <2>3. CASE StoreFlag(p, t) /\ p # q
    BY <1>0, <2>3 DEF StoreFlag
  <2>4. QED
    BY <1>7, <2>1, <2>2, <2>3
<1>8. ASSUME NEW p \in Procs, NEW t \in Threads, Wake(p, t) PROVE Goal
  <2>1. sock = q
    BY <1>8 DEF Wake, WakeInv, Inv, SocketOwned, Listening
  <2>2. QED
    <3>1. CASE \E r \in Procs : sock = r /\ Connects(r)
      BY <1>0, <2>1, <3>1 DEF Connects
    <3>2. CASE UNCHANGED backlog /\ lost' = lost \union {p}
      <4>1. CASE p = q
        BY <3>2, <4>1
      <4>2. CASE p # q
        BY <1>0, <1>8, <3>2, <4>2 DEF Wake
      <4>3. QED
        BY <4>1, <4>2
    <3>3. QED
      BY <1>8, <3>1, <3>2 DEF Wake
<1>9. QED
  BY <1>1, <1>2, <1>3, <1>4, <1>5, <1>6, <1>7, <1>8 DEF Next

(* The wake-up of lib.rs:142 is never lost but by an error of the connect  *)
(* itself, for any number of processes, threads and waiting connections:   *)
(* the safety half of ShutdownStops.                                       *)
THEOREM WakeUpIsOnItsWay == Spec => []WakeUpComes
<1>1. Init => StopsServing /\ WakeUpComes
  BY DEF Init, StopsServing, WakeUpComes
<1>2. ASSUME Inv, Unthreaded, StopsServing, WakeUpComes, [Next]_vars
      PROVE  StopsServing' /\ WakeUpComes'
  BY <1>2, NextStops, NextWakes DEF WakeInv, Inv
<1>3. QED
  BY <1>1, <1>2, InvHolds, ThreadsAreOfThisRun, PTL DEF Spec
=============================================================================
