---------------------------- MODULE Daemon_proofs ----------------------------
(***************************************************************************)
(* Proofs about Daemon: the composition is a Lifecycle, and what Serve     *)
(* promises holds of its connections although processes stop and crash     *)
(* under them.                                                             *)
(*                                                                         *)
(* A process that ends is no step of Serve: every thread it has vanishes   *)
(* at once, wherever it is.  The invariants of Serve survive it because    *)
(* none of them rests on what a connection does next: the writes of the    *)
(* transactions that vanish are durable nowhere, and stay so.              *)
(***************************************************************************)
EXTENDS Daemon, ServeTruth_proofs

LifeProofs == INSTANCE Lifecycle_proofs WITH pc <- proc

(* The constants of the daemon are as Lifecycle wants them.                *)
LEMMA LifeConstants == LifeProofs!LifecycleAssumption
BY DaemonAssumption DEF LifeProofs!LifecycleAssumption

(* Nothing is lost of the life of a process by what its threads do.        *)
LEMMA LifeStep == [DaemonNext]_dvars => [Life!Next]_(Life!vars)
<1> SUFFICES ASSUME [DaemonNext]_dvars PROVE Life!Next \/ UNCHANGED life
  BY DEF life, Life!vars, Life!files, Life!serving
<1>1. CASE UNCHANGED dvars
  BY <1>1 DEF dvars
<1>2. ASSUME NEW p \in Procs, Elsewhere(p) PROVE Life!Next
  BY <1>2 DEF Elsewhere, Life!Next
<1>3. ASSUME NEW p \in Procs, Main(p) \/ Crash(p) PROVE Life!Next
  BY <1>3 DEF Main, Accept, Exit, Crash, Life!Next, Life!Stopping
<1>4. ASSUME NEW p \in Procs, NEW t \in Threads, InThread(p, t, Step(<<p, t>>)) \/ Asked(p, t)
      PROVE  Life!Next \/ UNCHANGED life
  BY <1>4 DEF InThread, Asked, Life!Next
<1>5. QED
  BY <1>1, <1>2, <1>3, <1>4 DEF DaemonNext

(* The daemon is a Lifecycle: lib.rs and main.rs go on as they would with  *)
(* connections that end when they like.                                    *)
THEOREM DaemonIsLifecycle == DaemonSpec => Life!Spec
<1>1. DaemonInit => Life!Init
  BY DEF DaemonInit
<1>2. QED
  BY <1>1, LifeStep, PTL DEF DaemonSpec, Life!Spec

(* Lifecycle with its proofs is the same specification.                    *)
LEMMA LifeSpec == Life!Spec <=> LifeProofs!Spec
BY Zenon
   DEF Life!Start, LifeProofs!Start, Life!MakeDir, LifeProofs!MakeDir, Life!Restrict,
       LifeProofs!Restrict, Life!Acquired, LifeProofs!Acquired, Life!AlreadyHeld,
       LifeProofs!AlreadyHeld, Life!NotRunning, LifeProofs!NotRunning, Life!BindDir,
       LifeProofs!BindDir, Life!Unlink, LifeProofs!Unlink, Life!Listen,
       LifeProofs!Listen, Life!Chmod, LifeProofs!Chmod, Life!StartFails,
       LifeProofs!StartFails, Life!ClientConnect, LifeProofs!ClientConnect, Life!Accept,
       LifeProofs!Accept, Life!LeaveLoop, LifeProofs!LeaveLoop, Life!AcceptFails,
       LifeProofs!AcceptFails, Life!ConnectionEnds, LifeProofs!ConnectionEnds,
       Life!StoreFlag, LifeProofs!StoreFlag, Life!Wake, LifeProofs!Wake,
       Life!DropListener, LifeProofs!DropListener, Life!DropGuard, LifeProofs!DropGuard,
       Life!Exit, LifeProofs!Exit, Life!Crash, LifeProofs!Crash, Life!Starting,
       LifeProofs!Starting, Life!Stopping, LifeProofs!Stopping, Life!Next,
       LifeProofs!Next, Life!Goto, LifeProofs!Goto, Life!create_dir_all,
       LifeProofs!create_dir_all, Life!restrict_to_current_user,
       LifeProofs!restrict_to_current_user, Life!Orphan, LifeProofs!Orphan,
       Life!Connects, LifeProofs!Connects, Life!files, LifeProofs!files, Life!serving,
       LifeProofs!serving, Life!vars, LifeProofs!vars, Life!Holding, LifeProofs!Holding,
       Life!Listening, LifeProofs!Listening, Life!NoThreads, LifeProofs!NoThreads,
       Life!Init, LifeProofs!Init, Life!Spec, LifeProofs!Spec

(* So the daemon has what Lifecycle_proofs shows of every Lifecycle.       *)
LEMMA LifeHolds ==
  DaemonSpec => [](LifeProofs!Inv /\ LifeProofs!Unthreaded)
<1>1. LifeProofs!Spec => []LifeProofs!Inv
  BY LifeConstants, LifeProofs!InvHolds
<1>2. LifeProofs!Spec => []LifeProofs!Unthreaded
  BY LifeConstants, LifeProofs!ThreadsAreOfThisRun
<1>3. QED
  BY LifeSpec, <1>1, <1>2, DaemonIsLifecycle, PTL

(* What LifeHolds says, in the terms of Daemon.                            *)
LEMMA LifeMeans ==
  ASSUME LifeProofs!Inv, LifeProofs!Unthreaded
  PROVE  /\ Life!TypeOK /\ Life!SocketOwned /\ Life!AddressFree /\ Life!EndpointRestricted
         /\ \A p \in Procs : proc[p] = "off" => \A t \in Threads : th[p][t] = "none"
<1>1. Life!TypeOK
  BY DEF LifeProofs!Inv, LifeProofs!TypeOK, LifeProofs!Holding, Life!TypeOK, Life!Holding
<1>2. Life!SocketOwned /\ Life!AddressFree
  BY DEF LifeProofs!Inv, LifeProofs!SocketOwned, LifeProofs!AddressFree,
         LifeProofs!Listening, Life!SocketOwned, Life!AddressFree, Life!Listening
<1>3. Life!EndpointRestricted
  BY <1>2 DEF Life!SocketOwned, Life!Listening, LifeProofs!Inv, LifeProofs!DirNarrow,
              Life!EndpointRestricted
<1>4. \A p \in Procs : proc[p] = "off" => \A t \in Threads : th[p][t] = "none"
  BY DEF LifeProofs!Unthreaded, LifeProofs!NoThreads
<1>5. QED
  BY <1>1, <1>2, <1>3, <1>4
-----------------------------------------------------------------------------
(* The connections. *)

(* What is left of the connections of a process that ends.                 *)
LEMMA Ends ==
  ASSUME TypeOK, NEW p \in Procs, EndThreads(p)
  PROVE  /\ UNCHANGED shared
         /\ \A c \in Conns : c[1] = p =>
              /\ pc'[c] = "idle" /\ out'[c] = None /\ slot'[c] = NewSlot /\ txn'[c] = None
              /\ req'[c] = None /\ loaded'[c] = None /\ opened'[c] = {} /\ seen'[c] = {}
         /\ \A c \in Conns : c[1] # p =>
              /\ pc'[c] = pc[c] /\ out'[c] = out[c] /\ slot'[c] = slot[c]
              /\ txn'[c] = txn[c] /\ req'[c] = req[c] /\ loaded'[c] = loaded[c]
              /\ opened'[c] = opened[c] /\ seen'[c] = seen[c]
BY DEF EndThreads

(* The types are kept.                                                     *)
LEMMA EndsType ==
  ASSUME TypeOK, NEW p \in Procs, EndThreads(p)
  PROVE  TypeOK'
<1>1. NewSlot \in [session : SessionType \union {None}, next : Nat]
  BY DEF NewSlot
<1>2. QED
  BY <1>1 DEF TypeOK, EndThreads, shared, Points

(* What Serve promises survives the end of a process.                      *)
LEMMA EndsTruth ==
  ASSUME TruthInv, NEW p \in Procs, EndThreads(p)
  PROVE  TruthInv'
<1>0. TypeOK /\ Inv /\ Fresh /\ \A c \in Conns : Known(c) /\ Spoken(c) /\ Held(c)
  BY InvByConnection DEF TruthInv, KnownInv, Inv
<1> DEFINE Gone == {c \in Conns : c[1] = p}
<1>1. /\ UNCHANGED <<log, catalog, wrote>>
      /\ \A c \in Gone :
           /\ pc'[c] = "idle" /\ out'[c] = None /\ slot'[c] = NewSlot /\ txn'[c] = None
           /\ req'[c] = None /\ loaded'[c] = None /\ opened'[c] = {} /\ seen'[c] = {}
      /\ \A c \in Conns \ Gone :
           /\ pc'[c] = pc[c] /\ out'[c] = out[c] /\ slot'[c] = slot[c]
           /\ txn'[c] = txn[c] /\ req'[c] = req[c] /\ loaded'[c] = loaded[c]
           /\ opened'[c] = opened[c] /\ seen'[c] = seen[c]
  BY <1>0, Ends DEF shared
<1>2. Gone \subseteq Conns
  OBVIOUS
<1> HIDE DEF Gone
<1>3. \A c \in Conns : Held(c)'
  BY <1>0, <1>1 DEF Held
<1>4. Inv'
  BY <1>0, <1>3, EndsType DEF Inv, Held, Stages, RegionOwnsTransaction
<1>5. \A c \in Conns : Known(c)'
  BY <1>0, <1>1 DEF Known, NewSlot
<1>6. /\ \A c \in Gone : Live(c)' = {} /\ Dead(c)' = {}
      /\ \A c \in Conns \ Gone : Live(c)' = Live(c) /\ Dead(c)' = Dead(c)
  BY <1>1 DEF Live, Dead
<1>7. Durable' = Durable /\ wrote' = wrote
  BY <1>1 DEF Durable
<1>8. Fresh'
  BY <1>0, <1>2, <1>6, <1>7 DEF Fresh
<1>9. \A c \in Conns : Spoken(c)'
  BY <1>0, <1>1, <1>6 DEF Spoken
<1>10. QED
  BY <1>4, <1>5, <1>8, <1>9 DEF TruthInv, KnownInv

(* Where a step of a connection that is served takes its thread, and what  *)
(* is left of the session when serve_connection returns.                   *)
LEMMA StepGoes ==
  ASSUME Inv, NEW c \in Conns, Step(c)
  PROVE  pc'[c] # "idle" /\ (pc'[c] \in Ended => slot'[c].session = None)
<1>0. TypeOK
  BY DEF Inv
<1>1. CASE Finish(c) \/ Leave(c)
  BY <1>0, <1>1 DEF Finish, Leave
<1>2. ASSUME NEW ended \in Ended, Return(c, ended)
      PROVE  pc'[c] # "idle" /\ slot'[c].session = None
  BY <1>0, <1>2 DEF Return, NewSlot, Ended, TypeOK
<1>3. CASE ReadClosed(c) \/ ReadFailed(c)
  BY <1>2, <1>3 DEF ReadClosed, ReadFailed, Ended
<1>4. CASE ReadTooLarge(c) \/ Work(c)
  BY <1>0, <1>4 DEF ReadTooLarge, Work, LoadCatalog, SlotOpen, AutoCommit, Dispatched,
                    Answer, Ended, TypeOK
<1>5. ASSUME NEW body \in Bodies, Receive(c, body) PROVE pc'[c] \in {"reply", "opening", "auto"}
  BY <1>0, <1>5 DEF Receive, Hello, Refuse, OpenSession, CloseSession, Status, Shutdown,
       StrayFinish, WrongSession, Query, Begin, RegionCommit, RegionRollback, RegionQuery,
       RegionOther, Answer, Working, TypeOK
<1>6. CASE Send(c)
  <2>1. out[c] \in OutType
    BY <1>6 DEF Send, Inv, TypeOK, Stages
  <2>2. AfterSend(c) \in {"loop", "region"} \union Ended
    BY <2>1 DEF AfterSend, OutType, Ended
  <2>3. CASE AfterSend(c) \in Ended
    BY <2>3, <1>2, <1>6 DEF Send
  <2>4. CASE AfterSend(c) \notin Ended
    BY <2>2, <2>4, <1>0, <1>6 DEF Send, TypeOK, Ended
  <2>5. QED
    BY <2>3, <2>4
<1>7. QED
  BY <1>1, <1>3, <1>4, <1>5, <1>6 DEF Step, Ended

(* What a step of the daemon is to its connections.                        *)
LEMMA ServeStep ==
  ASSUME [DaemonNext]_dvars PROVE [Next]_vars \/ \E p \in Procs : EndThreads(p)
<1>0. \A p \in Procs : \A t \in Threads : <<p, t>> \in Conns
  BY DaemonAssumption
<1>1. CASE UNCHANGED dvars
  BY <1>1 DEF dvars
<1>2. ASSUME NEW p \in Procs, NEW t \in Threads, Accept(p, t) \/ InThread(p, t, Step(<<p, t>>))
      PROVE  Next
  BY <1>0, <1>2 DEF Accept, InThread, Next
<1>3. QED
  BY <1>1, <1>2 DEF DaemonNext, Main, Asked, Exit, Crash, Next

(* Every step of the daemon keeps what Serve promises.                     *)
LEMMA DaemonTruth == ASSUME TruthInv, [DaemonNext]_dvars PROVE TruthInv'
BY ServeStep, NextTruth, EndsTruth

(* A thread is in serve_connection exactly while its process counts it as  *)
(* serving, and a connection that is not being served has no session.      *)
Tied(p, t) ==
  /\ th[p][t] = "serving" <=> pc[<<p, t>>] \notin {"idle"} \union Ended
  /\ pc[<<p, t>>] \in {"idle"} \union Ended => slot[<<p, t>>].session = None

DaemonInv == TruthInv /\ \A p \in Procs : \A t \in Threads : Tied(p, t)

(* A step that leaves a thread and its connection alone keeps them tied.   *)
LEMMA TiedKept ==
  ASSUME NEW p, NEW t, Tied(p, t), th'[p][t] = th[p][t],
         pc'[<<p, t>>] = pc[<<p, t>>], slot'[<<p, t>>] = slot[<<p, t>>]
  PROVE  Tied(p, t)'
BY DEF Tied

(* The initial states satisfy the invariant.                               *)
LEMMA InitDaemon == DaemonInit => DaemonInv
<1> SUFFICES ASSUME DaemonInit PROVE DaemonInv
  OBVIOUS
<1>1. TruthInv
  BY InitTruth DEF DaemonInit
<1>2. ASSUME NEW p \in Procs, NEW t \in Threads PROVE Tied(p, t)
  <2>1. <<p, t>> \in Conns
    BY DaemonAssumption
  <2>2. QED
    BY <2>1 DEF DaemonInit, Init, Life!Init, Life!NoThreads, Tied, NewSlot
<1>3. QED
  BY <1>1, <1>2 DEF DaemonInv

(* Steps of processes in which no connection takes part: the threads that  *)
(* serve go on serving.                                                    *)
LEMMA ElsewhereTied ==
  ASSUME Life!TypeOK, NEW q \in Procs,
         \/ Elsewhere(q) \/ Life!LeaveLoop(q) \/ Life!DropListener(q) \/ Life!DropGuard(q)
         \/ \E s \in Threads : Asked(q, s),
         NEW p \in Procs, NEW t \in Threads
  PROVE  th'[p][t] = "serving" <=> th[p][t] = "serving"
<1> USE DEF Life!TypeOK
<1>1. CASE Elsewhere(q)
  BY <1>1 DEF Elsewhere, Life!Start, Life!Starting, Life!MakeDir, Life!Restrict,
       Life!Acquired, Life!AlreadyHeld, Life!NotRunning, Life!BindDir, Life!Unlink,
       Life!Listen, Life!Chmod, Life!StartFails, Life!ClientConnect, Life!AcceptFails,
       Life!serving
<1>2. CASE Life!LeaveLoop(q) \/ Life!DropListener(q) \/ Life!DropGuard(q)
  BY <1>2 DEF Life!LeaveLoop, Life!DropListener, Life!DropGuard, Life!serving
<1>3. ASSUME NEW s \in Threads, Asked(q, s) PROVE th'[p][t] = "serving" <=> th[p][t] = "serving"
  BY <1>3 DEF Asked, Life!StoreFlag, Life!Wake
<1>4. QED
  BY <1>1, <1>2, <1>3

(* Every step, and every stutter, keeps the invariant.                     *)
LEMMA NextDaemon ==
  ASSUME DaemonInv, Life!TypeOK, [DaemonNext]_dvars
  PROVE  DaemonInv'
<1>0. TruthInv' /\ Inv /\ TypeOK /\ \A c \in Conns : Held(c)
  BY InvByConnection, DaemonTruth DEF DaemonInv, TruthInv, KnownInv, Inv
<1>a. \A p \in Procs : \A t \in Threads : <<p, t>> \in Conns /\ Tied(p, t)
  BY DaemonAssumption DEF DaemonInv
<1>b. ASSUME UNCHANGED vars,
             \A p \in Procs : \A t \in Threads :
               th'[p][t] = "serving" <=> th[p][t] = "serving"
      PROVE  DaemonInv'
  <2>1. UNCHANGED <<pc, slot>>
    BY <1>b DEF vars, thread
  <2>2. QED
    BY <1>0, <1>a, <1>b, <2>1 DEF DaemonInv, Tied
<1>1. CASE UNCHANGED dvars
  BY <1>1, <1>b DEF dvars, life
<1>2. ASSUME NEW q \in Procs, UNCHANGED vars,
             \/ Elsewhere(q) \/ Life!LeaveLoop(q) \/ Life!DropListener(q)
             \/ Life!DropGuard(q) \/ \E s \in Threads : Asked(q, s)
      PROVE  DaemonInv'
  BY <1>2, <1>b, ElsewhereTied
<1>3. ASSUME NEW q \in Procs, NEW s \in Threads, Accept(q, s) PROVE DaemonInv'
  <2> DEFINE c == <<q, s>>
  <2>1. Life!Accept(q, s) /\ Connect(c) /\ c \in Conns
    BY <1>3, <1>a DEF Accept
  <2>2. pc'[c] = "handshake" /\ th'[q][s] = "serving"
    BY <2>1, <1>0 DEF Connect, Life!Accept, TypeOK, Life!TypeOK
  <2>3. Tied(q, s)'
    BY <2>2 DEF Tied, Ended
  <2>4. ASSUME NEW p \in Procs, NEW t \in Threads, <<p, t>> # c PROVE Tied(p, t)'
    <3>1. pc'[<<p, t>>] = pc[<<p, t>>] /\ slot'[<<p, t>>] = slot[<<p, t>>]
      BY <2>1, <2>4, <1>0, <1>a DEF Connect, TypeOK, thread
    <3>2. th'[p][t] = th[p][t]
      BY <2>1, <2>4 DEF Life!Accept, Life!TypeOK
    <3>3. QED
      BY <3>1, <3>2, <1>a, TiedKept
  <2>5. QED
    BY <1>0, <2>3, <2>4 DEF DaemonInv
<1>4. ASSUME NEW q \in Procs, NEW s \in Threads, InThread(q, s, Step(<<q, s>>))
      PROVE  DaemonInv'
  <2> DEFINE c == <<q, s>>
  <2>1. c \in Conns /\ th[q][s] = "serving" /\ Step(c)
    BY <1>4, <1>a DEF InThread
  <2>2. TruthInv'
    BY <1>0
  <2>3. pc'[c] # "idle" /\ (pc'[c] \in Ended => slot'[c].session = None) /\ Others(c)
    BY <2>1, <1>0, StepGoes, StepHeld
  <2>4. Tied(q, s)' /\ \A p \in Procs : \A t \in Threads :
                         <<p, t>> # c => th'[p][t] = th[p][t]
    <3>1. CASE pc'[c] \in Ended
      <4>1. Life!ConnectionEnds(q, s) /\ th'[q][s] # "serving"
        BY <1>4, <3>1 DEF InThread, EndsAs
      <4>2. QED
        BY <4>1, <3>1, <2>3 DEF Tied, Life!ConnectionEnds, Life!TypeOK
    <3>2. CASE pc'[c] \notin Ended
      <4>1. th' = th
        BY <1>4, <3>2 DEF InThread, life
      <4>2. QED
        BY <4>1, <3>2, <2>1, <2>3 DEF Tied
    <3>3. QED
      BY <3>1, <3>2
  <2>5. ASSUME NEW p \in Procs, NEW t \in Threads, <<p, t>> # c PROVE Tied(p, t)'
    <3>1. pc'[<<p, t>>] = pc[<<p, t>>] /\ slot'[<<p, t>>] = slot[<<p, t>>]
      BY <2>3, <2>5, <1>a DEF Others
    <3>2. QED
      BY <3>1, <2>4, <2>5, <1>a, TiedKept
  <2>6. QED
    BY <2>2, <2>4, <2>5 DEF DaemonInv
<1>5. ASSUME NEW q \in Procs, Exit(q) \/ Crash(q) PROVE DaemonInv'
  <2>1. EndThreads(q) /\ th' = [th EXCEPT ![q] = [t \in Threads |-> "none"]]
    BY <1>5 DEF Exit, Crash, Life!Exit, Life!Crash, Life!NoThreads
  <2>2. TruthInv'
    BY <1>0
  <2>3. ASSUME NEW p \in Procs, NEW t \in Threads PROVE Tied(p, t)'
    <3> DEFINE d == <<p, t>>
    <3>1. d \in Conns /\ d[1] = p /\ Tied(p, t)
      BY <1>a
    <3>2. CASE p = q
      <4>1. pc'[d] = "idle" /\ slot'[d] = NewSlot
        BY <2>1, <3>1, <3>2, <1>0, Ends
      <4>2. th'[p][t] = "none"
        BY <2>1, <3>2 DEF Life!TypeOK
      <4>3. QED
        BY <4>1, <4>2 DEF Tied, NewSlot
    <3>3. CASE p # q
      <4>1. pc'[d] = pc[d] /\ slot'[d] = slot[d]
        BY <2>1, <3>1, <3>3, <1>0, Ends
      <4>2. th'[p][t] = th[p][t]
        BY <2>1, <3>3 DEF Life!TypeOK
      <4>3. QED
        BY <4>1, <4>2, <3>1, TiedKept
    <3>4. QED
      BY <3>2, <3>3
  <2>4. QED
    BY <2>2, <2>3 DEF DaemonInv
<1>6. CASE CatalogChange /\ UNCHANGED life
  <2>1. UNCHANGED <<pc, slot, th>>
    BY <1>6 DEF CatalogChange, life
  <2>2. QED
    BY <2>1, <1>0, <1>a DEF DaemonInv, Tied
<1>7. QED
  BY <1>1, <1>2, <1>3, <1>4, <1>5, <1>6 DEF DaemonNext, Main, Asked
-----------------------------------------------------------------------------
(* Theorems. *)

(* The invariants of the connections and of the processes hold together.   *)
THEOREM DaemonHolds ==
  DaemonSpec => [](DaemonInv /\ LifeProofs!Inv /\ LifeProofs!Unthreaded)
<1>1. ASSUME DaemonInv, LifeProofs!Inv, LifeProofs!Unthreaded, [DaemonNext]_dvars
      PROVE  DaemonInv'
  BY <1>1, LifeMeans, NextDaemon
<1>2. QED
  BY InitDaemon, LifeHolds, <1>1, PTL DEF DaemonSpec

(* A thread is in serve_connection exactly while its process counts it as  *)
(* serving, and nothing is left of the sessions and transactions of a      *)
(* process that is off, for any number of processes and threads.           *)
THEOREM DaemonTypes == DaemonSpec => []DaemonTypeOK
<1>1. ASSUME DaemonInv, LifeProofs!Inv, LifeProofs!Unthreaded PROVE DaemonTypeOK
  <2>1. TypeOK /\ Life!TypeOK /\ RegionOwnsTransaction
    BY <1>1, LifeMeans DEF DaemonInv, TruthInv, KnownInv, Inv
  <2>2. ASSUME NEW p \in Procs, NEW t \in Threads
        PROVE  /\ th[p][t] = "serving" <=> pc[<<p, t>>] \notin {"idle"} \union Ended
               /\ proc[p] = "off" => slot[<<p, t>>].session = None /\ txn[<<p, t>>] = None
    <3>1. Tied(p, t) /\ <<p, t>> \in Conns /\ (proc[p] = "off" => th[p][t] = "none")
      BY <1>1, LifeMeans, DaemonAssumption DEF DaemonInv
    <3>2. QED
      BY <2>1, <3>1 DEF Tied, RegionOwnsTransaction
  <2>3. QED
    BY <2>1, <2>2 DEF DaemonTypeOK
<1>2. QED
  BY <1>1, DaemonHolds, PTL

(* What Lifecycle promises of the lock, the address and the directory      *)
(* holds of the daemon with its connections.                               *)
THEOREM DaemonOwnsAddress ==
  DaemonSpec => [](Life!SocketOwned /\ Life!AddressFree /\ Life!EndpointRestricted)
<1>1. LifeProofs!Inv /\ LifeProofs!Unthreaded
        => Life!SocketOwned /\ Life!AddressFree /\ Life!EndpointRestricted
  BY LifeMeans
<1>2. QED
  BY <1>1, LifeHolds, PTL

(* A daemon whose client's shutdown was served is never left waiting in    *)
(* accept with nobody about to wake it, whatever its other connections are *)
(* in the middle of, but for a connect whose error was ignored             *)
(* (lib.rs:142).                                                           *)
THEOREM DaemonIsWoken == DaemonSpec => []Life!WakeUpComes
<1>1. LifeProofs!Spec => []LifeProofs!WakeUpComes
  BY LifeConstants, LifeProofs!WakeUpIsOnItsWay
<1>2. LifeProofs!WakeUpComes => Life!WakeUpComes
  BY DEF LifeProofs!WakeUpComes, Life!WakeUpComes
<1>3. QED
  BY <1>1, <1>2, LifeSpec, DaemonIsLifecycle, PTL

(* The replies of every connection are true, ids name one database and a   *)
(* transaction is held only in its region, although any process of the     *)
(* daemon may end between any two steps of any thread, and although the    *)
(* threads of an old process may still run when the next one serves.       *)
THEOREM DaemonTellsTruth ==
  DaemonSpec => [](ReplyTruth /\ SessionIdNamesOneDatabase /\ RegionOwnsTransaction)
<1>1. DaemonInv => ReplyTruth /\ SessionIdNamesOneDatabase /\ RegionOwnsTransaction
  BY InvTruth, KnownIds DEF DaemonInv, TruthInv, KnownInv, Inv
<1>2. QED
  BY <1>1, DaemonHolds, PTL

(* A process that exits or crashes publishes nothing: its open             *)
(* transactions are never committed, in the region or in run_one           *)
(* (serve.rs:347-357), and every change of a database was asked for.       *)
THEOREM CrashPublishesNothing == DaemonSpec => PublishedByRequest
<1>1. ASSUME DaemonInv, [DaemonNext]_dvars PROVE [\A p \in Paths : PublishStep(p)]_vars
  <2>1. KnownInv
    BY <1>1 DEF DaemonInv, TruthInv
  <2>2. CASE [Next]_vars
    BY <2>1, <2>2, NextPublishes
  <2>3. ASSUME NEW q \in Procs, EndThreads(q) PROVE \A p \in Paths : PublishStep(p)
    BY <2>3 DEF EndThreads, shared, PublishStep
  <2>4. QED
    BY <1>1, <2>2, <2>3, ServeStep
<1>2. QED
  BY <1>1, DaemonHolds, PTL DEF DaemonSpec, PublishedByRequest, PublishStep, Publishes

(* No session outlives its process into the next one: whatever a thread    *)
(* opens it opens from a catalog document in place while it was asked to.  *)
THEOREM DaemonOpensWhatWasSeen == DaemonSpec => OpenSeesCatalog
<1>1. ASSUME DaemonInv, [DaemonNext]_dvars PROVE [\A c \in Conns : SeesStep(c)]_vars
  <2>1. KnownInv /\ TypeOK
    BY <1>1 DEF DaemonInv, TruthInv, KnownInv, Inv
  <2>2. CASE [Next]_vars
    BY <2>1, <2>2, NextSees
  <2>3. ASSUME NEW q \in Procs, EndThreads(q) PROVE \A c \in Conns : SeesStep(c)
    BY <2>1, <2>3, Ends DEF SeesStep, NewSlot
  <2>4. QED
    BY <1>1, <2>2, <2>3, ServeStep
<1>2. QED
  BY <1>1, DaemonHolds, PTL DEF DaemonSpec, OpenSeesCatalog, SeesStep
=============================================================================
