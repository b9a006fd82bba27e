------------------------ MODULE ServeSessions_proofs ------------------------
(***************************************************************************)
(* Proofs about the sessions of Serve: which database a session is of,     *)
(* which catalog document it was opened from, and what is published.       *)
(***************************************************************************)
EXTENDS Serve_proofs

(* What the history of connection c says about its present: the documents  *)
(* that dispatch has read or may read are among those seen; the ids minted *)
(* so far are below the next one, each of one database, and the session's  *)
(* own among them; and a transaction that was begun by name was begun on   *)
(* the session that the connection still holds.                            *)
Known(c) ==
  /\ pc[c] = "opening" => catalog \in seen[c]
  /\ pc[c] = "loaded" => loaded[c] \in seen[c]
  /\ pc[c] = "auto" => req[c].operation = "query"
  /\ \A o \in opened[c] : o[1] < slot[c].next
  /\ \A o, q \in opened[c] : o[1] = q[1] => o = q
  /\ slot[c].session # None =>
       <<slot[c].session.id, slot[c].session.path>> \in opened[c]
  /\ (txn[c] # None /\ txn[c].named # None) => txn[c].named = slot[c].session.id

KnownInv == Inv /\ \A c \in Conns : Known(c)

(* A thread's step touches the history of no other connection.             *)
Elsewise(c) ==
  /\ catalog' = catalog
  /\ \A d \in Conns \ {c} :
       /\ pc'[d] = pc[d] /\ req'[d] = req[d] /\ loaded'[d] = loaded[d]
       /\ txn'[d] = txn[d] /\ slot'[d] = slot[d]
       /\ seen'[d] = seen[d] /\ opened'[d] = opened[d]

(* A request that resolves named no session or the connection's own.       *)
LEMMA ResolvedId ==
  ASSUME NEW c \in Conns, NEW named, resolve(slot[c], named) = None, named # None
  PROVE  named = slot[c].session.id
BY MessageAssumption DEF resolve, Rule

(* What a frame makes of the history of its connection.                    *)
LEMMA ReceiveKnown ==
  ASSUME Inv, NEW c \in Conns, Known(c), NEW body \in Bodies, Receive(c, body)
  PROVE  Known(c)' /\ Elsewise(c)
<1>0. TypeOK /\ None \notin TxnType
  BY ServeAssumption DEF Inv
<1> USE DEF shared, thread, Known, Elsewise, TypeOK
<1>1. CASE Hello(c, body)
  BY <1>0, <1>1 DEF Hello, Answer
<1>2. CASE Refuse(c, body)
  BY <1>0, <1>2 DEF Refuse, Answer
<1>3. CASE OpenSession(c, body)
  <2>1. CASE Answer(c, error_response(body, "names_no_database", {}), TRUE, "loop")
             /\ UNCHANGED <<client, shared, thread>>
    BY <2>1, <1>0 DEF Answer
  <2>2. CASE /\ Working(c, body, "opening")
             /\ seen' = [seen EXCEPT ![c] = {catalog}]
             /\ UNCHANGED <<out, slot, txn, loaded, opened, client, shared>>
    <3>1. pc'[c] = "opening" /\ catalog' \in seen'[c]
      BY <2>2, <1>0 DEF Working
    <3>2. QED
      BY <2>2, <3>1, <1>0 DEF Working
  <2>3. QED
    BY <1>3, <2>1, <2>2 DEF OpenSession
<1>4. CASE CloseSession(c, body)
  <2>1. txn[c] = None
    BY <1>4 DEF CloseSession, Request, Inv, RegionOwnsTransaction
  <2>2. slot'[c].session = None /\ slot'[c].next = slot[c].next
    BY <1>0, <1>4 DEF CloseSession, close
  <2>3. QED
    BY <1>0, <1>4, <2>1, <2>2 DEF CloseSession, Request, Answer
<1>5. CASE Status(c, body)
  BY <1>0, <1>5 DEF Status, Request, Answer
<1>6. CASE Shutdown(c, body)
  BY <1>0, <1>6 DEF Shutdown, Request, Answer
<1>7. CASE StrayFinish(c, body)
  BY <1>0, <1>7 DEF StrayFinish, Request, Answer
<1>8. CASE WrongSession(c, body)
  BY <1>0, <1>8 DEF WrongSession, Request, Answer
<1>9. CASE Query(c, body)
  <2>1. ASSUME NEW w, NEW t \in Begun(slot[c].session.path, body.session_id, w)
        PROVE  t.named = body.session_id
    BY DEF Begun
  <2>2. body.session_id # None => body.session_id = slot[c].session.id
    BY <1>9, ResolvedId DEF Query
  <2>3. ASSUME NEW reply, Answer(c, reply, TRUE, "loop"), UNCHANGED <<log, catalog, thread>>
        PROVE  Known(c)' /\ Elsewise(c)
    BY <2>3, <1>0 DEF Answer
  <2>4. ASSUME NEW w, NEW t \in Begun(slot[c].session.path, body.session_id, w),
               txn' = [txn EXCEPT ![c] = t], Working(c, body, "auto"),
               UNCHANGED <<out, slot, loaded, opened, seen, client, log, catalog>>
        PROVE  Known(c)' /\ Elsewise(c)
    <3>1. pc'[c] = "auto" /\ req'[c] = body /\ body.operation = "query" /\ txn'[c] = t
      BY <2>4, <1>0, <1>9 DEF Working, Query
    <3>2. QED
      BY <2>1, <2>2, <2>4, <3>1, <1>0 DEF Working
  <2>5. QED
    BY <1>9, <2>3, <2>4 DEF Query
<1>10. CASE Begin(c, body)
  <2>1. ASSUME NEW t \in Begun(slot[c].session.path, body.session_id, {})
        PROVE  t.named = body.session_id
    BY DEF Begun
  <2>2. body.session_id # None => body.session_id = slot[c].session.id
    BY <1>10, ResolvedId DEF Begin
  <2>3. QED
    BY <2>1, <2>2, <1>0, <1>10 DEF Begin, Request, Answer
<1>11. CASE RegionCommit(c, body)
  BY <1>0, <1>11 DEF RegionCommit, LeaveRegion, Request, Answer
<1>12. CASE RegionRollback(c, body)
  BY <1>0, <1>12 DEF RegionRollback, LeaveRegion, Request, Answer
<1>13. CASE RegionQuery(c, body)
  <2>1. txn[c] # None
    BY <1>13 DEF RegionQuery, Request, Inv, RegionOwnsTransaction
  <2>2. \A w : Ran(txn[c], w).named = txn[c].named
    BY DEF Ran
  <2>3. QED
    BY <2>1, <2>2, <1>0, <1>13 DEF RegionQuery, Request, Answer
<1>14. CASE RegionOther(c, body)
  BY <1>0, <1>14 DEF RegionOther, Request, Answer
<1>15. QED
  BY <1>1, <1>2, <1>3, <1>4, <1>5, <1>6, <1>7, <1>8, <1>9, <1>10, <1>11, <1>12, <1>13,
     <1>14 DEF Receive

(* What a thread's own steps make of the history of its connection.        *)
LEMMA WorkKnown ==
  ASSUME Inv, NEW c \in Conns, Known(c), Work(c)
  PROVE  Known(c)' /\ Elsewise(c)
<1>0. TypeOK
  BY DEF Inv
<1> USE DEF shared, Known, Elsewise, TypeOK, Dispatched, Answer
<1>1. CASE LoadCatalog(c)
  BY <1>0, <1>1 DEF LoadCatalog
<1>2. CASE SlotOpen(c)
  <2> DEFINE name == req[c].database
             path == loaded[c][name]
  <2>1. txn[c] = None
    BY <1>2 DEF SlotOpen, Inv, RegionOwnsTransaction
  <2>2. ASSUME NEW reply, Dispatched(c, reply), UNCHANGED <<slot, opened>>
        PROVE  Known(c)' /\ Elsewise(c)
    BY <2>2, <1>0, <1>2 DEF SlotOpen
  <2>3. ASSUME NEW reply, Dispatched(c, reply),
               slot' = [slot EXCEPT ![c] = Mint(@, name, path)],
               opened' = [opened EXCEPT ![c] = @ \union {<<slot'[c].session.id, path>>}]
        PROVE  Known(c)' /\ Elsewise(c)
    <3>1. /\ slot'[c].session.id = slot[c].next /\ slot'[c].session.path = path
          /\ slot'[c].next = slot[c].next + 1 /\ slot[c].next \in Nat
      BY <2>3, <1>0 DEF Mint
    <3>2. opened'[c] = opened[c] \union {<<slot[c].next, path>>}
      BY <3>1, <2>3, <1>0
    <3>3. \A o \in opened[c] : o[1] \in Nat
      BY <1>0
    <3>4. /\ \A o \in opened'[c] : o[1] < slot'[c].next
          /\ \A o, q \in opened'[c] : o[1] = q[1] => o = q
      BY <3>1, <3>2, <3>3
    <3>5. <<slot'[c].session.id, slot'[c].session.path>> \in opened'[c]
      BY <3>1, <3>2
    <3>6. pc'[c] = "reply" /\ txn'[c] = None
      BY <2>1, <2>3, <1>0, <1>2 DEF SlotOpen
    <3>7. Known(c)'
      BY <3>4, <3>5, <3>6
    <3>8. Elsewise(c)
      BY <2>3, <1>0, <1>2 DEF SlotOpen
    <3>9. QED
      BY <3>7, <3>8
  <2>4. QED
    BY <1>2, <2>2, <2>3 DEF SlotOpen
<1>3. CASE AutoCommit(c)
  BY <1>0, <1>3 DEF AutoCommit
<1>4. QED
  BY <1>1, <1>2, <1>3 DEF Work

(* What any step of a connection makes of its history.                     *)
LEMMA StepKnown ==
  ASSUME KnownInv, NEW c \in Conns, Connect(c) \/ Step(c)
  PROVE  Known(c)' /\ Elsewise(c)
<1>0. Inv /\ TypeOK /\ Known(c)
  BY DEF KnownInv, Inv
<1>1. CASE Connect(c) \/ Finish(c) \/ Leave(c) \/ ReadTooLarge(c)
  BY <1>0, <1>1 DEF Connect, Finish, Leave, ReadTooLarge, Answer, TypeOK, Known, Elsewise,
                    thread, shared
<1>2. ASSUME NEW ended \in Ended, Return(c, ended), UNCHANGED shared
      PROVE  Known(c)' /\ Elsewise(c)
  BY <1>0, <1>2 DEF Return, NewSlot, TypeOK, Known, Elsewise, shared, Ended
<1>3. CASE ReadClosed(c) \/ ReadFailed(c)
  BY <1>2, <1>3 DEF ReadClosed, ReadFailed, Ended
<1>4. ASSUME NEW body \in Bodies, Receive(c, body) PROVE Known(c)' /\ Elsewise(c)
  BY <1>0, <1>4, ReceiveKnown
<1>5. CASE Work(c)
  BY <1>0, <1>5, WorkKnown
<1>6. CASE Send(c)
  <2>1. CASE AfterSend(c) \in Ended
    BY <2>1, <1>2, <1>6 DEF Send
  <2>2. CASE AfterSend(c) \notin Ended
    <3>1. AfterSend(c) \in {"loop", "region"}
      <4>1. out[c] \in OutType
        BY <1>0, <1>6 DEF Send, Inv, TypeOK, Stages
      <4>2. QED
        BY <4>1, <2>2 DEF AfterSend, OutType, Ended
    <3>2. QED
      BY <3>1, <2>2, <1>0, <1>6 DEF Send, TypeOK, Known, Elsewise, thread, shared
  <2>3. QED
    BY <2>1, <2>2
<1>7. QED
  BY <1>1, <1>3, <1>4, <1>5, <1>6 DEF Step

(* Every step, and every stutter, keeps the history right.                 *)
LEMMA NextKnown == KnownInv /\ [Next]_vars => KnownInv'
<1> SUFFICES ASSUME KnownInv, [Next]_vars PROVE KnownInv'
  OBVIOUS
<1>0. Inv /\ Inv' /\ TypeOK /\ \A c \in Conns : Known(c)
  BY NextInv DEF KnownInv, Inv
<1> SUFFICES ASSUME NEW d \in Conns PROVE Known(d)'
  BY <1>0 DEF KnownInv
<1>1. CASE UNCHANGED vars
  BY <1>0, <1>1 DEF Known, vars, shared, thread
<1>2. ASSUME NEW c \in Conns, Connect(c) \/ Step(c) PROVE Known(d)'
  <2>1. Known(c)' /\ Elsewise(c) /\ Known(d)
    BY <1>0, <1>2, StepKnown
  <2>2. CASE d # c
    BY <2>1, <2>2 DEF Known, Elsewise
  <2>3. QED
    BY <2>1, <2>2
<1>3. CASE CatalogChange
  BY <1>0, <1>3 DEF CatalogChange, Known, TypeOK
<1>4. QED
  BY <1>1, <1>2, <1>3 DEF Next

(* No connection has a history at first.                                   *)
LEMMA InitKnown == Init => KnownInv
<1>1. Init => \A c \in Conns : Known(c)
  BY DEF Init, Known, NewSlot
<1>2. QED
  BY <1>1, InitInv DEF KnownInv

(* The history is right in every behaviour.                                *)
THEOREM KnownHolds == Spec => []KnownInv
BY InitKnown, NextKnown, PTL DEF Spec

(* So an id was opened on one database only.                               *)
LEMMA KnownIds == KnownInv => SessionIdNamesOneDatabase
<1> SUFFICES ASSUME KnownInv, NEW c \in Conns, txn[c] # None, txn[c].named # None
             PROVE  {o[2] : o \in {o \in opened[c] : o[1] = txn[c].named}} = {txn[c].path}
  BY DEF SessionIdNamesOneDatabase
<1>1. Known(c) /\ TypeOK /\ slot[c].session # None /\ txn[c].path = slot[c].session.path
  BY DEF KnownInv, Inv, RegionOwnsTransaction
<1> DEFINE own == <<slot[c].session.id, slot[c].session.path>>
<1>2. own \in opened[c] /\ own[1] = txn[c].named /\ own[2] = txn[c].path
  BY <1>1 DEF Known
<1>3. \A o \in opened[c] : o[1] = txn[c].named => o = own
  BY <1>1, <1>2 DEF Known
<1> HIDE DEF own
<1>4. QED
  BY <1>2, <1>3

(* The transaction of a begin, or of a query run on its own, that named an *)
(* id is over the database the id was opened on, and nothing else was ever *)
(* opened under it (session.rs:162).                                       *)
THEOREM IdsNameOneDatabase == Spec => []SessionIdNamesOneDatabase
BY KnownHolds, KnownIds, PTL

(* Connection c keeps its session, or has none any more.                   *)
KeepsSession(c) == slot'[c].session \in {slot[c].session, None}

(* No frame gives a connection a session.                                  *)
LEMMA ReceiveKeepsSession ==
  ASSUME TypeOK, NEW c \in Conns, NEW body \in Bodies, Receive(c, body)
  PROVE  KeepsSession(c)
<1>1. CASE CloseSession(c, body)
  BY <1>1 DEF CloseSession, close, KeepsSession, TypeOK
<1>2. CASE ~CloseSession(c, body)
  <2>1. UNCHANGED slot
    BY <1>2 DEF Receive, Hello, Refuse, OpenSession, Status, Shutdown, StrayFinish,
         WrongSession, Query, Begin, RegionCommit, RegionRollback, RegionQuery, RegionOther,
         LeaveRegion, thread
  <2>2. QED
    BY <2>1 DEF KeepsSession
<1>3. QED
  BY <1>1, <1>2

(* Only SlotOpen gives a connection a session, and the path it gives it is *)
(* the one its name had in the document that was loaded.                   *)
LEMMA StepSession ==
  ASSUME KnownInv, NEW c \in Conns, Connect(c) \/ Step(c)
  PROVE  \/ KeepsSession(c)
         \/ \E d \in seen[c] : d[slot'[c].session.name] = slot'[c].session.path
<1>0. TypeOK /\ Known(c)
  BY DEF KnownInv, Inv
<1>1. CASE Connect(c) \/ Finish(c) \/ Leave(c) \/ ReadTooLarge(c) \/ LoadCatalog(c) \/ AutoCommit(c)
  BY <1>1 DEF Connect, Finish, Leave, ReadTooLarge, LoadCatalog, AutoCommit, thread,
              KeepsSession
<1>2. ASSUME NEW ended \in Ended, Return(c, ended) PROVE KeepsSession(c)
  BY <1>0, <1>2 DEF Return, NewSlot, KeepsSession, TypeOK
<1>3. CASE ReadClosed(c) \/ ReadFailed(c)
  BY <1>2, <1>3 DEF ReadClosed, ReadFailed, Ended
<1>4. CASE Send(c)
  BY <1>2, <1>4 DEF Send, thread, KeepsSession
<1>5. ASSUME NEW body \in Bodies, Receive(c, body) PROVE KeepsSession(c)
  BY <1>0, <1>5, ReceiveKeepsSession
<1>6. CASE SlotOpen(c)
  <2> DEFINE name == req[c].database
             path == loaded[c][name]
  <2>1. CASE slot' = [slot EXCEPT ![c] = Mint(@, name, path)]
    <3>1. slot'[c].session.name = name /\ slot'[c].session.path = path
      BY <2>1, <1>0 DEF Mint, TypeOK
    <3>2. loaded[c] \in seen[c]
      BY <1>0, <1>6 DEF SlotOpen, Known
    <3>3. QED
      BY <3>1, <3>2
  <2>2. QED
    BY <2>1, <1>6 DEF SlotOpen, KeepsSession
<1>7. QED
  BY <1>1, <1>3, <1>4, <1>5, <1>6 DEF Step, Work

(* The session a step gives to c is of a document c has seen.              *)
SeesStep(c) ==
  (slot'[c].session # slot[c].session /\ slot'[c].session # None) =>
    \E d \in seen[c] : d[slot'[c].session.name] = slot'[c].session.path

(* Every step, and every stutter, gives sessions from documents seen.      *)
LEMMA NextSees == KnownInv /\ [Next]_vars => [\A c \in Conns : SeesStep(c)]_vars
<1> SUFFICES ASSUME KnownInv, Next, NEW c \in Conns PROVE SeesStep(c)
  OBVIOUS
<1>1. ASSUME NEW e \in Conns, Connect(e) \/ Step(e) PROVE SeesStep(c)
  <2>1. CASE e = c
    BY <1>1, <2>1, StepSession DEF KeepsSession, SeesStep
  <2>2. CASE e # c
    BY <1>1, <2>2, StepKnown DEF Elsewise, SeesStep
  <2>3. QED
    BY <2>1, <2>2
<1>2. CASE CatalogChange
  BY <1>2 DEF CatalogChange, SeesStep
<1>3. QED
  BY <1>1, <1>2 DEF Next

(* A session opens the path its name had in a document that was in place   *)
(* while the request was served (serve.rs:74), whatever other processes    *)
(* put there in the meantime.                                              *)
THEOREM OpensWhatWasSeen == Spec => OpenSeesCatalog
BY KnownHolds, NextSees, PTL DEF Spec, OpenSeesCatalog, SeesStep
-----------------------------------------------------------------------------
(* Publication. *)

(* The effect PublishedByRequest demands, for one connection and database. *)
Publishes(c, p) ==
  /\ txn[c] # None /\ txn[c].path = p /\ txn'[c] = None
  /\ log'[p] = Append(log[p], txn[c].writes)
  /\ txn[c].base = Generation(p)
  /\ pc'[c] = "reply" /\ out'[c].reply.request.operation \in {"commit", "query"}

(* The transaction that a commit, or a query on its own, consumes is the   *)
(* one it publishes, whole, over its own base.                             *)
LEMMA CommitPublishes ==
  ASSUME TypeOK, NEW c \in Conns, txn[c] \in TxnType, CanCommit(txn[c]),
         log' = Publish(txn[c]), NEW p \in Paths, log'[p] # log[p]
  PROVE  /\ txn[c].path = p /\ txn[c].base = Generation(p)
         /\ log'[p] = Append(log[p], txn[c].writes)
BY DEF TypeOK, CanCommit, Publish

(* A step of a connection publishes what its client asked for, or nothing. *)
LEMMA StepPublishes ==
  ASSUME KnownInv, NEW c \in Conns, Connect(c) \/ Step(c), NEW p \in Paths, log'[p] # log[p]
  PROVE  Publishes(c, p)
<1>0. TypeOK /\ Known(c) /\ None \notin TxnType
  BY ServeAssumption DEF KnownInv, Inv
<1>1. CASE \/ Connect(c) \/ Finish(c) \/ Leave(c) \/ ReadTooLarge(c) \/ LoadCatalog(c)
           \/ SlotOpen(c) \/ ReadClosed(c) \/ ReadFailed(c) \/ Send(c)
  BY <1>1 DEF Connect, Finish, Leave, ReadTooLarge, LoadCatalog, SlotOpen, ReadClosed,
              ReadFailed, Send, shared
<1>2. ASSUME NEW body \in Bodies, Receive(c, body), ~RegionCommit(c, body) PROVE FALSE
  BY <1>2 DEF Receive, Hello, Refuse, OpenSession, CloseSession, Status, Shutdown,
       StrayFinish, WrongSession, Query, Begin, RegionRollback, RegionQuery, RegionOther, shared
<1>3. ASSUME NEW body \in Bodies, RegionCommit(c, body) PROVE Publishes(c, p)
  <2>1. txn[c] \in TxnType
    BY <1>3 DEF RegionCommit, Request, KnownInv, Inv, TypeOK, RegionOwnsTransaction
  <2>2. CanCommit(txn[c]) /\ log' = Publish(txn[c])
    BY <1>3 DEF RegionCommit
  <2>3. /\ Answer(c, ok_response(body, "generation", CommitGeneration(txn[c]), txn[c].writes),
                  FALSE, "loop")
        /\ txn' = [txn EXCEPT ![c] = None] /\ body.operation = "commit"
    BY <1>3 DEF RegionCommit, LeaveRegion
  <2>4. pc'[c] = "reply" /\ out'[c].reply.request = body /\ txn'[c] = None
    BY <2>3, <1>0 DEF Answer, ok_response, response, TypeOK
  <2>5. QED
    BY <2>1, <2>2, <2>3, <2>4, <1>0, CommitPublishes DEF Publishes
<1>4. CASE AutoCommit(c)
  <2>1. txn[c] \in TxnType /\ req[c].operation = "query"
    BY <1>0, <1>4 DEF AutoCommit, Known, KnownInv, Inv, TypeOK, RegionOwnsTransaction
  <2>2. /\ CanCommit(txn[c]) /\ log' = Publish(txn[c])
        /\ Dispatched(c, envelope_response(req[c], CommitGeneration(txn[c]), txn[c].writes))
        /\ txn' = [txn EXCEPT ![c] = None]
    BY <1>4 DEF AutoCommit
  <2>3. pc'[c] = "reply" /\ out'[c].reply.request = req[c] /\ txn'[c] = None
    BY <2>2, <1>0 DEF Dispatched, Answer, envelope_response, error_response, response, TypeOK
  <2>4. QED
    BY <2>1, <2>2, <2>3, <1>0, CommitPublishes DEF Publishes
<1>5. QED
  BY <1>1, <1>2, <1>3, <1>4 DEF Step, Work

(* A step changes database p only as PublishedByRequest demands.           *)
PublishStep(p) == log'[p] # log[p] => \E c \in Conns : Publishes(c, p)

(* Every step, and every stutter, publishes what was asked for.            *)
LEMMA NextPublishes == KnownInv /\ [Next]_vars => [\A p \in Paths : PublishStep(p)]_vars
<1> SUFFICES ASSUME KnownInv, Next, NEW p \in Paths PROVE PublishStep(p)
  OBVIOUS
<1>1. ASSUME NEW c \in Conns, Connect(c) \/ Step(c) PROVE PublishStep(p)
  BY <1>1, StepPublishes DEF PublishStep
<1>2. CASE CatalogChange
  BY <1>2 DEF CatalogChange, PublishStep
<1>3. QED
  BY <1>1, <1>2 DEF Next

(* A database changes only by a commit, or a query run on its own, that is *)
(* being answered, and by exactly that transaction's write set: a          *)
(* disconnect, a failed read or a failed send publishes nothing            *)
(* (serve.rs:347-357), whatever is open on however many connections.       *)
THEOREM PublicationIsRequested == Spec => PublishedByRequest
BY KnownHolds, NextPublishes, PTL DEF Spec, PublishedByRequest, PublishStep, Publishes
=============================================================================
