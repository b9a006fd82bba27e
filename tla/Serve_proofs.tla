---------------------------- MODULE Serve_proofs ----------------------------
(***************************************************************************)
(* Proofs about Serve, for any set of connections, databases, catalog      *)
(* documents and frame bodies.                                             *)
(***************************************************************************)
EXTENDS Serve, TLAPS

(* What the thread is doing and what it holds for it go together: dispatch *)
(* works on a decoded request, a reply is written exactly when there is    *)
(* one.                                                                    *)
Stages ==
  \A c \in Conns :
    /\ pc[c] \in {"opening", "loaded", "auto"} => req[c] # None
    /\ pc[c] \in {"opening", "loaded"} => req[c].database \in Names
    /\ pc[c] = "loaded" => loaded[c] # None
    /\ pc[c] = "auto" => req[c].statement # None
    /\ pc[c] = "reply" <=> out[c] # None

Inv == TypeOK /\ Stages /\ RegionOwnsTransaction

(* A request that decodes has an id, a published operation, and no         *)
(* path-shaped database (message.rs:308).                                  *)
LEMMA Decoded ==
  ASSUME NEW body \in Bodies, NEW ids, decode_request(body, ids) = None
  PROVE  /\ body.request_id \in RequestIds
         /\ body.operation \in Operation
         /\ body.database \in Names \union {None}
BY MessageAssumption, ServeAssumption DEF decode_request, Body, Rule

(* A message that does not decode breaks a rule.                           *)
LEMMA Undecoded ==
  ASSUME NEW body \in Bodies, NEW ids
  PROVE  decode_request(body, ids) \in Rule \union {None}
BY DEF decode_request, Rule

(* The reply constructors of serve.rs build replies.                       *)
LEMMA ResponseType ==
  \A r \in Bodies \union {None}, o \in {"ok", "error"}, w \in What,
     d \in {None, "SERVER_PROTOCOL_UNSUPPORTED"}, v \in Nat \union {None},
     s \in SUBSET Writes, l \in BOOLEAN :
       response(r, o, w, d, v, s, l) \in ReplyType
BY DEF response, ReplyType

(* Whether a reply that echoes its request fits is a Boolean.              *)
LEMMA Bulky == \A body \in Bodies : body.bulky \in BOOLEAN
BY ServeAssumption DEF Body

(* ok_response builds a reply.                                             *)
LEMMA OkType ==
  \A body \in Bodies, what \in What, value \in Nat \union {None}, writes \in SUBSET Writes :
    ok_response(body, what, value, writes) \in ReplyType
BY Bulky, ResponseType DEF ok_response

(* error_response builds a reply.                                          *)
LEMMA ErrorType ==
  \A body \in Bodies, what \in What, writes \in SUBSET Writes :
    error_response(body, what, writes) \in ReplyType
BY Bulky, ResponseType DEF error_response

(* diagnostic_response builds a reply.                                     *)
LEMMA DiagnosticType ==
  \A body \in Bodies, writes \in SUBSET Writes :
    diagnostic_response(body, writes) \in ReplyType
BY Bulky, ResponseType DEF diagnostic_response, What

(* refusal_response builds a reply.                                        *)
LEMMA RefusalType ==
  \A body \in Bodies, rule \in Rule, large \in BOOLEAN :
    refusal_response(body, rule, large) \in ReplyType
BY ResponseType DEF refusal_response, code, What

(* The fixed messages of the handshake and of a frame that is too large.   *)
LEMMA FixedType ==
  /\ welcome \in ReplyType /\ frame_too_large \in ReplyType
  /\ \A body \in Bodies : refused(body) \in ReplyType
<1> DEFINE no == FALSE
<1>1. no \in BOOLEAN
  OBVIOUS
<1> HIDE DEF no
<1>2. /\ response(None, "ok", "welcome", None, None, {}, no) \in ReplyType
      /\ response(None, "error", "frame_too_large", None, None, {}, no) \in ReplyType
      /\ \A body \in Bodies :
           response(body, "error", "refused", "SERVER_PROTOCOL_UNSUPPORTED", None, {}, no)
             \in ReplyType
  BY <1>1, ResponseType DEF What, Rule
<1>3. QED
  BY <1>2, Zenon DEF refused, welcome, frame_too_large, no

(* envelope_response builds a reply, within the row ceiling or over it.    *)
LEMMA EnvelopeType ==
  ASSUME NEW body \in Bodies, body.statement # None, NEW value \in Nat,
         NEW writes \in SUBSET Writes
  PROVE  envelope_response(body, value, writes) \in ReplyType
<1> DEFINE wide == body.bulky \/ ~body.statement.fits
<1>1. wide \in BOOLEAN
  OBVIOUS
<1> HIDE DEF wide
<1>2. response(body, "ok", "result", None, value, writes, wide) \in ReplyType
  BY <1>1, ResponseType DEF What
<1>3. error_response(body, "max_result_rows", writes) \in ReplyType
  BY ErrorType DEF What
<1>4. QED
  BY <1>2, <1>3, Zenon DEF envelope_response, wide

(* Preparing a reply keeps the types.                                      *)
LEMMA AnswerType ==
  ASSUME TypeOK, NEW c \in Conns, NEW reply \in ReplyType, NEW must \in BOOLEAN,
         NEW then \in {"loop", "region"} \union Ended, Answer(c, reply, must, then)
  PROVE  /\ pc' \in [Conns -> Points] /\ out' \in [Conns -> OutType \union {None}]
         /\ out'[c] \in OutType
<1>1. [reply |-> reply, must |-> must, then |-> then] \in OutType
  BY DEF OutType
<1>2. QED
  BY <1>1 DEF TypeOK, Answer, Points

(* Returning from serve_connection keeps the types.                        *)
LEMMA ReturnType ==
  ASSUME TypeOK, NEW c \in Conns, NEW ended \in Ended, Return(c, ended),
         UNCHANGED shared
  PROVE  TypeOK'
<1>1. NewSlot \in [session : SessionType \union {None}, next : Nat]
  BY DEF NewSlot
<1>2. QED
  BY <1>1 DEF TypeOK, Return, shared, Points

(* What the Engine hands back is a transaction.                            *)
LEMMA BegunType ==
  ASSUME TypeOK, NEW p \in Paths, NEW named \in Nat \union {None},
         NEW w \in SUBSET Writes, NEW t \in Begun(p, named, w)
  PROVE  t \in TxnType
<1>1. Generation(p) \in Nat
  BY DEF TypeOK, Generation
<1>2. QED
  BY <1>1 DEF Begun, TxnType

(* A statement writes at most one fresh number.                            *)
LEMMA EffectsType ==
  ASSUME TypeOK, NEW statement, NEW w \in Effects(statement)
  PROVE  w \in SUBSET Writes /\ Wrote(w) \in 0..MaxWrites
BY ServeAssumption DEF TypeOK, Effects, Wrote, Writes

(* A request that resolves finds a session (session.rs:189).               *)
LEMMA Resolved ==
  ASSUME TypeOK, NEW c \in Conns, NEW named, resolve(slot[c], named) = None
  PROVE  slot[c].session \in SessionType /\ slot[c].session.path \in Paths
<1>1. slot[c].session # None
  BY MessageAssumption DEF resolve, Rule
<1>2. slot[c] \in [session : SessionType \union {None}, next : Nat]
  BY DEF TypeOK
<1>3. QED
  BY <1>1, <1>2 DEF SessionType

(* A commit appends to a database's log, or leaves it.                     *)
LEMMA PublishType ==
  ASSUME TypeOK, NEW t \in TxnType
  PROVE  Publish(t) \in [Paths -> Seq(SUBSET Writes)]
<1>1. t.path \in Paths /\ t.writes \in SUBSET Writes
  BY DEF TxnType
<1>2. log[t.path] \in Seq(SUBSET Writes)
  BY <1>1 DEF TypeOK
<1>3. Append(log[t.path], t.writes) \in Seq(SUBSET Writes)
  BY <1>1, <1>2
<1>4. QED
  BY <1>1, <1>2, <1>3 DEF Publish, TypeOK

(* dispatch returning keeps the types.                                     *)
LEMMA DispatchedType ==
  ASSUME TypeOK, NEW c \in Conns, NEW reply \in ReplyType, Dispatched(c, reply)
  PROVE  /\ pc' \in [Conns -> Points] /\ out' \in [Conns -> OutType \union {None}]
         /\ out'[c] \in OutType
         /\ req' \in [Conns -> Bodies \union {None}]
         /\ outstanding' \in [Conns -> SUBSET RequestIds]
         /\ loaded' \in [Conns -> Catalogs \union {None}]
         /\ seen' \in [Conns -> SUBSET Catalogs]
<1>1. Answer(c, reply, TRUE, "loop")
  BY DEF Dispatched
<1>2. /\ pc' \in [Conns -> Points] /\ out' \in [Conns -> OutType \union {None}]
      /\ out'[c] \in OutType
  BY <1>1, AnswerType
<1>3. QED
  BY <1>2 DEF Dispatched, TypeOK

(* A step of connection c leaves the types right, and a reply to write     *)
(* when it is about to write one.                                          *)
TypedStep(c) == TypeOK' /\ (pc'[c] = "reply" => out'[c] \in OutType)

(* Every frame a client sends keeps the types.                             *)
LEMMA ReceiveType ==
  ASSUME Inv, NEW c \in Conns, NEW body \in Bodies, Receive(c, body)
  PROVE  TypedStep(c)
<1> USE DEF TypedStep, shared, thread
<1>0. TypeOK /\ TRUE \in BOOLEAN /\ FALSE \in BOOLEAN
  BY DEF Inv
<1>a. ASSUME NEW reply \in ReplyType, NEW must \in BOOLEAN,
             NEW then \in {"loop", "region"} \union Ended, Answer(c, reply, must, then),
             UNCHANGED <<client, shared, thread>>
      PROVE  TypedStep(c)
  BY <1>0, <1>a, AnswerType DEF TypeOK
<1>1. CASE Hello(c, body)
  BY <1>0, <1>1, <1>a, FixedType DEF Hello, Ended
<1>2. CASE Refuse(c, body)
  <2> DEFINE rule == decode_request(body, outstanding[c])
             large == body.bulky /\ EchoesClient(body, rule)
             inside == pc[c] = "region"
  <2>1. rule \in Rule /\ pc[c] \in {"loop", "region"}
    BY <1>2, Undecoded DEF Refuse
  <2>2. large \in BOOLEAN /\ inside \in BOOLEAN
    OBVIOUS
  <2>3. Answer(c, refusal_response(body, rule, large), inside, pc[c])
        /\ UNCHANGED <<client, shared, thread>>
    BY <1>2, Zenon DEF Refuse
  <2> HIDE DEF rule, large, inside
  <2>4. refusal_response(body, rule, large) \in ReplyType
    BY <2>1, <2>2, RefusalType
  <2>5. QED
    BY <2>1, <2>2, <2>3, <2>4, <1>a
<1>3. CASE OpenSession(c, body)
  <2>1. error_response(body, "names_no_database", {}) \in ReplyType
    BY ErrorType DEF What
  <2>2. CASE Answer(c, error_response(body, "names_no_database", {}), TRUE, "loop")
             /\ UNCHANGED <<client, shared, thread>>
    BY <2>1, <2>2, <1>0, <1>a
  <2>3. CASE /\ Working(c, body, "opening")
             /\ seen' = [seen EXCEPT ![c] = {catalog}]
             /\ UNCHANGED <<out, slot, txn, loaded, opened, client, shared>>
    <3>1. body.request_id \in RequestIds
      BY <1>3, Decoded DEF OpenSession, Request
    <3>2. QED
      BY <2>3, <3>1, <1>0 DEF Working, TypeOK, Points
  <2>4. QED
    BY <1>3, <2>2, <2>3 DEF OpenSession
<1>4. CASE CloseSession(c, body)
  <2>1. ok_response(body, "closed", None, {}) \in ReplyType
    BY OkType DEF What
  <2>2. Answer(c, ok_response(body, "closed", None, {}), TRUE, "loop")
    BY <1>4 DEF CloseSession
  <2>3. /\ pc' \in [Conns -> Points] /\ out' \in [Conns -> OutType \union {None}]
        /\ out'[c] \in OutType
    BY <2>1, <2>2, <1>0, AnswerType
  <2>4. slot' \in [Conns -> [session : SessionType \union {None}, next : Nat]]
    BY <1>0, <1>4 DEF CloseSession, close, TypeOK
  <2>5. QED
    BY <2>3, <2>4, <1>0, <1>4 DEF CloseSession, TypeOK
<1>5. CASE Status(c, body)
  <2>1. ok_response(body, "sessions", sessions(c), {}) \in ReplyType
    BY OkType DEF sessions, What
  <2>2. QED
    BY <2>1, <1>0, <1>5, <1>a DEF Status
<1>6. CASE Shutdown(c, body)
  <2>1. ok_response(body, "shutdown", None, {}) \in ReplyType
    BY OkType DEF What
  <2>2. QED
    BY <2>1, <1>0, <1>6, <1>a DEF Shutdown, Ended
<1>7. CASE StrayFinish(c, body)
  <2>1. error_response(body, "no_open_transaction", {}) \in ReplyType
    BY ErrorType DEF What
  <2>2. QED
    BY <2>1, <1>0, <1>7, <1>a DEF StrayFinish
<1>8. CASE WrongSession(c, body)
  <2>1. resolve(slot[c], body.session_id) \in Rule
    BY <1>8 DEF WrongSession, resolve, Rule
  <2>2. refusal_response(body, resolve(slot[c], body.session_id), body.bulky) \in ReplyType
    BY <2>1, Bulky, RefusalType
  <2>3. QED
    BY <2>2, <1>0, <1>8, <1>a DEF WrongSession
<1>9. CASE Query(c, body)
  <2>1. slot[c].session \in SessionType /\ slot[c].session.path \in Paths
    BY <1>0, <1>9, Resolved DEF Query
  <2>2. body.request_id \in RequestIds /\ body.session_id \in Nat \union {None}
    BY <1>9, Decoded, ServeAssumption DEF Query, Request, Body
  <2>3. /\ error_response(body, "no_statement", {}) \in ReplyType
        /\ error_response(body, "begin_failed", {}) \in ReplyType
        /\ diagnostic_response(body, {}) \in ReplyType
    BY ErrorType, DiagnosticType DEF What
  <2>4. ASSUME NEW reply \in ReplyType, Answer(c, reply, TRUE, "loop"),
               UNCHANGED <<client, shared, thread>>
        PROVE  TypedStep(c)
    BY <2>4, <1>0, <1>a
  <2>5. ASSUME NEW w \in Effects(body.statement),
               Answer(c, diagnostic_response(body, w), TRUE, "loop"),
               wrote' = Wrote(w), UNCHANGED <<client, log, catalog, thread>>
        PROVE  TypedStep(c)
    <3>1. w \in SUBSET Writes /\ wrote' \in 0..MaxWrites
      BY <2>5, <1>0, EffectsType
    <3>2. diagnostic_response(body, w) \in ReplyType
      BY <3>1, DiagnosticType
    <3>3. /\ pc' \in [Conns -> Points] /\ out' \in [Conns -> OutType \union {None}]
          /\ out'[c] \in OutType
      BY <2>5, <3>2, <1>0, AnswerType
    <3>4. QED
      BY <2>5, <3>1, <3>3, <1>0 DEF TypeOK
  <2>6. ASSUME NEW w \in Effects(body.statement),
               NEW t \in Begun(slot[c].session.path, body.session_id, w),
               txn' = [txn EXCEPT ![c] = t], wrote' = Wrote(w),
               Working(c, body, "auto"),
               UNCHANGED <<out, slot, loaded, opened, seen, client, log, catalog>>
        PROVE  TypedStep(c)
    <3>1. w \in SUBSET Writes /\ wrote' \in 0..MaxWrites
      BY <2>6, <1>0, EffectsType
    <3>2. t \in TxnType
      BY <2>1, <2>2, <3>1, <1>0, BegunType
    <3>3. QED
      BY <2>6, <2>2, <3>1, <3>2, <1>0 DEF Working, TypeOK, Points
  <2>7. QED
    BY <1>9, <2>3, <2>4, <2>5, <2>6 DEF Query
<1>10. CASE Begin(c, body)
  <2>1. slot[c].session \in SessionType /\ slot[c].session.path \in Paths
    BY <1>0, <1>10, Resolved DEF Begin
  <2>2. body.session_id \in Nat \union {None}
    BY ServeAssumption DEF Body
  <2>3. CASE Answer(c, error_response(body, "begin_failed", {}), FALSE, "loop")
             /\ UNCHANGED txn
    <3>1. error_response(body, "begin_failed", {}) \in ReplyType
      BY ErrorType DEF What
    <3>2. QED
      BY <2>3, <3>1, <1>0, <1>10, <1>a DEF Begin
  <2>4. ASSUME NEW t \in Begun(slot[c].session.path, body.session_id, {}),
               txn' = [txn EXCEPT ![c] = t],
               Answer(c, ok_response(body, "base_generation", t.base, {}), TRUE, "region")
        PROVE  TypedStep(c)
    <3>1. t \in TxnType
      BY <2>1, <2>2, <1>0, BegunType
    <3>2. ok_response(body, "base_generation", t.base, {}) \in ReplyType
      BY <3>1, OkType DEF What, TxnType
    <3>3. /\ pc' \in [Conns -> Points] /\ out' \in [Conns -> OutType \union {None}]
          /\ out'[c] \in OutType
      BY <2>4, <3>2, <1>0, AnswerType
    <3>4. QED
      BY <2>4, <3>1, <3>3, <1>0, <1>10 DEF Begin, TypeOK
  <2>5. QED
    BY <1>10, <2>3, <2>4 DEF Begin
<1>11. CASE RegionCommit(c, body)
  <2>1. txn[c] \in TxnType
    BY <1>11 DEF RegionCommit, Request, Inv, TypeOK, RegionOwnsTransaction
  <2>a. CommitGeneration(txn[c]) \in Nat /\ txn[c].writes \in SUBSET Writes
    BY <2>1 DEF TxnType, CommitGeneration
  <2>2. /\ ok_response(body, "generation", CommitGeneration(txn[c]), txn[c].writes) \in ReplyType
        /\ error_response(body, "commit_refused", txn[c].writes) \in ReplyType
    BY <2>a, ErrorType, OkType DEF What
  <2>3. /\ pc' \in [Conns -> Points] /\ out' \in [Conns -> OutType \union {None}]
        /\ out'[c] \in OutType
    BY <2>2, <1>0, <1>11, AnswerType DEF RegionCommit
  <2>4. log' \in [Paths -> Seq(SUBSET Writes)]
    BY <2>1, <1>0, <1>11, PublishType DEF RegionCommit, TypeOK
  <2>5. QED
    BY <2>3, <2>4, <1>0, <1>11 DEF RegionCommit, LeaveRegion, TypeOK
<1>12. CASE RegionRollback(c, body)
  <2>1. txn[c] \in TxnType
    BY <1>12 DEF RegionRollback, Request, Inv, TypeOK, RegionOwnsTransaction
  <2>2. ok_response(body, "rolled_back", None, txn[c].writes) \in ReplyType
    BY <2>1, OkType DEF What, TxnType
  <2>3. /\ pc' \in [Conns -> Points] /\ out' \in [Conns -> OutType \union {None}]
        /\ out'[c] \in OutType
    BY <2>2, <1>0, <1>12, AnswerType DEF RegionRollback
  <2>4. QED
    BY <2>3, <1>0, <1>12 DEF RegionRollback, LeaveRegion, TypeOK
<1>13. CASE RegionQuery(c, body)
  <2>1. txn[c] \in TxnType
    BY <1>13 DEF RegionQuery, Request, Inv, TypeOK, RegionOwnsTransaction
  <2>2. body.request_id \in RequestIds
    BY <1>13, Decoded DEF RegionQuery, Request
  <2>3. CASE /\ outstanding' = [outstanding EXCEPT ![c] = @ \union {body.request_id}]
             /\ Answer(c, error_response(body, "no_statement", {}), FALSE, "region")
             /\ UNCHANGED <<txn, wrote>>
    <3>1. error_response(body, "no_statement", {}) \in ReplyType
      BY ErrorType DEF What
    <3>2. /\ pc' \in [Conns -> Points] /\ out' \in [Conns -> OutType \union {None}]
          /\ out'[c] \in OutType
      BY <2>3, <3>1, <1>0, AnswerType
    <3>3. QED
      BY <2>2, <2>3, <3>2, <1>0, <1>13 DEF RegionQuery, TypeOK
  <2>4. CASE /\ Answer(c, diagnostic_response(body, {}), TRUE, "region")
             /\ UNCHANGED <<txn, wrote, outstanding>>
    <3>1. diagnostic_response(body, {}) \in ReplyType
      BY DiagnosticType
    <3>2. QED
      BY <2>4, <3>1, <1>0, <1>13, <1>a DEF RegionQuery
  <2>5. ASSUME NEW w \in Effects(body.statement), body.statement # None,
               wrote' = Wrote(w), txn' = [txn EXCEPT ![c] = Ran(@, w)],
               \/ Answer(c, diagnostic_response(body, txn'[c].writes), TRUE, "region")
               \/ Answer(c, envelope_response(body, txn[c].base, txn'[c].writes),
                         TRUE, "region"),
               UNCHANGED outstanding
        PROVE  TypedStep(c)
    <3>1. w \in SUBSET Writes /\ wrote' \in 0..MaxWrites
      BY <2>5, <1>0, EffectsType
    <3>2. Ran(txn[c], w) \in TxnType
      BY <2>1, <3>1 DEF Ran, TxnType
    <3>3. txn' \in [Conns -> TxnType \union {None}] /\ txn'[c].writes \in SUBSET Writes
      BY <2>5, <3>2, <1>0 DEF TypeOK, TxnType
    <3>4. /\ diagnostic_response(body, txn'[c].writes) \in ReplyType
          /\ envelope_response(body, txn[c].base, txn'[c].writes) \in ReplyType
      BY <2>1, <2>5, <3>3, DiagnosticType, EnvelopeType DEF TxnType
    <3>5. /\ pc' \in [Conns -> Points] /\ out' \in [Conns -> OutType \union {None}]
          /\ out'[c] \in OutType
      BY <2>5, <3>4, <1>0, AnswerType
    <3>6. QED
      BY <2>5, <3>1, <3>3, <3>5, <1>0, <1>13 DEF RegionQuery, TypeOK
  <2>6. QED
    BY <1>13, <2>3, <2>4, <2>5 DEF RegionQuery
<1>14. CASE RegionOther(c, body)
  <2>1. txn[c] \in TxnType
    BY <1>14 DEF RegionOther, Request, Inv, TypeOK, RegionOwnsTransaction
  <2>2. /\ error_response(body, "transaction_open", {}) \in ReplyType
        /\ ok_response(body, "in_transaction", txn[c].base, {}) \in ReplyType
    BY <2>1, ErrorType, OkType DEF What, TxnType
  <2>3. QED
    BY <2>2, <1>0, <1>14, <1>a DEF RegionOther
<1>15. QED
  BY <1>1, <1>2, <1>3, <1>4, <1>5, <1>6, <1>7, <1>8, <1>9, <1>10, <1>11, <1>12, <1>13,
     <1>14 DEF Receive

(* Every step a thread takes on its own keeps the types.                   *)
LEMMA WorkType ==
  ASSUME Inv, NEW c \in Conns, Work(c)
  PROVE  TypedStep(c)
<1> USE DEF TypedStep, shared
<1>0. TypeOK
  BY DEF Inv
<1>1. CASE LoadCatalog(c)
  <2>1. req[c] \in Bodies
    BY <1>1 DEF LoadCatalog, Inv, TypeOK, Stages
  <2>2. CASE /\ loaded' = [loaded EXCEPT ![c] = catalog]
             /\ pc' = [pc EXCEPT ![c] = "loaded"]
             /\ UNCHANGED <<out, outstanding, req, seen>>
    BY <2>2, <1>0, <1>1 DEF LoadCatalog, TypeOK, Points
  <2>3. CASE Dispatched(c, error_response(req[c], "catalog_error", {}))
    <3>1. error_response(req[c], "catalog_error", {}) \in ReplyType
      BY <2>1, ErrorType DEF What
    <3>2. QED
      BY <2>3, <3>1, <1>0, <1>1, DispatchedType DEF LoadCatalog, TypeOK
  <2>4. QED
    BY <1>1, <2>2, <2>3 DEF LoadCatalog
<1>2. CASE SlotOpen(c)
  <2> DEFINE name == req[c].database
             path == loaded[c][name]
  <2>1. req[c] \in Bodies /\ name \in Names /\ loaded[c] \in Catalogs
    BY <1>2 DEF SlotOpen, Inv, TypeOK, Stages
  <2>2. path \in Paths \union {None} /\ req[c].bulky \in BOOLEAN
    BY <2>1, Bulky, ServeAssumption
  <2>3. slot[c].next \in Nat
    BY <1>0 DEF TypeOK
  <2> HIDE DEF name, path
  <2>4. /\ refusal_response(req[c], "second_session_on_one_connection", req[c].bulky)
             \in ReplyType
        /\ error_response(req[c], "unknown_name", {}) \in ReplyType
        /\ error_response(req[c], "storage", {}) \in ReplyType
        /\ ok_response(req[c], "session_id", slot[c].next, {}) \in ReplyType
    BY <2>1, <2>2, <2>3, RefusalType, ErrorType, OkType DEF What, Rule
  <2>5. ASSUME NEW reply \in ReplyType, Dispatched(c, reply), UNCHANGED <<slot, opened>>
        PROVE  TypedStep(c)
    BY <2>5, <1>0, <1>2, DispatchedType DEF SlotOpen, TypeOK
  <2>6. ASSUME path # None, slot' = [slot EXCEPT ![c] = Mint(@, name, path)],
               opened' = [opened EXCEPT ![c] = @ \union {<<slot'[c].session.id, path>>}],
               Dispatched(c, ok_response(req[c], "session_id", slot'[c].session.id, {}))
        PROVE  TypedStep(c)
    <3>1. /\ Mint(slot[c], name, path) \in [session : SessionType \union {None}, next : Nat]
          /\ Mint(slot[c], name, path).session.id = slot[c].next
      BY <2>1, <2>2, <2>3, <2>6 DEF Mint, SessionType
    <3>2. /\ slot' \in [Conns -> [session : SessionType \union {None}, next : Nat]]
          /\ slot'[c].session.id = slot[c].next
      BY <3>1, <2>6, <1>0 DEF TypeOK
    <3>3. opened' \in [Conns -> SUBSET (Nat \X Paths)]
      BY <3>2, <2>2, <2>3, <2>6, <1>0 DEF TypeOK
    <3>4. QED
      BY <2>4, <2>6, <3>2, <3>3, <1>0, <1>2, DispatchedType DEF SlotOpen, TypeOK
  <2>7. QED
    BY <1>2, <2>4, <2>5, <2>6 DEF SlotOpen, name, path
<1>3. CASE AutoCommit(c)
  <2>1. txn[c] \in TxnType /\ req[c] \in Bodies /\ req[c].statement # None
    BY <1>3 DEF AutoCommit, Inv, TypeOK, Stages, RegionOwnsTransaction
  <2>2. CommitGeneration(txn[c]) \in Nat /\ txn[c].writes \in SUBSET Writes
    BY <2>1 DEF TxnType, CommitGeneration
  <2>3. /\ envelope_response(req[c], CommitGeneration(txn[c]), txn[c].writes) \in ReplyType
        /\ error_response(req[c], "commit_refused", txn[c].writes) \in ReplyType
    BY <2>1, <2>2, EnvelopeType, ErrorType DEF What
  <2>4. log' \in [Paths -> Seq(SUBSET Writes)]
    BY <2>1, <1>0, <1>3, PublishType DEF AutoCommit, TypeOK
  <2>5. QED
    BY <2>3, <2>4, <1>0, <1>3, DispatchedType DEF AutoCommit, TypeOK
<1>4. QED
  BY <1>1, <1>2, <1>3 DEF Work

(* Every step, and every stutter, keeps the types.                         *)
LEMMA NextType == Inv /\ [Next]_vars => TypeOK'
<1> SUFFICES ASSUME Inv, [Next]_vars PROVE TypeOK'
  OBVIOUS
<1>0. TypeOK /\ FALSE \in BOOLEAN
  BY DEF Inv
<1>1. CASE UNCHANGED vars
  BY <1>0, <1>1 DEF TypeOK, vars, shared, thread
<1>2. ASSUME NEW c \in Conns, Connect(c) PROVE TypeOK'
  BY <1>0, <1>2 DEF Connect, TypeOK, Points, shared, thread
<1>3. ASSUME NEW c \in Conns, Finish(c) \/ Leave(c) PROVE TypeOK'
  BY <1>0, <1>3 DEF Finish, Leave, TypeOK, shared, thread
<1>4. ASSUME NEW c \in Conns, ReadClosed(c) \/ ReadFailed(c) PROVE TypeOK'
  BY <1>0, <1>4, ReturnType DEF ReadClosed, ReadFailed, Ended
<1>5. ASSUME NEW c \in Conns, ReadTooLarge(c) PROVE TypeOK'
  <2>1. Answer(c, frame_too_large, FALSE, "TransportFailed")
    BY <1>5 DEF ReadTooLarge
  <2>2. /\ pc' \in [Conns -> Points] /\ out' \in [Conns -> OutType \union {None}]
        /\ out'[c] \in OutType
    BY <2>1, <1>0, FixedType, AnswerType DEF Ended
  <2>3. QED
    BY <1>0, <1>5, <2>2 DEF ReadTooLarge, TypeOK, shared, thread
<1>6. ASSUME NEW c \in Conns, NEW body \in Bodies, Receive(c, body) PROVE TypeOK'
  BY <1>6, ReceiveType DEF TypedStep
<1>7. ASSUME NEW c \in Conns, Work(c) PROVE TypeOK'
  BY <1>7, WorkType DEF TypedStep
<1>8. ASSUME NEW c \in Conns, Send(c) PROVE TypeOK'
  <2>1. out[c] \in OutType
    BY <1>8 DEF Send, Inv, TypeOK, Stages
  <2>2. AfterSend(c) \in {"loop", "region"} \union Ended
    BY <2>1 DEF AfterSend, OutType, Ended
  <2>3. CASE AfterSend(c) \in Ended
    BY <2>3, <1>0, <1>8, ReturnType DEF Send
  <2>4. CASE AfterSend(c) \notin Ended
    BY <2>2, <2>4, <1>0, <1>8 DEF Send, TypeOK, Points, shared, thread
  <2>5. QED
    BY <2>3, <2>4
<1>9. CASE CatalogChange
  BY <1>0, <1>9 DEF CatalogChange, TypeOK
<1>10. QED
  BY <1>1, <1>2, <1>3, <1>4, <1>5, <1>6, <1>7, <1>8, <1>9 DEF Next, Step

(* The part of the invariant about one connection.                         *)
Held(c) ==
  /\ pc[c] \in {"opening", "loaded", "auto"} => req[c] # None
  /\ pc[c] \in {"opening", "loaded"} => req[c].database \in Names
  /\ pc[c] = "loaded" => loaded[c] # None
  /\ pc[c] = "auto" => req[c].statement # None
  /\ pc[c] = "reply" <=> out[c] # None
  /\ txn[c] # None <=> \/ pc[c] \in {"region", "auto"}
                       \/ pc[c] = "reply" /\ out[c].then = "region"
  /\ txn[c] # None => slot[c].session # None /\ txn[c].path = slot[c].session.path

(* The invariant is that of each connection.                               *)
LEMMA InvByConnection ==
  ASSUME TypeOK PROVE (\A c \in Conns : Held(c)) <=> (Stages /\ RegionOwnsTransaction)
BY DEF Held, Stages, RegionOwnsTransaction

(* A thread's step touches no other connection.                            *)
Others(c) ==
  \A d \in Conns \ {c} :
    /\ pc'[d] = pc[d] /\ req'[d] = req[d] /\ loaded'[d] = loaded[d] /\ out'[d] = out[d]
    /\ txn'[d] = txn[d] /\ slot'[d] = slot[d]

(* So a step that keeps its own connection's part keeps every part.        *)
LEMMA HeldByOthers ==
  ASSUME NEW c \in Conns, Others(c), \A d \in Conns : Held(d), Held(c)'
  PROVE  \A d \in Conns : Held(d)'
BY DEF Others, Held

(* What a frame makes of the connection it arrives on.                     *)
LEMMA ReceiveHeld ==
  ASSUME Inv, NEW c \in Conns, Held(c), NEW body \in Bodies, Receive(c, body)
  PROVE  Held(c)' /\ Others(c)
<1>0. TypedStep(c) /\ TypeOK /\ None \notin OutType /\ None \notin TxnType
  BY ReceiveType, ServeAssumption DEF Inv
<1> USE DEF shared, thread, Held, Others, TypeOK, TypedStep, Ended
<1>1. CASE Hello(c, body)
  BY <1>0, <1>1 DEF Hello, Answer
<1>2. CASE Refuse(c, body)
  BY <1>0, <1>2 DEF Refuse, Answer
<1>3. CASE OpenSession(c, body)
  <2>1. body.database \in Names \union {None} /\ None \notin Bodies
    BY <1>3, Decoded, ServeAssumption DEF OpenSession, Request
  <2>2. QED
    BY <2>1, <1>0, <1>3 DEF OpenSession, Answer, Working, Request
<1>4. CASE CloseSession(c, body)
  BY <1>0, <1>4 DEF CloseSession, Request, Answer
<1>5. CASE Status(c, body)
  BY <1>0, <1>5 DEF Status, Request, Answer
<1>6. CASE Shutdown(c, body)
  BY <1>0, <1>6 DEF Shutdown, Request, Answer
<1>7. CASE StrayFinish(c, body)
  BY <1>0, <1>7 DEF StrayFinish, Request, Answer
<1>8. CASE WrongSession(c, body)
  BY <1>0, <1>8 DEF WrongSession, Request, Answer
<1>9. CASE Query(c, body)
  <2>1. slot[c].session # None /\ None \notin Bodies
    BY <1>0, <1>9, Resolved, ServeAssumption DEF Query
  <2>2. ASSUME NEW w \in Effects(body.statement),
               NEW t \in Begun(slot[c].session.path, body.session_id, w),
               txn' = [txn EXCEPT ![c] = t]
        PROVE  txn'[c] # None /\ txn'[c].path = slot[c].session.path
    <3>1. w \in SUBSET Writes
      BY <1>0, EffectsType
    <3>2. slot[c].session.path \in Paths /\ body.session_id \in Nat \union {None}
      BY <1>0, <1>9, Resolved, ServeAssumption DEF Query, Body
    <3>3. t \in TxnType
      BY <1>0, <3>1, <3>2, BegunType
    <3>4. t.path = slot[c].session.path
      BY DEF Begun
    <3>5. QED
      BY <2>2, <3>3, <3>4, <1>0
  <2>3. QED
    BY <2>1, <2>2, <1>0, <1>9 DEF Query, Request, Answer, Working
<1>10. CASE Begin(c, body)
  <2>1. slot[c].session # None
    BY <1>0, <1>10, Resolved, ServeAssumption DEF Begin
  <2>2. ASSUME NEW t \in Begun(slot[c].session.path, body.session_id, {}),
               txn' = [txn EXCEPT ![c] = t]
        PROVE  txn'[c] # None /\ txn'[c].path = slot[c].session.path
    <3>1. slot[c].session.path \in Paths /\ body.session_id \in Nat \union {None}
      BY <1>0, <1>10, Resolved, ServeAssumption DEF Begin, Body
    <3>2. t \in TxnType
      BY <1>0, <3>1, BegunType
    <3>3. t.path = slot[c].session.path
      BY DEF Begun
    <3>4. QED
      BY <2>2, <3>2, <3>3, <1>0
  <2>3. QED
    BY <2>1, <2>2, <1>0, <1>10 DEF Begin, Request, Answer
<1>11. CASE RegionCommit(c, body)
  BY <1>0, <1>11 DEF RegionCommit, LeaveRegion, Request, Answer
<1>12. CASE RegionRollback(c, body)
  BY <1>0, <1>12 DEF RegionRollback, LeaveRegion, Request, Answer
<1>13. CASE RegionQuery(c, body)
  <2>1. txn[c] \in TxnType
    BY <1>0, <1>13 DEF RegionQuery, Request
  <2>2. ASSUME NEW w \in Effects(body.statement), txn' = [txn EXCEPT ![c] = Ran(@, w)]
        PROVE  txn'[c] # None /\ txn'[c].path = txn[c].path
    <3>1. Ran(txn[c], w) \in TxnType /\ Ran(txn[c], w).path = txn[c].path
      BY <2>1, <1>0, EffectsType DEF Ran, TxnType
    <3>2. QED
      BY <2>2, <3>1, <1>0
  <2>3. QED
    BY <2>1, <2>2, <1>0, <1>13 DEF RegionQuery, Request, Answer
<1>14. CASE RegionOther(c, body)
  BY <1>0, <1>14 DEF RegionOther, Request, Answer
<1>15. QED
  BY <1>1, <1>2, <1>3, <1>4, <1>5, <1>6, <1>7, <1>8, <1>9, <1>10, <1>11, <1>12, <1>13,
     <1>14 DEF Receive

(* What a thread's own steps make of its connection.                       *)
LEMMA WorkHeld ==
  ASSUME Inv, NEW c \in Conns, Held(c), Work(c)
  PROVE  Held(c)' /\ Others(c)
<1>0. TypedStep(c) /\ TypeOK /\ None \notin OutType /\ None \notin Catalogs
  BY WorkType, ServeAssumption DEF Inv
<1> USE DEF shared, Held, Others, TypeOK, TypedStep, Dispatched, Answer
<1>1. CASE LoadCatalog(c)
  BY <1>0, <1>1 DEF LoadCatalog
<1>2. CASE SlotOpen(c)
  BY <1>0, <1>2 DEF SlotOpen
<1>3. CASE AutoCommit(c)
  BY <1>0, <1>3 DEF AutoCommit
<1>4. QED
  BY <1>1, <1>2, <1>3 DEF Work

(* What any step of a connection makes of it.                              *)
LEMMA StepHeld ==
  ASSUME Inv, NEW c \in Conns, Held(c), Connect(c) \/ Step(c)
  PROVE  Held(c)' /\ Others(c)
<1>0. TypeOK /\ None \notin OutType /\ None \notin TxnType
  BY ServeAssumption DEF Inv
<1>1. CASE Connect(c)
  BY <1>0, <1>1 DEF Connect, TypeOK, Held, Others, thread, Ended
<1>2. CASE Finish(c) \/ Leave(c)
  BY <1>0, <1>2 DEF Finish, Leave, Held, Others, thread
<1>3. CASE ReadClosed(c) \/ ReadFailed(c)
  BY <1>0, <1>3 DEF ReadClosed, ReadFailed, Return, TypeOK, Held, Others
<1>4. CASE ReadTooLarge(c)
  <2>1. Answer(c, frame_too_large, FALSE, "TransportFailed") /\ FALSE \in BOOLEAN
    BY <1>4 DEF ReadTooLarge
  <2>2. out'[c] \in OutType
    BY <2>1, <1>0, FixedType, AnswerType DEF Ended
  <2>3. QED
    BY <1>0, <1>4, <2>2 DEF ReadTooLarge, Answer, TypeOK, Held, Others, thread
<1>5. ASSUME NEW body \in Bodies, Receive(c, body) PROVE Held(c)' /\ Others(c)
  BY <1>5, ReceiveHeld
<1>6. CASE Work(c)
  BY <1>6, WorkHeld
<1>7. CASE Send(c)
  <2>1. out[c] \in OutType
    BY <1>0, <1>7 DEF Send, TypeOK, Held
  <2>2. AfterSend(c) \in {"loop", "region"} \union Ended
    BY <2>1 DEF AfterSend, OutType, Ended
  <2>3. CASE AfterSend(c) \in Ended
    BY <2>3, <1>0, <1>7 DEF Send, Return, TypeOK, Held, Others, Ended
  <2>4. CASE AfterSend(c) \notin Ended
    <3>1. AfterSend(c) = out[c].then
      BY <2>4 DEF AfterSend, Ended
    <3>2. QED
      BY <2>2, <2>4, <3>1, <1>0, <1>7 DEF Send, TypeOK, Held, Others, thread
  <2>5. QED
    BY <2>3, <2>4
<1>8. QED
  BY <1>1, <1>2, <1>3, <1>4, <1>5, <1>6, <1>7 DEF Step

(* Every step, and every stutter, keeps the invariant.                     *)
LEMMA NextInv == Inv /\ [Next]_vars => Inv'
<1> SUFFICES ASSUME Inv, [Next]_vars PROVE Inv'
  OBVIOUS
<1>0. TypeOK /\ TypeOK' /\ \A c \in Conns : Held(c)
  BY NextType, InvByConnection DEF Inv
<1> SUFFICES \A c \in Conns : Held(c)'
  BY <1>0 DEF Inv, Held, Stages, RegionOwnsTransaction
<1>1. CASE UNCHANGED vars
  BY <1>0, <1>1 DEF Held, vars, shared, thread
<1>2. ASSUME NEW c \in Conns, Connect(c) \/ Step(c) PROVE \A d \in Conns : Held(d)'
  BY <1>0, <1>2, StepHeld, HeldByOthers
<1>3. CASE CatalogChange
  BY <1>0, <1>3 DEF CatalogChange, Held
<1>4. QED
  BY <1>1, <1>2, <1>3 DEF Next

(* The initial states satisfy the invariant.                               *)
LEMMA InitInv == Init => Inv
<1> SUFFICES ASSUME Init PROVE Inv
  OBVIOUS
<1>1. TypeOK
  BY ServeAssumption DEF Init, TypeOK, NewSlot, Points
<1>2. QED
  BY <1>1 DEF Init, Inv, Stages, RegionOwnsTransaction

(* The invariant holds in every behaviour.                                 *)
THEOREM InvHolds == Spec => []Inv
BY InitInv, NextInv, PTL DEF Spec

(* Types, for any set of connections, databases, catalogs and messages.    *)
THEOREM TypeCorrect == Spec => []TypeOK
<1>1. Inv => TypeOK
  BY DEF Inv
<1>2. QED
  BY InvHolds, <1>1, PTL

(* Whatever the clients send, and wherever a connection breaks, a thread   *)
(* holds a transaction exactly while the code is in the transaction's      *)
(* scope (serve.rs:299, serve.rs:460), and over the database of the        *)
(* session it still has.                                                   *)
THEOREM RegionOwnership == Spec => []RegionOwnsTransaction
<1>1. Inv => RegionOwnsTransaction
  BY DEF Inv
<1>2. QED
  BY InvHolds, <1>1, PTL
=============================================================================
