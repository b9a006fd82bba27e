------------------------------- MODULE Serve -------------------------------
(***************************************************************************)
(* The connection loop, sessions and the transaction region                *)
(* (src/src/serve.rs, src/src/session.rs).                                 *)
(*                                                                         *)
(* Every connection c runs serve_connection in a thread of its own.  The   *)
(* threads share nothing but the databases and the catalog file.  pc[c] is *)
(* where the thread is: at one of the three reads ("handshake", "loop",    *)
(* "region"), inside dispatch ("opening", "loaded", "auto"), about to      *)
(* write a reply ("reply"), or returned with a value of Ended.             *)
(*                                                                         *)
(* The Engine (nostdb-core) is external.  A database is the log of the     *)
(* write sets committed to it, a write is a fresh number, and every Engine *)
(* call that returns a Result may fail.                                    *)
(***************************************************************************)
EXTENDS Message, Sequences, Functions

CONSTANTS
  Conns,          \* connections, each served by one thread at a time
  Paths,          \* database files
  Catalogs,       \* the documents other processes put at the catalog path
  Bodies,         \* the frame bodies a client may send
  MaxResultRows,  \* Limits::max_result_rows
  MaxSessions,    \* bound: session ids one connection mints
  MaxWrites       \* bound: writes made in one behaviour

VARIABLES
  pc,           \* where each connection's thread is
  client,       \* "open", "finished" (sends no more) or "gone" (reads no more)
  slot,         \* each connection's Slot: its session and the next id
  txn,          \* the transaction each thread holds, or None
  outstanding,  \* the set of request ids in the scope the thread is in
  req,          \* the request dispatch is working on, or None
  loaded,       \* the catalog dispatch has loaded, or None
  out,          \* the reply about to be written, or None
  log,          \* log[p]: the write sets committed to database p, in order
  catalog,      \* the document at the catalog path
  wrote,        \* the number of writes made so far
  opened,       \* history: the <<id, path>> pairs opened on the connection
  seen          \* history: the catalogs in place since open_session arrived

shared == <<log, catalog, wrote>>
thread == <<slot, txn, outstanding, req, loaded, opened, seen>>
vars == <<pc, client, out, shared, thread>>

Ended == {"ClientClosed", "HandshakeRefused", "ShutdownRequested", "TransportFailed"}

Points == {"idle", "handshake", "loop", "region", "opening", "loaded", "auto", "reply"}
            \union Ended

Writes == 1..MaxWrites

(* The generation a database is at: 1 when created, one more per commit.   *)
Generation(p) == Len(log[p]) + 1

SessionType == [id : Nat, name : Names, path : Paths]
TxnType == [path : Paths, base : Nat, writes : SUBSET Writes, named : Nat \union {None}]
(* What a reply says: the rule it refuses by, or one of the following.     *)
What == Rule \union
  {"welcome", "refused", "session_id", "closed", "sessions", "shutdown", "result",
   "base_generation", "generation", "rolled_back", "in_transaction", "diagnostics",
   "max_result_rows", "names_no_database", "catalog_error", "unknown_name", "storage",
   "no_statement", "begin_failed", "commit_refused", "no_open_transaction",
   "transaction_open"}

ReplyType == [request : Bodies \union {None}, outcome : {"ok", "error"}, what : What,
              code : {None, "SERVER_PROTOCOL_UNSUPPORTED"}, value : Nat \union {None},
              writes : SUBSET Writes, large : BOOLEAN]
OutType == [reply : ReplyType, must : BOOLEAN, then : {"loop", "region"} \union Ended]

ASSUME ServeAssumption ==
  /\ Bodies \subseteq Body
  /\ Catalogs \subseteq [Names -> Paths \union {None}] /\ Catalogs # {}
  /\ MaxResultRows \in Nat /\ MaxSessions \in Nat /\ MaxWrites \in Nat
  /\ None \notin Bodies /\ None \notin Catalogs /\ None \notin Paths
  /\ None \notin SessionType
  /\ None \notin TxnType /\ None \notin OutType
-----------------------------------------------------------------------------
(* Replies.  request, writes and code are what the reply is about: the     *)
(* request it answers, the write set whose fate it reports and the         *)
(* diagnostic code it carries.  large says that write_frame refuses it.    *)

response(request, outcome, what, diagnostic, value, writes, large) ==
  [request |-> request, outcome |-> outcome, what |-> what, code |-> diagnostic,
   value |-> value, writes |-> writes, large |-> large]

ok_response(request, what, value, writes) ==
  response(request, "ok", what, None, value, writes, request.bulky)

error_response(request, what, writes) ==
  response(request, "error", what, None, None, writes, request.bulky)

diagnostic_response(request, writes) ==
  response(request, "error", "diagnostics", None, None, writes, request.bulky)

refusal_response(request, rule, large) ==
  response(request, "error", rule, code(rule), None, {}, large)

(* message::welcome, message::refused and the answer to a frame that is    *)
(* too large are fixed messages, whatever the client sent.                 *)
welcome == response(None, "ok", "welcome", None, None, {}, FALSE)

refused(body) ==
  response(body, "error", "refused", "SERVER_PROTOCOL_UNSUPPORTED", None, {}, FALSE)

frame_too_large == response(None, "error", "frame_too_large", None, None, {}, FALSE)

(* The row ceiling is applied to a finished result, after the commit of a  *)
(* statement that runs in a transaction of its own.                        *)
envelope_response(request, generation, writes) ==
  IF request.statement.rows > MaxResultRows
    THEN error_response(request, "max_result_rows", writes)
    ELSE response(request, "ok", "result", None, generation, writes,
                  request.bulky \/ ~request.statement.fits)
-----------------------------------------------------------------------------
(* session.rs *)

NewSlot == [session |-> None, next |-> 1]

(* Slot::resolve: the rule a request naming session `named` breaks.  A     *)
(* request that names none gets the connection's own.                      *)
resolve(s, named) ==
  IF s.session = None \/ (named # None /\ named # s.session.id)
    THEN "unknown_session" ELSE None

(* Mutant of Mint: the id counter is not advanced.                         *)
MintReuses(s, name, path) ==
  [session |-> [id |-> s.next, name |-> name, path |-> path], next |-> s.next]

(* The part of Slot::open after Database::open succeeded: mint the id and  *)
(* keep the session.                                                       *)
Mint(s, name, path) ==
  [session |-> [id |-> s.next, name |-> name, path |-> path], next |-> s.next + 1]

close(s) == [session |-> None, next |-> s.next]
-----------------------------------------------------------------------------
(* The Engine, external. *)

(* A transaction begun over database p by a request naming session `named` *)
(* whose statements wrote w.  Its base may be behind what other handles of *)
(* the database have committed.                                            *)
Begun(p, named, w) ==
  {[path |-> p, base |-> b, writes |-> w, named |-> named] : b \in 1..Generation(p)}

Ran(t, w) == [path |-> t.path, base |-> t.base, writes |-> t.writes \union w,
              named |-> t.named]

(* What running a statement may add to its transaction's write set.  A     *)
(* writing statement may turn out to change nothing.                       *)
Effects(statement) ==
  {{}} \union (IF statement.writes /\ wrote < MaxWrites THEN {{wrote + 1}} ELSE {})

Wrote(w) == IF w = {} THEN wrote ELSE wrote + 1

(* A commit publishes the whole write set as the next generation, and only *)
(* over the generation the transaction was based on.                       *)
CanCommit(t) == t.writes = {} \/ t.base = Generation(t.path)

Publish(t) == [log EXCEPT ![t.path] = IF t.writes = {} THEN @ ELSE Append(@, t.writes)]

CommitGeneration(t) == IF t.writes = {} THEN t.base ELSE t.base + 1
-----------------------------------------------------------------------------
Init ==
  /\ pc = [c \in Conns |-> "idle"]
  /\ client = [c \in Conns |-> "gone"]
  /\ slot = [c \in Conns |-> NewSlot]
  /\ txn = [c \in Conns |-> None]
  /\ outstanding = [c \in Conns |-> {}]
  /\ req = [c \in Conns |-> None]
  /\ loaded = [c \in Conns |-> None]
  /\ out = [c \in Conns |-> None]
  /\ log = [p \in Paths |-> <<>>]
  /\ catalog \in Catalogs
  /\ wrote = 0
  /\ opened = [c \in Conns |-> {}]
  /\ seen = [c \in Conns |-> {}]

(* Write `reply` next.  When it cannot be written, a reply that must be    *)
(* sent ends the connection and any other is dropped.                      *)
Answer(c, reply, must, then) ==
  /\ pc' = [pc EXCEPT ![c] = "reply"]
  /\ out' = [out EXCEPT ![c] = [reply |-> reply, must |-> must, then |-> then]]

(* serve_connection returns: its slot, a region's transaction and the      *)
(* stream are dropped.                                                     *)
Return(c, ended) ==
  /\ pc' = [pc EXCEPT ![c] = ended]
  /\ client' = [client EXCEPT ![c] = "gone"]
  /\ out' = [out EXCEPT ![c] = None]
  /\ slot' = [slot EXCEPT ![c] = NewSlot]
  /\ txn' = [txn EXCEPT ![c] = None]
  /\ outstanding' = [outstanding EXCEPT ![c] = {}]
  /\ req' = [req EXCEPT ![c] = None]
  /\ loaded' = [loaded EXCEPT ![c] = None]
  /\ opened' = [opened EXCEPT ![c] = {}]
  /\ seen' = [seen EXCEPT ![c] = {}]

(* A frame arrived at the loop's, or the region's, read and decoded.       *)
Request(c, where, body) ==
  /\ pc[c] = where
  /\ decode_request(body, outstanding[c]) = None
-----------------------------------------------------------------------------
(* The client and the other processes. *)

(* A client connects and a thread starts serving it.                       *)
Connect(c) ==
  /\ pc[c] \in {"idle"} \union Ended
  /\ pc' = [pc EXCEPT ![c] = "handshake"]
  /\ client' = [client EXCEPT ![c] = "open"]
  /\ UNCHANGED <<out, shared, thread>>

(* The client closes its sending half, or the whole connection.  Frames it *)
(* sent before stay readable.                                              *)
Finish(c) ==
  /\ pc[c] \notin {"idle"} \union Ended /\ client[c] = "open"
  /\ client' = [client EXCEPT ![c] = "finished"]
  /\ UNCHANGED <<pc, out, shared, thread>>

Leave(c) ==
  /\ pc[c] \notin {"idle"} \union Ended /\ client[c] # "gone"
  /\ client' = [client EXCEPT ![c] = "gone"]
  /\ UNCHANGED <<pc, out, shared, thread>>

(* Another process replaces the catalog document.                          *)
CatalogChange ==
  /\ \E d \in Catalogs \ {catalog} :
       /\ catalog' = d
       /\ seen' = [c \in Conns |-> IF seen[c] = {} THEN {} ELSE seen[c] \union {d}]
  /\ UNCHANGED <<pc, client, out, log, wrote, slot, txn, outstanding, req, loaded, opened>>
-----------------------------------------------------------------------------
(* serve_connection: the handshake and the loop's read. *)

Hello(c, body) ==
  /\ pc[c] = "handshake"
  /\ IF HandshakeRefusal(body) = None
       THEN Answer(c, welcome, TRUE, "loop")
       ELSE Answer(c, refused(body), FALSE, "HandshakeRefused")
  /\ UNCHANGED <<client, shared, thread>>

(* Mutant of ReadClosed: a region whose client disconnects commits.        *)
ReadClosedCommits(c) ==
  /\ pc[c] \in {"handshake", "loop", "region"} /\ client[c] # "open"
  /\ Return(c, "ClientClosed")
  /\ log' = IF pc[c] = "region" /\ CanCommit(txn[c]) THEN Publish(txn[c]) ELSE log
  /\ UNCHANGED <<catalog, wrote>>

(* Mutant of ReadClosed: the region does not notice the end of the stream. *)
ReadClosedInLoop(c) ==
  /\ pc[c] \in {"handshake", "loop"} /\ client[c] # "open"
  /\ Return(c, "ClientClosed")
  /\ UNCHANGED shared

(* FrameError::Closed at any of the three reads; the region rolls back.    *)
ReadClosed(c) ==
  /\ pc[c] \in {"handshake", "loop", "region"} /\ client[c] # "open"
  /\ Return(c, "ClientClosed")
  /\ UNCHANGED shared

(* A truncated, non-UTF-8 or failed frame at any read, and one too large   *)
(* at the handshake's or the region's.                                     *)
ReadFailed(c) ==
  /\ pc[c] \in {"handshake", "loop", "region"}
  /\ Return(c, "TransportFailed")
  /\ UNCHANGED shared

ReadTooLarge(c) ==
  /\ pc[c] = "loop"
  /\ Answer(c, frame_too_large, FALSE, "TransportFailed")
  /\ UNCHANGED <<client, shared, thread>>

(* A request that does not decode.  In the region the refusal must be sent.*)
Refuse(c, body) ==
  /\ pc[c] \in {"loop", "region"}
  /\ LET rule == decode_request(body, outstanding[c]) IN
       /\ rule # None
       /\ Answer(c, refusal_response(body, rule, body.bulky /\ EchoesClient(body, rule)),
                 pc[c] = "region", pc[c])
  /\ UNCHANGED <<client, shared, thread>>

(* send: the reply leaves, or it cannot: the client reads no more, or the  *)
(* frame is larger than the maximum.                                       *)
Delivered(c) == client[c] # "gone" /\ ~out[c].reply.large

AfterSend(c) ==
  IF Delivered(c) \/ ~out[c].must THEN out[c].then ELSE "TransportFailed"

Send(c) ==
  /\ pc[c] = "reply"
  /\ IF AfterSend(c) \in Ended
       THEN Return(c, AfterSend(c))
       ELSE /\ pc' = [pc EXCEPT ![c] = AfterSend(c)]
            /\ out' = [out EXCEPT ![c] = None]
            /\ UNCHANGED <<client, thread>>
  /\ UNCHANGED shared
-----------------------------------------------------------------------------
(* dispatch.  The request is outstanding from the moment it decodes until  *)
(* dispatch returns; an operation that answers in one step leaves the set  *)
(* as it was.                                                              *)

Working(c, body, where) ==
  /\ pc' = [pc EXCEPT ![c] = where]
  /\ req' = [req EXCEPT ![c] = body]
  /\ outstanding' = [outstanding EXCEPT ![c] = @ \union {body.request_id}]

(* dispatch returns Reply::Send for the request it was working on.         *)
Dispatched(c, reply) ==
  /\ Answer(c, reply, TRUE, "loop")
  /\ req' = [req EXCEPT ![c] = None]
  /\ outstanding' = [outstanding EXCEPT ![c] = @ \ {req[c].request_id}]
  /\ loaded' = [loaded EXCEPT ![c] = None]
  /\ seen' = [seen EXCEPT ![c] = {}]

OpenSession(c, body) ==
  /\ Request(c, "loop", body) /\ body.operation = "open_session"
  /\ \/ /\ body.database = None
        /\ Answer(c, error_response(body, "names_no_database", {}), TRUE, "loop")
        /\ UNCHANGED thread
     \/ /\ body.database # None
        /\ Working(c, body, "opening")
        /\ seen' = [seen EXCEPT ![c] = {catalog}]
        /\ UNCHANGED <<out, slot, txn, loaded, opened>>
  /\ UNCHANGED <<client, shared>>

(* Mutant of LoadCatalog: a document kept from earlier is used.            *)
LoadCatalogKept(c) ==
  /\ pc[c] = "opening"
  /\ \E d \in Catalogs : loaded' = [loaded EXCEPT ![c] = d]
  /\ pc' = [pc EXCEPT ![c] = "loaded"]
  /\ UNCHANGED <<client, out, slot, txn, outstanding, req, opened, seen, shared>>

(* Catalog::load reads whatever document is in place at that moment.       *)
LoadCatalog(c) ==
  /\ pc[c] = "opening"
  /\ \/ /\ loaded' = [loaded EXCEPT ![c] = catalog]
        /\ pc' = [pc EXCEPT ![c] = "loaded"]
        /\ UNCHANGED <<out, outstanding, req, seen>>
     \/ Dispatched(c, error_response(req[c], "catalog_error", {}))
  /\ UNCHANGED <<client, slot, txn, opened, shared>>

(* Slot::open, with the entry's path taken from the loaded document.       *)
SlotOpen(c) ==
  LET name == req[c].database
      path == loaded[c][name]
  IN
  /\ pc[c] = "loaded"
  /\ \/ /\ slot[c].session # None
        /\ Dispatched(c, refusal_response(req[c], "second_session_on_one_connection",
                                          req[c].bulky))
        /\ UNCHANGED <<slot, opened>>
     \/ /\ slot[c].session = None /\ path = None
        /\ Dispatched(c, error_response(req[c], "unknown_name", {}))
        /\ UNCHANGED <<slot, opened>>
     \/ /\ slot[c].session = None /\ path # None
        /\ Dispatched(c, error_response(req[c], "storage", {}))
        /\ UNCHANGED <<slot, opened>>
     \/ /\ slot[c].session = None /\ path # None /\ slot[c].next <= MaxSessions
        /\ slot' = [slot EXCEPT ![c] = Mint(@, name, path)]
        /\ opened' = [opened EXCEPT ![c] = @ \union {<<slot'[c].session.id, path>>}]
        /\ Dispatched(c, ok_response(req[c], "session_id", slot'[c].session.id, {}))
  /\ UNCHANGED <<client, txn, shared>>

(* close_session closes the connection's session, whichever it names.      *)
CloseSession(c, body) ==
  /\ Request(c, "loop", body) /\ body.operation = "close_session"
  /\ slot' = [slot EXCEPT ![c] = close(@)]
  /\ Answer(c, ok_response(body, "closed", None, {}), TRUE, "loop")
  /\ UNCHANGED <<client, txn, outstanding, req, loaded, opened, seen, shared>>

sessions(c) == IF slot[c].session # None THEN 1 ELSE 0

Status(c, body) ==
  /\ Request(c, "loop", body) /\ body.operation = "status"
  /\ Answer(c, ok_response(body, "sessions", sessions(c), {}), TRUE, "loop")
  /\ UNCHANGED <<client, shared, thread>>

(* Mutant of Shutdown: the daemon stops only if the reply could be sent.   *)
ShutdownIfSent(c, body) ==
  /\ Request(c, "loop", body) /\ body.operation = "shutdown"
  /\ Answer(c, ok_response(body, "shutdown", None, {}), TRUE, "ShutdownRequested")
  /\ UNCHANGED <<client, shared, thread>>

(* shutdown: the reply is sent, best effort, and then the session closed.  *)
Shutdown(c, body) ==
  /\ Request(c, "loop", body) /\ body.operation = "shutdown"
  /\ Answer(c, ok_response(body, "shutdown", None, {}), FALSE, "ShutdownRequested")
  /\ UNCHANGED <<client, shared, thread>>

(* commit or rollback outside a region.                                    *)
StrayFinish(c, body) ==
  /\ Request(c, "loop", body) /\ body.operation \in {"commit", "rollback"}
  /\ Answer(c, error_response(body, "no_open_transaction", {}), TRUE, "loop")
  /\ UNCHANGED <<client, shared, thread>>

(* query and begin naming a session the connection does not hold.          *)
WrongSession(c, body) ==
  /\ Request(c, "loop", body) /\ body.operation \in {"query", "begin"}
  /\ resolve(slot[c], body.session_id) # None
  /\ Answer(c, refusal_response(body, resolve(slot[c], body.session_id), body.bulky),
            TRUE, "loop")
  /\ UNCHANGED <<client, shared, thread>>

(* run_one up to its decision: parse, begin, run.  Each may fail, and a    *)
(* failed run is rolled back at once.                                      *)
Query(c, body) ==
  /\ Request(c, "loop", body) /\ body.operation = "query"
  /\ resolve(slot[c], body.session_id) = None
  /\ \/ /\ body.statement = None
        /\ Answer(c, error_response(body, "no_statement", {}), TRUE, "loop")
        /\ UNCHANGED <<thread, wrote>>
     \/ /\ body.statement # None /\ ~body.statement.parses
        /\ Answer(c, diagnostic_response(body, {}), TRUE, "loop")
        /\ UNCHANGED <<thread, wrote>>
     \/ /\ body.statement # None /\ body.statement.parses
        /\ \/ /\ Answer(c, error_response(body, "begin_failed", {}), TRUE, "loop")
              /\ UNCHANGED <<thread, wrote>>
           \/ \E w \in Effects(body.statement) :
                /\ Answer(c, diagnostic_response(body, w), TRUE, "loop")
                /\ wrote' = Wrote(w)
                /\ UNCHANGED thread
           \/ \E w \in Effects(body.statement) :
                /\ \E t \in Begun(slot[c].session.path, body.session_id, w) :
                     txn' = [txn EXCEPT ![c] = t]
                /\ wrote' = Wrote(w)
                /\ Working(c, body, "auto")
                /\ UNCHANGED <<out, slot, loaded, opened, seen>>
  /\ UNCHANGED <<client, log, catalog>>

(* Mutant of AutoCommit: the envelope carries the base generation.         *)
AutoCommitReportsBase(c) ==
  /\ pc[c] = "auto"
  /\ CanCommit(txn[c])
  /\ log' = Publish(txn[c])
  /\ Dispatched(c, envelope_response(req[c], txn[c].base, txn[c].writes))
  /\ txn' = [txn EXCEPT ![c] = None]
  /\ UNCHANGED <<client, slot, opened, catalog, wrote>>

(* run_one from its decision: commit what was written, roll back a         *)
(* transaction that wrote nothing.                                         *)
AutoCommit(c) ==
  /\ pc[c] = "auto"
  /\ \/ /\ CanCommit(txn[c])
        /\ log' = Publish(txn[c])
        /\ Dispatched(c, envelope_response(req[c], CommitGeneration(txn[c]), txn[c].writes))
     \/ /\ txn[c].writes # {}
        /\ Dispatched(c, error_response(req[c], "commit_refused", txn[c].writes))
        /\ UNCHANGED log
  /\ txn' = [txn EXCEPT ![c] = None]
  /\ UNCHANGED <<client, slot, opened, catalog, wrote>>
-----------------------------------------------------------------------------
(* run_transaction_region. *)

(* begin resolves its session in dispatch and again on entry, over the     *)
(* same slot.  The region starts with an empty outstanding set, as the     *)
(* loop's is once begin was dispatched.                                    *)
Begin(c, body) ==
  /\ Request(c, "loop", body) /\ body.operation = "begin"
  /\ resolve(slot[c], body.session_id) = None
  /\ \/ /\ Answer(c, error_response(body, "begin_failed", {}), FALSE, "loop")
        /\ UNCHANGED txn
     \/ \E t \in Begun(slot[c].session.path, body.session_id, {}) :
          /\ txn' = [txn EXCEPT ![c] = t]
          /\ Answer(c, ok_response(body, "base_generation", t.base, {}), TRUE, "region")
  /\ UNCHANGED <<client, slot, outstanding, req, loaded, opened, seen, shared>>

(* The region returns Continue, its own outstanding set dropped and its    *)
(* transaction consumed.                                                   *)
LeaveRegion(c) ==
  /\ txn' = [txn EXCEPT ![c] = None]
  /\ outstanding' = [outstanding EXCEPT ![c] = {}]
  /\ UNCHANGED <<client, slot, req, loaded, opened, seen, catalog, wrote>>

(* Mutant of RegionCommit: a refused commit is answered like an accepted   *)
(* one.                                                                    *)
RegionCommitIgnoresError(c, body) ==
  /\ Request(c, "region", body) /\ body.operation = "commit"
  /\ log' = IF CanCommit(txn[c]) THEN Publish(txn[c]) ELSE log
  /\ Answer(c, ok_response(body, "generation", CommitGeneration(txn[c]), txn[c].writes),
            FALSE, "loop")
  /\ LeaveRegion(c)

RegionCommit(c, body) ==
  /\ Request(c, "region", body) /\ body.operation = "commit"
  /\ \/ /\ CanCommit(txn[c])
        /\ log' = Publish(txn[c])
        /\ Answer(c, ok_response(body, "generation", CommitGeneration(txn[c]), txn[c].writes),
                  FALSE, "loop")
     \/ /\ Answer(c, error_response(body, "commit_refused", txn[c].writes), FALSE, "loop")
        /\ UNCHANGED log
  /\ LeaveRegion(c)

RegionRollback(c, body) ==
  /\ Request(c, "region", body) /\ body.operation = "rollback"
  /\ Answer(c, ok_response(body, "rolled_back", None, txn[c].writes), FALSE, "loop")
  /\ LeaveRegion(c)
  /\ UNCHANGED log

(* A query in the region.  One without a statement leaves the loop body    *)
(* early, its request id still in the set; a failed one leaves the         *)
(* transaction open, with or without what it had written.                  *)
RegionQuery(c, body) ==
  /\ Request(c, "region", body) /\ body.operation = "query"
  /\ \/ /\ body.statement = None
        /\ outstanding' = [outstanding EXCEPT ![c] = @ \union {body.request_id}]
        /\ Answer(c, error_response(body, "no_statement", {}), FALSE, "region")
        /\ UNCHANGED <<txn, wrote>>
     \/ /\ body.statement # None /\ ~body.statement.parses
        /\ Answer(c, diagnostic_response(body, {}), TRUE, "region")
        /\ UNCHANGED <<txn, wrote, outstanding>>
     \/ /\ body.statement # None /\ body.statement.parses
        /\ \E w \in Effects(body.statement) :
             /\ wrote' = Wrote(w)
             /\ txn' = [txn EXCEPT ![c] = Ran(@, w)]
             /\ \/ Answer(c, diagnostic_response(body, txn'[c].writes), TRUE, "region")
                \/ Answer(c, envelope_response(body, txn[c].base, txn'[c].writes),
                          TRUE, "region")
        /\ UNCHANGED outstanding
  /\ UNCHANGED <<client, slot, req, loaded, opened, seen, log, catalog>>

(* Mutant of RegionOther: close_session is served inside the region.       *)
RegionOtherCloses(c, body) ==
  /\ Request(c, "region", body) /\ body.operation = "close_session"
  /\ slot' = [slot EXCEPT ![c] = close(@)]
  /\ Answer(c, ok_response(body, "closed", None, {}), TRUE, "region")
  /\ UNCHANGED <<client, txn, outstanding, req, loaded, opened, seen, shared>>

(* begin, open_session, close_session and shutdown are refused while the   *)
(* transaction is open; status reports it.                                 *)
RegionOther(c, body) ==
  /\ Request(c, "region", body)
  /\ \/ /\ body.operation \in {"begin", "open_session", "close_session", "shutdown"}
        /\ Answer(c, error_response(body, "transaction_open", {}), TRUE, "region")
     \/ /\ body.operation = "status"
        /\ Answer(c, ok_response(body, "in_transaction", txn[c].base, {}), TRUE, "region")
  /\ UNCHANGED <<client, shared, thread>>
-----------------------------------------------------------------------------
Receive(c, body) ==
  \/ Hello(c, body) \/ Refuse(c, body)
  \/ OpenSession(c, body) \/ CloseSession(c, body) \/ Status(c, body)
  \/ Shutdown(c, body) \/ StrayFinish(c, body) \/ WrongSession(c, body)
  \/ Query(c, body) \/ Begin(c, body)
  \/ RegionCommit(c, body) \/ RegionRollback(c, body) \/ RegionQuery(c, body)
  \/ RegionOther(c, body)

(* The steps a thread takes without waiting for its client.                *)
Work(c) == LoadCatalog(c) \/ SlotOpen(c) \/ AutoCommit(c)

(* A step of a connection that is being served.                            *)
Step(c) ==
  \/ Finish(c) \/ Leave(c)
  \/ ReadClosed(c) \/ ReadFailed(c) \/ ReadTooLarge(c)
  \/ \E body \in Bodies : Receive(c, body)
  \/ Work(c) \/ Send(c)

Next ==
  \/ \E c \in Conns : Connect(c) \/ Step(c)
  \/ CatalogChange

Spec == Init /\ [][Next]_vars
-----------------------------------------------------------------------------
(* Properties. *)

TypeOK ==
  /\ pc \in [Conns -> Points]
  /\ client \in [Conns -> {"open", "finished", "gone"}]
  /\ slot \in [Conns -> [session : SessionType \union {None}, next : Nat]]
  /\ txn \in [Conns -> TxnType \union {None}]
  /\ outstanding \in [Conns -> SUBSET RequestIds]
  /\ req \in [Conns -> Bodies \union {None}]
  /\ loaded \in [Conns -> Catalogs \union {None}]
  /\ out \in [Conns -> OutType \union {None}]
  /\ log \in [Paths -> Seq(SUBSET Writes)]
  /\ catalog \in Catalogs
  /\ wrote \in 0..MaxWrites
  /\ opened \in [Conns -> SUBSET (Nat \X Paths)]
  /\ seen \in [Conns -> SUBSET Catalogs]

(* A thread holds a transaction exactly while it is between begin and the  *)
(* end of the region, or inside run_one, and the transaction is over the   *)
(* database of the session the connection still holds: "there is no state  *)
(* in which the daemon believes a transaction is open and it is not"       *)
(* (serve.rs:297).                                                         *)
RegionOwnsTransaction ==
  \A c \in Conns :
    /\ txn[c] # None <=> \/ pc[c] \in {"region", "auto"}
                         \/ pc[c] = "reply" /\ out[c].then = "region"
    /\ txn[c] # None => /\ slot[c].session # None
                        /\ txn[c].path = slot[c].session.path

Durable == UNION {UNION {log[p][i] : i \in DOMAIN log[p]} : p \in Paths}

(* Replies tell the truth about durability, whatever other connections     *)
(* commit between the Engine call and the write of the reply: the          *)
(* generation reported for a commit is the one that holds exactly its      *)
(* writes; an error that names the row ceiling of a query run on its own   *)
(* says nothing of its writes, and they are durable as a whole (serve.rs:  *)
(* 523); a rollback, a refused commit, a failed statement and anything     *)
(* said inside a region report writes no database holds.                   *)
ReplyTruth ==
  \A c \in Conns : out[c] # None =>
    LET r == out[c].reply IN
    /\ (r.what \in {"generation", "result"} /\ out[c].then = "loop" /\ r.writes # {}) =>
         LET commits == log[slot[c].session.path] IN
         r.value - 1 \in DOMAIN commits /\ commits[r.value - 1] = r.writes
    /\ (r.what = "max_result_rows" /\ out[c].then = "loop" /\ r.writes # {}) =>
         r.writes \in Range(log[slot[c].session.path])
    /\ (r.what \in {"rolled_back", "commit_refused", "diagnostics"} \/ out[c].then = "region")
         => r.writes \intersect Durable = {}

(* A database changes only as the effect of a commit, or of a query run on *)
(* its own, that a thread is answering, and then by exactly that           *)
(* transaction's write set as one generation more: a dropped connection, a *)
(* failed read or send is never consent (serve.rs:347-357).                *)
PublishedByRequest ==
  [][\A p \in Paths : log'[p] # log[p] =>
       \E c \in Conns :
         /\ txn[c] # None /\ txn[c].path = p /\ txn'[c] = None
         /\ log'[p] = Append(log[p], txn[c].writes)
         /\ txn[c].base = Generation(p)
         /\ pc'[c] = "reply" /\ out'[c].reply.request.operation \in {"commit", "query"}
    ]_vars

(* A session id a client kept from an earlier session of its connection    *)
(* starts nothing on another database: the transaction of a begin, or of a *)
(* query run on its own, that named an id is over the database the id was  *)
(* opened on, and no other was ever opened under it (session.rs:162).  A   *)
(* query inside a region names an id that is never resolved; what comes of *)
(* that is in ServeClaims.                                                 *)
SessionIdNamesOneDatabase ==
  \A c \in Conns : (txn[c] # None /\ txn[c].named # None) =>
    {o[2] : o \in {o \in opened[c] : o[1] = txn[c].named}} = {txn[c].path}

(* A session opens the path that its name had in a catalog document in     *)
(* place while the request was being served, never in one replaced before  *)
(* it arrived: "a session opened afterwards should see the name"           *)
(* (serve.rs:74).                                                          *)
OpenSeesCatalog ==
  [][\A c \in Conns :
       (slot'[c].session # slot[c].session /\ slot'[c].session # None) =>
         \E d \in seen[c] : d[slot'[c].session.name] = slot'[c].session.path]_vars

(* A client that goes away, at any point of any conversation, has its      *)
(* connection ended: no session and no open transaction is left behind     *)
(* (serve.rs:118, serve.rs:347).                                           *)
GoneClientIsCleanedUp ==
  \A c \in Conns : client[c] = "gone" ~> pc[c] \in {"idle"} \union Ended
=============================================================================
