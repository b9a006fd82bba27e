------------------------- MODULE ServeTruth_proofs -------------------------
(***************************************************************************)
(* Proof that the replies of Serve tell the truth about durability.        *)
(*                                                                         *)
(* The argument follows each write from the statement that makes it.  A    *)
(* write is live in one transaction, or durable, or given up, and never    *)
(* two of these; a reply speaks of writes of one kind, and no step of      *)
(* another connection changes the kind of a write it does not own.         *)
(***************************************************************************)
EXTENDS ServeSessions_proofs

(* The writes of the transaction c has open.                               *)
Live(c) == IF txn[c] = None THEN {} ELSE txn[c].writes

Undone == {"rolled_back", "commit_refused", "diagnostics"}

(* The writes that the reply c is about to send gives up.                  *)
Dead(c) ==
  IF out[c] # None /\ out[c].then # "region" /\ out[c].reply.what \in Undone
    THEN out[c].reply.writes ELSE {}

(* Every write is of one kind, and numbered below the next.                *)
Fresh ==
  /\ Durable \subseteq 1..wrote
  /\ \A c \in Conns :
       /\ Live(c) \subseteq 1..wrote /\ Dead(c) \subseteq 1..wrote
       /\ Durable \intersect Live(c) = {} /\ Durable \intersect Dead(c) = {}
       /\ Live(c) \intersect Dead(c) = {}
       /\ \A d \in Conns \ {c} :
            Live(c) \intersect Live(d) = {} /\ Live(c) \intersect Dead(d) = {}

(* A reply inside the region speaks of live writes, and one that reports a *)
(* commit of the generation that holds them.                               *)
Spoken(c) ==
  out[c] # None =>
    LET r == out[c].reply IN
    /\ out[c].then = "region" => r.writes \subseteq Live(c)
    /\ (out[c].then = "loop" /\ r.writes # {}) =>
         /\ r.what \in {"generation", "result"} =>
              LET commits == log[slot[c].session.path] IN
              r.value - 1 \in DOMAIN commits /\ commits[r.value - 1] = r.writes
         /\ r.what = "max_result_rows" =>
              \E i \in DOMAIN log[slot[c].session.path] :
                log[slot[c].session.path][i] = r.writes
    /\ (/\ out[c].then = "loop" /\ r.writes # {}
        /\ r.what \in {"generation", "result", "max_result_rows"}) =>
         slot[c].session.path \in Paths

TruthInv == KnownInv /\ Fresh /\ \A c \in Conns : Spoken(c)

New == (wrote + 1)..wrote'

(* What a step of c may do to the writes.                                  *)
MovesOwn(c) ==
  /\ wrote' \in Nat /\ wrote <= wrote'
  /\ Live(c)' \subseteq Live(c) \union New
  /\ Dead(c)' \subseteq Dead(c) \union Live(c) \union New
  /\ Live(c)' \intersect Dead(c)' = {}
  /\ Durable' \subseteq Durable \union Live(c)
  /\ Durable' \intersect Live(c)' = {} /\ Durable' \intersect Dead(c)' = {}

(* A database only grows at its end.                                       *)
Grows ==
  \A p \in Paths : \A i \in DOMAIN log[p] : i \in DOMAIN log'[p] /\ log'[p][i] = log[p][i]

TruthStep(c) == MovesOwn(c) /\ Spoken(c)' /\ Grows

(* A step that moves only its own writes keeps every write of one kind.    *)
LEMMA FreshKept ==
  ASSUME TypeOK, Fresh, NEW c \in Conns, Others(c), MovesOwn(c)
  PROVE  Fresh'
<1>1. wrote \in Nat /\ wrote' \in Nat /\ wrote <= wrote'
  BY DEF TypeOK, MovesOwn
<1>2. \A d \in Conns \ {c} : Live(d)' = Live(d) /\ Dead(d)' = Dead(d)
  BY DEF Others, Live, Dead
<1>3. \A n \in New : n \in 1..wrote' /\ n \notin 1..wrote
  BY <1>1 DEF New
<1>4. 1..wrote \subseteq 1..wrote'
  BY <1>1
<1>5. Durable' \subseteq 1..wrote'
  BY <1>4 DEF MovesOwn, Fresh
<1>6. /\ Live(c)' \subseteq 1..wrote' /\ Dead(c)' \subseteq 1..wrote'
      /\ Durable' \intersect Live(c)' = {} /\ Durable' \intersect Dead(c)' = {}
      /\ Live(c)' \intersect Dead(c)' = {}
  BY <1>3, <1>4 DEF MovesOwn, Fresh
<1>7. ASSUME NEW d \in Conns \ {c}
      PROVE  /\ Live(d)' \subseteq 1..wrote' /\ Dead(d)' \subseteq 1..wrote'
             /\ Durable' \intersect Live(d)' = {} /\ Durable' \intersect Dead(d)' = {}
             /\ Live(d)' \intersect Dead(d)' = {}
             /\ Live(c)' \intersect Live(d)' = {} /\ Live(c)' \intersect Dead(d)' = {}
             /\ Live(d)' \intersect Live(c)' = {} /\ Live(d)' \intersect Dead(c)' = {}
  <2>1. /\ Live(d) \subseteq 1..wrote /\ Dead(d) \subseteq 1..wrote
        /\ Durable \intersect Live(d) = {} /\ Durable \intersect Dead(d) = {}
        /\ Live(d) \intersect Dead(d) = {}
        /\ Live(c) \intersect Live(d) = {} /\ Live(c) \intersect Dead(d) = {}
        /\ Live(d) \intersect Live(c) = {} /\ Live(d) \intersect Dead(c) = {}
    BY DEF Fresh
  <2>2. Live(d)' = Live(d) /\ Dead(d)' = Dead(d)
    BY <1>2
  <2>3. QED
    BY <2>1, <2>2, <1>3, <1>4 DEF MovesOwn
<1>8. ASSUME NEW d \in Conns \ {c}, NEW e \in Conns \ {c}, d # e
      PROVE  Live(d)' \intersect Live(e)' = {} /\ Live(d)' \intersect Dead(e)' = {}
  BY <1>2, <1>8 DEF Fresh
<1>9. QED
  BY <1>5, <1>6, <1>7, <1>8 DEF Fresh

(* What other connections say stays true when the databases grow.          *)
LEMMA SpokenByOthers ==
  ASSUME NEW c \in Conns, NEW d \in Conns \ {c}, Others(c), Grows, Spoken(d)
  PROVE  Spoken(d)'
<1>1. /\ out'[d] = out[d] /\ txn'[d] = txn[d] /\ slot'[d] = slot[d]
  BY DEF Others
<1>2. Live(d)' = Live(d)
  BY <1>1 DEF Live
<1>3. QED
  BY <1>1, <1>2 DEF Spoken, Grows

(* What the reply constructors of serve.rs say.                            *)
LEMMA Fields ==
  ASSUME NEW body, NEW what, NEW value, NEW w
  PROVE  /\ LET r == ok_response(body, what, value, w)
            IN r.what = what /\ r.writes = w /\ r.value = value
         /\ LET r == error_response(body, what, w) IN r.what = what /\ r.writes = w
         /\ LET r == diagnostic_response(body, w) IN r.what = "diagnostics" /\ r.writes = w
         /\ LET r == envelope_response(body, value, w) IN
              /\ r.what \in {"result", "max_result_rows"} /\ r.writes = w
              /\ r.what = "result" => r.value = value
BY DEF ok_response, error_response, diagnostic_response, envelope_response, response

(* What c is about to say once it prepared a reply.                        *)
LEMMA AnswerOut ==
  ASSUME TypeOK, NEW c \in Conns, NEW reply, NEW must, NEW then, Answer(c, reply, must, then)
  PROVE  pc'[c] = "reply" /\ out'[c].reply = reply /\ out'[c].then = then
BY DEF TypeOK, Answer

(* The writes of a statement are new.                                      *)
LEMMA EffectsFresh ==
  ASSUME TypeOK, NEW statement, NEW w \in Effects(statement), wrote' = Wrote(w)
  PROVE  w \subseteq New /\ wrote' \in Nat /\ wrote <= wrote'
BY DEF TypeOK, Effects, Wrote, New

(* A write is durable when some generation of some database holds it.      *)
LEMMA DurableIn ==
  \A n : n \in Durable <=> \E p \in Paths : \E i \in DOMAIN log[p] : n \in log[p][i]
BY DEF Durable

(* The same after a step.                                                  *)
LEMMA DurableNext ==
  \A n : n \in Durable' <=> \E p \in Paths : \E i \in DOMAIN log'[p] : n \in log'[p][i]
BY DEF Durable

(* A commit makes the writes of its transaction durable and no others, as  *)
(* the generation it reports.                                              *)
LEMMA PublishDurable ==
  ASSUME TypeOK, NEW t \in TxnType, CanCommit(t), log' = Publish(t)
  PROVE  /\ Durable' \subseteq Durable \union t.writes /\ Grows
         /\ t.writes # {} =>
              /\ CommitGeneration(t) - 1 \in DOMAIN log'[t.path]
              /\ log'[t.path][CommitGeneration(t) - 1] = t.writes
<1>1. /\ t.path \in Paths /\ t.writes \in SUBSET Writes /\ t.base \in Nat
      /\ log[t.path] \in Seq(SUBSET Writes)
  BY DEF TxnType, TypeOK
<1>2. CASE t.writes = {}
  <2>1. log' = log
    BY <1>1, <1>2 DEF Publish, TypeOK
  <2>2. QED
    BY <2>1, <1>2 DEF Durable, Grows
<1>3. CASE t.writes # {}
  <2>1. /\ \A p \in Paths : p # t.path => log'[p] = log[p]
        /\ log'[t.path] = Append(log[t.path], t.writes)
    BY <1>1, <1>3 DEF Publish, TypeOK
  <2>2. /\ Len(log'[t.path]) = Len(log[t.path]) + 1
        /\ DOMAIN log'[t.path] = 1..(Len(log[t.path]) + 1)
        /\ DOMAIN log[t.path] = 1..Len(log[t.path]) /\ Len(log[t.path]) \in Nat
        /\ log'[t.path][Len(log[t.path]) + 1] = t.writes
        /\ \A i \in 1..Len(log[t.path]) : log'[t.path][i] = log[t.path][i]
    BY <1>1, <2>1
  <2>3. Grows
    BY <2>1, <2>2 DEF Grows
  <2>4. ASSUME NEW n \in Durable' PROVE n \in Durable \union t.writes
    <3>1. PICK p \in Paths : \E i \in DOMAIN log'[p] : n \in log'[p][i]
      BY DurableNext
    <3>2. PICK i \in DOMAIN log'[p] : n \in log'[p][i]
      BY <3>1
    <3>3. CASE p # t.path
      <4>1. log'[p] = log[p]
        BY <2>1, <3>3
      <4>2. QED
        BY <3>2, <4>1, DurableIn
    <3>4. CASE p = t.path /\ i \in 1..Len(log[t.path])
      <4>1. i \in DOMAIN log[p] /\ n \in log[p][i]
        BY <2>2, <3>2, <3>4
      <4>2. QED
        BY <4>1, DurableIn
    <3>5. CASE p = t.path /\ i \notin 1..Len(log[t.path])
      <4>1. i = Len(log[t.path]) + 1
        BY <2>2, <3>5
      <4>2. QED
        BY <2>2, <3>2, <3>5, <4>1
    <3>6. QED
      BY <3>3, <3>4, <3>5
  <2>5. CommitGeneration(t) - 1 = Len(log[t.path]) + 1
    BY <1>1, <1>3, <2>2 DEF CommitGeneration, CanCommit, Generation
  <2>6. QED
    BY <2>2, <2>3, <2>4, <2>5
<1>4. QED
  BY <1>2, <1>3

(* A step that publishes nothing leaves what is durable.                   *)
LEMMA LogKept ==
  ASSUME UNCHANGED log PROVE Durable' = Durable /\ Grows
BY DEF Durable, Grows

(* A step that leaves the databases and the writes alone, after which c    *)
(* gives nothing up and has no more than it had.                           *)
LEMMA QuietMove ==
  ASSUME TypeOK, Fresh, NEW c \in Conns, UNCHANGED <<log, wrote>>,
         Live(c)' \subseteq Live(c), Dead(c)' = {}
  PROVE  MovesOwn(c) /\ Grows
<1>1. wrote \in Nat
  BY DEF TypeOK
<1>2. Durable' = Durable /\ Grows
  BY LogKept
<1>3. QED
  BY <1>1, <1>2 DEF Fresh, MovesOwn

(* A reply about no writes, given by a step that leaves the databases and  *)
(* the transaction alone.                                                  *)
LEMMA QuietAnswer ==
  ASSUME TypeOK, Fresh, NEW c \in Conns, NEW reply, NEW must, NEW then,
         Answer(c, reply, must, then), reply.writes = {}, UNCHANGED <<log, wrote>>,
         Live(c)' \subseteq Live(c)
  PROVE  TruthStep(c)
<1>1. out'[c].reply.writes = {}
  BY AnswerOut
<1>2. Dead(c)' = {}
  BY <1>1 DEF Dead
<1>3. Spoken(c)'
  BY <1>1 DEF Spoken
<1>4. QED
  BY <1>2, <1>3, QuietMove DEF TruthStep

(* A step that leaves c with no reply to send.                             *)
LEMMA QuietSilence ==
  ASSUME TypeOK, Fresh, NEW c \in Conns, out'[c] = None, UNCHANGED <<log, wrote>>,
         Live(c)' \subseteq Live(c)
  PROVE  TruthStep(c)
<1>1. Dead(c)' = {} /\ Spoken(c)'
  BY DEF Dead, Spoken
<1>2. QED
  BY <1>1, QuietMove DEF TruthStep

(* A reply by which a transaction, or a failed statement, is given up.     *)
LEMMA GivesUp ==
  ASSUME TypeOK, Fresh, NEW c \in Conns, NEW reply, NEW must, Answer(c, reply, must, "loop"),
         reply.what \in Undone, UNCHANGED log, wrote' \in Nat, wrote <= wrote',
         reply.writes \subseteq Live(c) \union New, Live(c)' = {}
  PROVE  TruthStep(c)
<1>1. out'[c].reply = reply /\ out'[c].then = "loop"
  BY AnswerOut
<1>2. Dead(c)' \subseteq Live(c) \union New
  BY <1>1 DEF Dead
<1>3. Durable' = Durable /\ Grows
  BY LogKept
<1>4. Durable \intersect Live(c) = {} /\ Durable \subseteq 1..wrote /\ wrote \in Nat
  BY DEF Fresh, TypeOK
<1>5. \A n \in New : n \notin 1..wrote
  BY <1>4 DEF New
<1>6. Spoken(c)'
  BY <1>1 DEF Spoken, Undone
<1>7. QED
  BY <1>2, <1>3, <1>4, <1>5, <1>6 DEF TruthStep, MovesOwn

(* A reply by which a commit is reported.                                  *)
LEMMA Reports ==
  ASSUME TypeOK, Fresh, NEW c \in Conns, NEW reply, NEW must, Answer(c, reply, must, "loop"),
         txn[c] \in TxnType, txn[c].path = slot[c].session.path, UNCHANGED <<slot, wrote>>,
         None \notin TxnType, CanCommit(txn[c]), log' = Publish(txn[c]), Live(c)' = {},
         reply.what \in {"generation", "result", "max_result_rows"},
         reply.writes = txn[c].writes,
         reply.what # "max_result_rows" => reply.value = CommitGeneration(txn[c])
  PROVE  TruthStep(c)
<1>1. out'[c].reply = reply /\ out'[c].then = "loop"
  BY AnswerOut
<1>2. Dead(c)' = {} /\ Live(c) = txn[c].writes
  BY <1>1 DEF Dead, Undone, Live
<1>3. wrote \in Nat /\ txn[c].path \in Paths
  BY DEF TypeOK, TxnType
<1>4. MovesOwn(c) /\ Grows
  BY <1>2, <1>3, PublishDurable DEF MovesOwn
<1>5. Spoken(c)'
  BY <1>1, <1>3, PublishDurable DEF Spoken
<1>6. QED
  BY <1>4, <1>5 DEF TruthStep

(* A reply inside the region, about writes of the open transaction.        *)
LEMMA Echoes ==
  ASSUME TypeOK, Fresh, NEW c \in Conns, NEW reply, NEW must,
         Answer(c, reply, must, "region"), UNCHANGED log, wrote' \in Nat, wrote <= wrote',
         reply.writes \subseteq Live(c)', Live(c)' \subseteq Live(c) \union New
  PROVE  TruthStep(c)
<1>1. out'[c].reply = reply /\ out'[c].then = "region"
  BY AnswerOut
<1>2. Dead(c)' = {}
  BY <1>1 DEF Dead
<1>3. Durable' = Durable /\ Grows
  BY LogKept
<1>4. Durable \intersect Live(c) = {} /\ Durable \subseteq 1..wrote /\ wrote \in Nat
  BY DEF Fresh, TypeOK
<1>5. \A n \in New : n \notin 1..wrote
  BY <1>4 DEF New
<1>6. Spoken(c)'
  BY <1>1 DEF Spoken
<1>7. QED
  BY <1>2, <1>3, <1>4, <1>5, <1>6 DEF TruthStep, MovesOwn

(* What a frame makes of the writes.                                       *)
LEMMA ReceiveTruth ==
  ASSUME Inv, Fresh, NEW c \in Conns, NEW body \in Bodies, Receive(c, body)
  PROVE  TruthStep(c)
<1>0. TypeOK /\ None \notin TxnType /\ wrote \in Nat
  BY ServeAssumption DEF Inv, TypeOK
<1>a. ASSUME NEW reply, NEW must, NEW then, Answer(c, reply, must, then), reply.writes = {},
             UNCHANGED <<log, wrote, txn>>
      PROVE  TruthStep(c)
  <2>1. Live(c)' = Live(c)
    BY <1>a DEF Live
  <2>2. QED
    BY <1>0, <1>a, <2>1, QuietAnswer
<1>c. /\ \A what, value, w : ok_response(body, what, value, w).writes = w
      /\ \A what, w : error_response(body, what, w).writes = w
      /\ \A w : diagnostic_response(body, w).writes = w
      /\ \A value, w : envelope_response(body, value, w).writes = w
  BY Fields
<1>1. CASE Hello(c, body)
  <2>1. welcome.writes = {} /\ refused(body).writes = {}
    BY DEF welcome, refused, response
  <2>2. QED
    BY <1>1, <1>a, <2>1 DEF Hello, shared, thread
<1>2. CASE Refuse(c, body)
  <2>1. \A rule, large : refusal_response(body, rule, large).writes = {}
    BY DEF refusal_response, response
  <2>2. PICK reply, must, then : Answer(c, reply, must, then) /\ reply.writes = {}
    BY <1>2, <2>1, Zenon DEF Refuse
  <2>3. QED
    BY <1>2, <1>a, <2>2 DEF Refuse, shared, thread
<1>3. CASE OpenSession(c, body)
  <2>1. CASE Answer(c, error_response(body, "names_no_database", {}), TRUE, "loop")
    BY <2>1, <1>3, <1>a, <1>c DEF OpenSession, shared, thread
  <2>2. CASE UNCHANGED out
    <3>1. out[c] = None
      BY <1>3 DEF OpenSession, Request, Inv, Stages
    <3>2. QED
      BY <2>2, <3>1, <1>0, <1>3, QuietSilence DEF OpenSession, shared, thread, Live
  <2>3. QED
    BY <1>3, <2>1, <2>2 DEF OpenSession
<1>4. CASE CloseSession(c, body)
  <2>1. Answer(c, ok_response(body, "closed", None, {}), TRUE, "loop")
    BY <1>4 DEF CloseSession
  <2>2. UNCHANGED <<log, wrote, txn>>
    BY <1>4 DEF CloseSession, shared
  <2>3. ok_response(body, "closed", None, {}).writes = {}
    BY <1>c
  <2>4. QED
    BY <2>1, <2>2, <2>3, <1>a
<1>5. CASE Status(c, body)
  <2>1. Answer(c, ok_response(body, "sessions", sessions(c), {}), TRUE, "loop")
    BY <1>5 DEF Status
  <2>2. UNCHANGED <<log, wrote, txn>>
    BY <1>5 DEF Status, shared, thread
  <2>3. ok_response(body, "sessions", sessions(c), {}).writes = {}
    BY <1>c
  <2>4. QED
    BY <2>1, <2>2, <2>3, <1>a
<1>6. CASE Shutdown(c, body)
  <2>1. Answer(c, ok_response(body, "shutdown", None, {}), FALSE, "ShutdownRequested")
    BY <1>6 DEF Shutdown
  <2>2. UNCHANGED <<log, wrote, txn>>
    BY <1>6 DEF Shutdown, shared, thread
  <2>3. ok_response(body, "shutdown", None, {}).writes = {}
    BY <1>c
  <2>4. QED
    BY <2>1, <2>2, <2>3, <1>a
<1>7. CASE StrayFinish(c, body)
  BY <1>7, <1>a, <1>c DEF StrayFinish, shared, thread
<1>8. CASE WrongSession(c, body)
  <2>1. \A rule, large : refusal_response(body, rule, large).writes = {}
    BY DEF refusal_response, response
  <2>2. QED
    BY <1>8, <1>a, <2>1 DEF WrongSession, shared, thread
<1>9. CASE Query(c, body)
  <2>0. txn[c] = None /\ out[c] = None /\ Live(c) = {}
    BY <1>9 DEF Query, Request, Inv, Stages, RegionOwnsTransaction, Live
  <2>1. ASSUME NEW reply, Answer(c, reply, TRUE, "loop"), reply.writes = {},
               UNCHANGED <<thread, wrote, log>>
        PROVE  TruthStep(c)
    BY <2>1, <1>a DEF thread
  <2>2. ASSUME NEW w \in Effects(body.statement), wrote' = Wrote(w),
               Answer(c, diagnostic_response(body, w), TRUE, "loop"), UNCHANGED <<thread, log>>
        PROVE  TruthStep(c)
    <3>1. w \subseteq New /\ wrote' \in Nat /\ wrote <= wrote'
      BY <1>0, <2>2, EffectsFresh
    <3>2. Live(c)' = {}
      BY <2>0, <2>2 DEF Live, thread
    <3>3. /\ diagnostic_response(body, w).what \in Undone
          /\ diagnostic_response(body, w).writes = w
      BY Fields DEF Undone
    <3>4. QED
      BY <3>1, <3>2, <3>3, <2>2, <1>0, GivesUp
  <2>3. ASSUME NEW w \in Effects(body.statement), wrote' = Wrote(w),
               NEW t \in Begun(slot[c].session.path, body.session_id, w),
               txn' = [txn EXCEPT ![c] = t], UNCHANGED <<out, log>>
        PROVE  TruthStep(c)
    <3>1. w \subseteq New /\ wrote' \in Nat /\ wrote <= wrote'
      BY <1>0, <2>3, EffectsFresh
    <3>2. Live(c)' \subseteq w
      BY <2>3, <1>0 DEF Live, Begun, TypeOK
    <3>3. Dead(c)' = {} /\ Spoken(c)'
      BY <2>0, <2>3 DEF Dead, Spoken
    <3>4. Durable' = Durable /\ Grows
      BY <2>3, LogKept
    <3>5. \A n \in New : n \notin Durable
      BY <1>0 DEF New, Fresh
    <3>6. QED
      BY <3>1, <3>2, <3>3, <3>4, <3>5 DEF TruthStep, MovesOwn
  <2>4. QED
    BY <1>9, <2>1, <2>2, <2>3, <1>c DEF Query
<1>10. CASE Begin(c, body)
  <2>1. ASSUME NEW t \in Begun(slot[c].session.path, body.session_id, {}),
               txn' = [txn EXCEPT ![c] = t],
               Answer(c, ok_response(body, "base_generation", t.base, {}), TRUE, "region")
        PROVE  TruthStep(c)
    <3>1. Live(c)' = {}
      BY <2>1, <1>0 DEF Live, Begun, TypeOK
    <3>2. QED
      <4>1. UNCHANGED <<log, wrote>> /\ Live(c)' \subseteq Live(c)
        BY <3>1, <1>10 DEF Begin, shared
      <4>2. ok_response(body, "base_generation", t.base, {}).writes = {}
        BY <1>c
      <4>3. QED
        BY <4>1, <4>2, <2>1, <1>0, QuietAnswer
  <2>2. QED
    BY <1>10, <1>a, <2>1, <1>c DEF Begin, shared
<1>b. ASSUME Request(c, "region", body)
      PROVE  /\ txn[c] \in TxnType /\ Live(c) = txn[c].writes
             /\ txn[c].path = slot[c].session.path
  BY <1>b, <1>0 DEF Request, Inv, TypeOK, RegionOwnsTransaction, Live
<1>11. CASE RegionCommit(c, body)
  <2>0. /\ txn[c] \in TxnType /\ Live(c) = txn[c].writes
        /\ txn[c].path = slot[c].session.path /\ UNCHANGED <<slot, wrote>>
    BY <1>b, <1>11 DEF RegionCommit, LeaveRegion
  <2>1. Live(c)' = {}
    BY <1>0, <1>11 DEF RegionCommit, LeaveRegion, Live, TypeOK
  <2>2. CASE /\ CanCommit(txn[c]) /\ log' = Publish(txn[c])
             /\ Answer(c, ok_response(body, "generation", CommitGeneration(txn[c]),
                                      txn[c].writes), FALSE, "loop")
    <3> DEFINE reply == ok_response(body, "generation", CommitGeneration(txn[c]), txn[c].writes)
    <3>1. /\ reply.what = "generation" /\ reply.writes = txn[c].writes
          /\ reply.value = CommitGeneration(txn[c])
      BY Fields
    <3> HIDE DEF reply
    <3>2. Answer(c, reply, FALSE, "loop")
      BY <2>2 DEF reply
    <3>3. QED
      BY <2>0, <2>1, <2>2, <3>1, <3>2, <1>0, Reports
  <2>3. CASE Answer(c, error_response(body, "commit_refused", txn[c].writes), FALSE, "loop")
             /\ UNCHANGED log
    <3>1. /\ error_response(body, "commit_refused", txn[c].writes).what \in Undone
          /\ error_response(body, "commit_refused", txn[c].writes).writes = Live(c)
      BY <2>0, Fields DEF Undone
    <3>2. wrote' \in Nat /\ wrote <= wrote'
      BY <2>0, <1>0
    <3>3. QED
      BY <2>1, <2>3, <3>1, <3>2, <1>0, GivesUp
  <2>4. QED
    BY <1>11, <2>2, <2>3 DEF RegionCommit
<1>12. CASE RegionRollback(c, body)
  <2>0. Live(c) = txn[c].writes
    BY <1>b, <1>12 DEF RegionRollback
  <2>1. Live(c)' = {} /\ UNCHANGED <<log, wrote>>
    BY <1>0, <1>12 DEF RegionRollback, LeaveRegion, Live, TypeOK
  <2> DEFINE reply == ok_response(body, "rolled_back", None, txn[c].writes)
  <2>2. reply.what \in Undone /\ reply.writes = Live(c)
    BY <2>0, Fields DEF Undone
  <2>3. Answer(c, reply, FALSE, "loop")
    BY <1>12 DEF RegionRollback
  <2> HIDE DEF reply
  <2>4. wrote' \in Nat /\ wrote <= wrote'
    BY <2>1, <1>0
  <2>5. QED
    BY <2>1, <2>2, <2>3, <2>4, <1>0, GivesUp
<1>13. CASE RegionQuery(c, body)
  <2>0. /\ txn[c] \in TxnType /\ Live(c) = txn[c].writes
    BY <1>b, <1>13 DEF RegionQuery
  <2>1. CASE /\ UNCHANGED <<txn, wrote>>
             /\ \/ Answer(c, error_response(body, "no_statement", {}), FALSE, "region")
                \/ Answer(c, diagnostic_response(body, {}), TRUE, "region")
    <3>1. UNCHANGED <<log, wrote, txn>>
      BY <2>1, <1>13 DEF RegionQuery
    <3>2. QED
      BY <2>1, <3>1, <1>a, <1>c
  <2>2. ASSUME NEW w \in Effects(body.statement), wrote' = Wrote(w),
               txn' = [txn EXCEPT ![c] = Ran(@, w)],
               NEW reply, Answer(c, reply, TRUE, "region"), reply.writes = txn'[c].writes
        PROVE  TruthStep(c)
    <3>1. w \subseteq New /\ wrote' \in Nat /\ wrote <= wrote'
      BY <1>0, <2>2, EffectsFresh
    <3>2. txn'[c] = Ran(txn[c], w) /\ Ran(txn[c], w).writes = txn[c].writes \union w
      BY <2>2, <1>0 DEF Ran, TypeOK
    <3>3. txn'[c] # None
      <4>1. w \in SUBSET Writes
        BY <1>0, EffectsType
      <4>2. Ran(txn[c], w) \in TxnType
        BY <2>0, <4>1 DEF Ran, TxnType
      <4>3. QED
        BY <3>2, <4>2, <1>0
    <3>4. Live(c)' = Live(c) \union w
      BY <3>2, <3>3, <2>0 DEF Live
    <3>5. reply.writes \subseteq Live(c)'
      BY <3>2, <3>4, <2>0, <2>2
    <3>6. UNCHANGED log
      BY <1>13 DEF RegionQuery
    <3>7. QED
      BY <3>1, <3>4, <3>5, <3>6, <2>2, <1>0, Echoes
  <2>3. ASSUME NEW w \in Effects(body.statement), wrote' = Wrote(w),
               txn' = [txn EXCEPT ![c] = Ran(@, w)],
               \/ Answer(c, diagnostic_response(body, txn'[c].writes), TRUE, "region")
               \/ Answer(c, envelope_response(body, txn[c].base, txn'[c].writes),
                         TRUE, "region")
        PROVE  TruthStep(c)
    <3>1. /\ diagnostic_response(body, txn'[c].writes).writes = txn'[c].writes
          /\ envelope_response(body, txn[c].base, txn'[c].writes).writes = txn'[c].writes
      BY <1>c
    <3>2. QED
      BY <2>2, <2>3, <3>1
  <2>4. QED
    BY <1>13, <2>1, <2>3 DEF RegionQuery
<1>14. CASE RegionOther(c, body)
  <2>1. \/ Answer(c, error_response(body, "transaction_open", {}), TRUE, "region")
        \/ Answer(c, ok_response(body, "in_transaction", txn[c].base, {}), TRUE, "region")
    BY <1>14 DEF RegionOther
  <2>2. UNCHANGED <<log, wrote, txn>>
    BY <1>14 DEF RegionOther, shared, thread
  <2>3. /\ error_response(body, "transaction_open", {}).writes = {}
        /\ ok_response(body, "in_transaction", txn[c].base, {}).writes = {}
    BY <1>c
  <2>4. QED
    BY <2>1, <2>2, <2>3, <1>a
<1>15. QED
  BY <1>1, <1>2, <1>3, <1>4, <1>5, <1>6, <1>7, <1>8, <1>9, <1>10, <1>11, <1>12, <1>13,
     <1>14 DEF Receive

(* What a thread's own steps make of the writes.                           *)
LEMMA WorkTruth ==
  ASSUME Inv, Fresh, NEW c \in Conns, Work(c)
  PROVE  TruthStep(c)
<1>0. TypeOK /\ None \notin TxnType /\ wrote \in Nat
  BY ServeAssumption DEF Inv, TypeOK
<1>1. CASE LoadCatalog(c) \/ SlotOpen(c)
  <2>1. UNCHANGED <<log, wrote, txn>>
    BY <1>1 DEF LoadCatalog, SlotOpen, shared
  <2>2. Live(c)' = Live(c)
    BY <2>1 DEF Live
  <2>3. CASE UNCHANGED out
    <3>1. out[c] = None
      BY <1>1 DEF LoadCatalog, SlotOpen, Inv, Stages
    <3>2. QED
      BY <2>1, <2>2, <2>3, <3>1, <1>0, QuietSilence
  <2>4. ASSUME NEW reply, Dispatched(c, reply), reply.writes = {} PROVE TruthStep(c)
    <3>1. Answer(c, reply, TRUE, "loop")
      BY <2>4 DEF Dispatched
    <3>2. QED
      BY <2>1, <2>2, <2>4, <3>1, <1>0, QuietAnswer
  <2>5. /\ \A what : error_response(req[c], what, {}).writes = {}
        /\ \A what, value : ok_response(req[c], what, value, {}).writes = {}
        /\ \A rule, large : refusal_response(req[c], rule, large).writes = {}
    BY Fields DEF refusal_response, response
  <2>6. UNCHANGED out \/ \E reply : Dispatched(c, reply) /\ reply.writes = {}
    BY <1>1, <2>5 DEF LoadCatalog, SlotOpen
  <2>7. QED
    BY <2>3, <2>4, <2>6
<1>2. CASE AutoCommit(c)
  <2>0. /\ txn[c] \in TxnType /\ Live(c) = txn[c].writes
        /\ txn[c].path = slot[c].session.path /\ UNCHANGED <<slot, wrote>>
    BY <1>0, <1>2 DEF AutoCommit, Inv, TypeOK, RegionOwnsTransaction, Live
  <2>1. Live(c)' = {} /\ wrote' \in Nat /\ wrote <= wrote'
    BY <1>0, <1>2 DEF AutoCommit, Live, TypeOK
  <2> DEFINE done == envelope_response(req[c], CommitGeneration(txn[c]), txn[c].writes)
             failed == error_response(req[c], "commit_refused", txn[c].writes)
  <2>2. CASE CanCommit(txn[c]) /\ log' = Publish(txn[c]) /\ Dispatched(c, done)
    <3>1. /\ done.what \in {"generation", "result", "max_result_rows"}
          /\ done.writes = txn[c].writes
          /\ done.what # "max_result_rows" => done.value = CommitGeneration(txn[c])
      BY Fields
    <3>2. Answer(c, done, TRUE, "loop")
      BY <2>2 DEF Dispatched
    <3> HIDE DEF done
    <3>3. QED
      BY <2>0, <2>1, <2>2, <3>1, <3>2, <1>0, Reports
  <2>3. CASE Dispatched(c, failed) /\ UNCHANGED log
    <3>1. failed.what \in Undone /\ failed.writes = Live(c)
      BY <2>0, Fields DEF Undone
    <3>2. Answer(c, failed, TRUE, "loop")
      BY <2>3 DEF Dispatched
    <3> HIDE DEF failed
    <3>3. QED
      BY <2>1, <2>3, <3>1, <3>2, <1>0, GivesUp
  <2>4. QED
    BY <1>2, <2>2, <2>3 DEF AutoCommit
<1>3. QED
  BY <1>1, <1>2 DEF Work

(* What any step of a connection makes of the writes.                      *)
LEMMA StepTruth ==
  ASSUME Inv, Fresh, NEW c \in Conns, Spoken(c), Connect(c) \/ Step(c)
  PROVE  TruthStep(c)
<1>0. TypeOK /\ wrote \in Nat
  BY DEF Inv, TypeOK
<1>1. CASE Connect(c) \/ Finish(c) \/ Leave(c)
  <2>1. UNCHANGED <<log, wrote, txn, out, slot>>
    BY <1>1 DEF Connect, Finish, Leave, shared, thread
  <2>2. Live(c)' = Live(c) /\ Dead(c)' = Dead(c) /\ Durable' = Durable /\ Grows
    BY <2>1, LogKept DEF Live, Dead
  <2>3. MovesOwn(c)
    BY <2>1, <2>2, <1>0 DEF MovesOwn, Fresh
  <2>4. Spoken(c)'
    BY <2>1, <2>2 DEF Spoken
  <2>5. QED
    BY <2>2, <2>3, <2>4 DEF TruthStep
<1>2. ASSUME NEW ended, Return(c, ended), UNCHANGED shared PROVE TruthStep(c)
  <2>1. out'[c] = None /\ txn'[c] = None /\ UNCHANGED <<log, wrote>>
    BY <1>0, <1>2 DEF Return, TypeOK, shared
  <2>2. Live(c)' = {}
    BY <2>1 DEF Live
  <2>3. QED
    BY <2>1, <2>2, <1>0, QuietSilence
<1>3. CASE ReadClosed(c) \/ ReadFailed(c)
  BY <1>2, <1>3 DEF ReadClosed, ReadFailed
<1>4. CASE ReadTooLarge(c)
  <2>1. Answer(c, frame_too_large, FALSE, "TransportFailed") /\ frame_too_large.writes = {}
    BY <1>4 DEF ReadTooLarge, frame_too_large, response
  <2>2. UNCHANGED <<log, wrote, txn>>
    BY <1>4 DEF ReadTooLarge, shared, thread
  <2>3. Live(c)' = Live(c)
    BY <2>2 DEF Live
  <2>4. QED
    BY <2>1, <2>2, <2>3, <1>0, QuietAnswer
<1>5. ASSUME NEW body \in Bodies, Receive(c, body) PROVE TruthStep(c)
  BY <1>5, ReceiveTruth
<1>6. CASE Work(c)
  BY <1>6, WorkTruth
<1>7. CASE Send(c)
  <2>1. CASE AfterSend(c) \in Ended
    BY <2>1, <1>2, <1>7 DEF Send
  <2>2. CASE AfterSend(c) \notin Ended
    <3>1. out'[c] = None /\ UNCHANGED <<log, wrote, txn>>
      BY <2>2, <1>0, <1>7 DEF Send, TypeOK, shared, thread
    <3>2. Live(c)' = Live(c)
      BY <3>1 DEF Live
    <3>3. QED
      BY <3>1, <3>2, <1>0, QuietSilence
  <2>3. QED
    BY <2>1, <2>2
<1>8. QED
  BY <1>1, <1>3, <1>4, <1>5, <1>6, <1>7 DEF Step

(* Every step, and every stutter, keeps the writes apart and the replies   *)
(* true.                                                                   *)
LEMMA NextTruth == TruthInv /\ [Next]_vars => TruthInv'
<1> SUFFICES ASSUME TruthInv, [Next]_vars PROVE TruthInv'
  OBVIOUS
<1>0. /\ KnownInv /\ KnownInv' /\ Inv /\ TypeOK /\ Fresh
      /\ \A c \in Conns : Spoken(c) /\ Held(c)
  BY NextKnown, InvByConnection DEF TruthInv, KnownInv, Inv
<1> SUFFICES Fresh' /\ \A d \in Conns : Spoken(d)'
  BY <1>0 DEF TruthInv
<1>1. ASSUME UNCHANGED <<log, wrote, txn, out, slot>>
      PROVE  Fresh' /\ \A d \in Conns : Spoken(d)'
  <2>1. \A d \in Conns : Live(d)' = Live(d) /\ Dead(d)' = Dead(d)
    BY <1>1 DEF Live, Dead
  <2>2. Durable' = Durable
    BY <1>1 DEF Durable
  <2>3. Fresh'
    BY <2>1, <2>2, <1>0, <1>1 DEF Fresh
  <2>4. QED
    BY <2>1, <2>3, <1>0, <1>1 DEF Spoken
<1>2. CASE UNCHANGED vars
  BY <1>1, <1>2 DEF vars, shared, thread
<1>3. CASE CatalogChange
  BY <1>1, <1>3 DEF CatalogChange
<1>4. ASSUME NEW c \in Conns, Connect(c) \/ Step(c)
      PROVE  Fresh' /\ \A d \in Conns : Spoken(d)'
  <2>1. TruthStep(c) /\ Others(c)
    BY <1>0, <1>4, StepTruth, StepHeld
  <2>2. QED
    BY <2>1, <1>0, FreshKept, SpokenByOthers DEF TruthStep
<1>5. QED
  BY <1>2, <1>3, <1>4 DEF Next

(* What the invariant says of a reply is what ReplyTruth asks of it.       *)
LEMMA InvTruth == TruthInv => ReplyTruth
<1> SUFFICES ASSUME TruthInv, NEW c \in Conns, out[c] # None
             PROVE  LET r == out[c].reply IN
               /\ (r.what \in {"generation", "result"} /\ out[c].then = "loop" /\ r.writes # {})
                    => LET commits == log[slot[c].session.path] IN
                       r.value - 1 \in DOMAIN commits /\ commits[r.value - 1] = r.writes
               /\ (r.what = "max_result_rows" /\ out[c].then = "loop" /\ r.writes # {}) =>
                    r.writes \in Range(log[slot[c].session.path])
               /\ (r.what \in Undone \/ out[c].then = "region")
                    => r.writes \intersect Durable = {}
  BY DEF ReplyTruth, Undone
<1>1. Spoken(c) /\ Durable \intersect Live(c) = {} /\ Durable \intersect Dead(c) = {}
  BY DEF TruthInv, Fresh
<1>2. out[c].then = "region" => out[c].reply.writes \intersect Durable = {}
  BY <1>1 DEF Spoken
<1>3. (out[c].then # "region" /\ out[c].reply.what \in Undone) =>
        out[c].reply.writes \intersect Durable = {}
  BY <1>1 DEF Dead
<1>4. QED
  BY <1>1, <1>2, <1>3 DEF Spoken, Range

(* Nothing is written or said at first.                                    *)
LEMMA InitTruth == Init => TruthInv
<1> SUFFICES ASSUME Init PROVE Fresh /\ \A c \in Conns : Spoken(c)
  BY InitInv, InitKnown DEF TruthInv, KnownInv
<1>1. \A c \in Conns : Live(c) = {} /\ Dead(c) = {} /\ Spoken(c)
  BY DEF Init, Live, Dead, Spoken
<1>2. Durable = {}
  BY DEF Init, Durable
<1>3. QED
  BY <1>1, <1>2 DEF Fresh

(* Whatever other connections commit between the Engine call and the write *)
(* of a reply, the generation it reports holds exactly its writes, and     *)
(* what it gives up no database holds (serve.rs:393, serve.rs:493).        *)
THEOREM RepliesAreTrue == Spec => []ReplyTruth
BY InitTruth, NextTruth, InvTruth, PTL DEF Spec
=============================================================================
