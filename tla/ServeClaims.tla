---------------------------- MODULE ServeClaims ----------------------------
(***************************************************************************)
(* What the comments of serve.rs, session.rs and message.rs say of a       *)
(* connection, and the code does not do.  Each is checked by a run of its  *)
(* own, in which TLC finds the conversation that contradicts it.           *)
(***************************************************************************)
EXTENDS MCServe

(* Conversations with members the other runs leave out: a query that names *)
(* a session the connection does not hold.                                 *)
Claimed ==
  {HelloBody, Open(A), Do("begin"), Do("commit"), [Do("commit") EXCEPT !.bulky = TRUE],
   Do("query"), [Run(Write) EXCEPT !.session_id = 2]}

Replying(c) == out[c] # None /\ out[c].reply.request # None /\ out[c].reply.what \notin Rule

(* message.rs:299: "`outstanding` is the set of `request_id` values        *)
(* already in flight on this connection".  At a read nothing is in flight, *)
(* so the set is empty.                                                    *)
OutstandingIsInFlight ==
  \A c \in Conns : pc[c] \in {"loop", "region"} => outstanding[c] = {}

(* serve.rs:79: "Every failure is either a refusal sent to the client or   *)
(* an end recorded in [`Ended`]".  A reply that does not fit is such a     *)
(* failure, and its client is still waiting for it.                        *)
FailureIsSentOrRecorded ==
  [][\A c \in Conns :
       (pc[c] = "reply" /\ pc'[c] # "reply" /\ client[c] = "open" /\ ~Delivered(c)) =>
         pc'[c] \in Ended]_vars

(* session.rs:182: "A request naming a different one is refused".          *)
DifferentSessionIsRefused ==
  \A c \in Conns :
    (Replying(c) /\ out[c].reply.outcome = "ok" /\ slot[c].session # None) =>
      out[c].reply.request.session_id \in {None, slot[c].session.id}
=============================================================================
