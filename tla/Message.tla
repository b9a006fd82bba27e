------------------------------ MODULE Message ------------------------------
(***************************************************************************)
(* Message decoding and version negotiation (src/src/message.rs).          *)
(*                                                                         *)
(* A frame body is a record of what the decoder can tell apart.  A member  *)
(* that is absent or has the wrong JSON type is None, because the code     *)
(* reads every member through as_str/as_u64 and treats the two alike; an   *)
(* empty request_id is None for the same reason.                           *)
(***************************************************************************)
EXTENDS Integers, Naming

CONSTANTS
  None,        \* an absent Option
  RequestIds,  \* non-empty request_id strings
  Names,       \* database strings that are bare names
  PathNames,   \* database strings that are path-shaped
  Statements   \* the statements a query may carry

(* What the daemon can tell apart about a statement, the Engine being      *)
(* external: whether cypher::parse accepts it, whether it writes, how many *)
(* rows it returns and whether its envelope fits in one frame.             *)
StatementType == [parses : BOOLEAN, writes : BOOLEAN, rows : Nat, fits : BOOLEAN]

SUPPORTED_VERSIONS == {1}

Operation == {"open_session", "close_session", "query", "begin", "commit",
              "rollback", "status", "shutdown"}

(* The rows of the protocol's section 8 that a message or the state of its *)
(* connection can break.  peer_is_another_user is never raised by the code.*)
Rule == {"versions_do_not_intersect", "version_absent_after_handshake",
         "first_message_not_hello", "frame_too_large", "body_not_an_object",
         "request_id_absent", "operation_absent", "unknown_operation",
         "database_is_a_path", "unknown_session",
         "second_session_on_one_connection"}

(* An absent value is none of the values a member may hold, and a database *)
(* string is either path-shaped or not.                                    *)
ASSUME MessageAssumption ==
  /\ None \notin RequestIds /\ None \notin Names \union PathNames
  /\ None \notin Statements /\ None \notin Nat /\ None \notin Rule
  /\ \A name \in Names : ~path_shaped(name)
  /\ \A name \in PathNames : path_shaped(name)
  /\ Statements \subseteq StatementType

(* A frame body.  offers holds the integers among supported_versions;      *)
(* session_id k stands for the string "sk".  bulky says that the strings a *)
(* reply would echo (request_id, operation, database) are so long that the *)
(* reply exceeds the maximum frame although the request did not.           *)
Body == [object     : BOOLEAN,
         hello      : BOOLEAN,
         offers     : SUBSET Nat,
         version    : Nat \union {None},
         request_id : RequestIds \union {None},
         session_id : Nat \union {None},
         operation  : Operation \union {"unpublished", None},
         database   : Names \union PathNames \union {None},
         statement  : Statements \union {None},
         bulky      : BOOLEAN]

(* Rule::code: section 8 assigns a diagnostic code to the version refusal  *)
(* alone.                                                                  *)
code(rule) ==
  IF rule = "versions_do_not_intersect" THEN "SERVER_PROTOCOL_UNSUPPORTED" ELSE None

(* decode_hello and negotiate: the rule the opening message breaks, or     *)
(* None when the two sides share a version.                                *)
HandshakeRefusal(body) ==
  IF ~body.object THEN "body_not_an_object"
  ELSE IF ~body.hello THEN "first_message_not_hello"
  ELSE IF body.offers \intersect SUPPORTED_VERSIONS = {} THEN "versions_do_not_intersect"
  ELSE None

(* Mutant of decode_request: a request without an id is let through.       *)
decode_request_any_id(body, outstanding) ==
  IF ~body.object THEN "body_not_an_object"
  ELSE IF body.version = None THEN "version_absent_after_handshake"
  ELSE IF body.version \notin SUPPORTED_VERSIONS THEN "versions_do_not_intersect"
  ELSE IF body.hello THEN "first_message_not_hello"
  ELSE IF body.request_id \in outstanding THEN "request_id_absent"
  ELSE IF body.operation = None THEN "operation_absent"
  ELSE IF body.operation \notin Operation THEN "unknown_operation"
  ELSE IF body.database # None /\ path_shaped(body.database) THEN "database_is_a_path"
  ELSE None

(* decode_request: the first rule a request breaks, in the order of the    *)
(* code's early returns, or None when it decodes.  outstanding is the set  *)
(* of request ids the caller holds to be in flight.                        *)
decode_request(body, outstanding) ==
  IF ~body.object THEN "body_not_an_object"
  ELSE IF body.version = None THEN "version_absent_after_handshake"
  ELSE IF body.version \notin SUPPORTED_VERSIONS THEN "versions_do_not_intersect"
  ELSE IF body.hello THEN "first_message_not_hello"
  ELSE IF body.request_id = None \/ body.request_id \in outstanding THEN "request_id_absent"
  ELSE IF body.operation = None THEN "operation_absent"
  ELSE IF body.operation \notin Operation THEN "unknown_operation"
  ELSE IF body.database # None /\ path_shaped(body.database) THEN "database_is_a_path"
  ELSE None

(* The refusals whose detail repeats a string of the client's.             *)
EchoesClient(body, rule) ==
  \/ rule \in {"unknown_operation", "database_is_a_path"}
  \/ rule = "request_id_absent" /\ body.request_id # None
=============================================================================
