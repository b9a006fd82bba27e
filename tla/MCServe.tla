------------------------------ MODULE MCServe ------------------------------
(***************************************************************************)
(* Instances of Serve for TLC: the frame bodies of its runs.               *)
(***************************************************************************)
EXTENDS Serve, TLC

A == <<"a">>
B == <<"b">>
TwoBareNames == {A, B}
OneBareName == {A}
APath == {<<"dot", "slash", "a">>}
NoPath == {}

MCStatements == [parses : BOOLEAN, writes : BOOLEAN, rows : {0, 1}, fits : BOOLEAN]

Read      == [parses |-> TRUE, writes |-> FALSE, rows |-> 0, fits |-> TRUE]
Write     == [Read EXCEPT !.writes = TRUE]
BigWrite  == [Write EXCEPT !.rows = 1]
WideRead  == [Read EXCEPT !.fits = FALSE]
Garbage   == [Read EXCEPT !.parses = FALSE]

(* A request of operation `op` with request id "r1" and no other member.   *)
Do(op) == [object |-> TRUE, hello |-> FALSE, offers |-> {}, version |-> 1,
           request_id |-> "r1", session_id |-> None, operation |-> op,
           database |-> None, statement |-> None, bulky |-> FALSE]

HelloBody == [Do(None) EXCEPT !.hello = TRUE, !.offers = {1, 2}, !.version = None,
                              !.request_id = None]
Open(name) == [Do("open_session") EXCEPT !.database = name]
Run(s) == [Do("query") EXCEPT !.statement = s]

(* Two databases under two names, which other processes may exchange or    *)
(* take away.                                                              *)
TwoNames == {[n \in {A, B} |-> IF n = A THEN "p" ELSE "q"],
             [n \in {A, B} |-> IF n = A THEN "q" ELSE None]}
OneName == {[n \in {A} |-> "p"]}
OneNameAtTimes == OneName \union {[n \in {A} |-> None]}

(* Every way a message can fail to decode, in a fresh conversation.        *)
Malformed ==
  {[HelloBody EXCEPT !.offers = {2}], [HelloBody EXCEPT !.version = 1],
   [Do("status") EXCEPT !.object = FALSE], [Do("status") EXCEPT !.version = None],
   [Do("status") EXCEPT !.version = 2], [Open(A) EXCEPT !.request_id = None],
   Do(None), Do("unpublished"), [Do("unpublished") EXCEPT !.bulky = TRUE],
   [Do("open_session") EXCEPT !.database = <<"dot", "slash", "a">>]}

(* One connection: every operation, every member that matters.             *)
OneConn ==
  {HelloBody, Open(A), Open(B), Do("open_session"), Do("close_session"), Do("status"),
   Do("shutdown"), Do("begin"), [Do("begin") EXCEPT !.session_id = 1],
   [Do("begin") EXCEPT !.session_id = 2], Do("commit"), Do("rollback"),
   [Do("commit") EXCEPT !.request_id = "r2"], [Do("commit") EXCEPT !.bulky = TRUE],
   Do("query"), Run(Read), Run(Write), Run(BigWrite), Run(WideRead), Run(Garbage),
   [Run(Write) EXCEPT !.session_id = 1]} \union Malformed

(* Two connections over one database.                                      *)
TwoConns ==
  {HelloBody, Open(A), Do("close_session"), Do("begin"), Do("commit"), Do("rollback"),
   Run(Read), Run(Write)}

(* The connections are interchangeable.                                    *)
ConnSymmetry == Permutations(Conns)
=============================================================================
