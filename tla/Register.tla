------------------------------ MODULE Register ------------------------------
(***************************************************************************)
(* What the catalog file promises to the processes that share it: a        *)
(* register that is read and replaced as a whole.                          *)
(*                                                                         *)
(* Its value says which path each name refers to, and which further facts  *)
(* about a name, or about the whole, somebody has recorded.  A process     *)
(* takes the value, points names elsewhere or forgets them in its own      *)
(* copy, and puts the copy back.  It never touches a fact that is not of a *)
(* name it forgets, and it puts nothing back when it could not read.       *)
(***************************************************************************)
CONSTANTS
  Processes,
  Names,
  Targets,      \* the paths a name may refer to
  Initially,    \* the values the register may have at first
  Rendered,     \* Rendered[t]: how target t comes back from the register
  Unreadable,   \* the value of a register no process makes sense of
  None

VARIABLES
  value,  \* the register
  copy    \* copy[p]: what process p has taken and changed, or None

vars == <<value, copy>>

Init ==
  /\ value \in Initially
  /\ copy = [p \in Processes |-> None]

Take(p) ==
  /\ copy[p] = None /\ value # Unreadable
  /\ copy' = [copy EXCEPT ![p] = value]
  /\ UNCHANGED value

Point(p, n, t) ==
  /\ copy[p] # None
  /\ copy' = [copy EXCEPT ![p] =
       [target |-> [m \in DOMAIN @.target \union {n} |-> IF m = n THEN t ELSE @.target[m]],
        facts |-> @.facts]]
  /\ UNCHANGED value

Forget(p, n) ==
  /\ copy[p] # None
  /\ copy' = [copy EXCEPT ![p] =
       [target |-> [m \in DOMAIN @.target \ {n} |-> @.target[m]],
        facts |-> {f \in @.facts : f.of # n}]]
  /\ UNCHANGED value

Put(p) ==
  /\ copy[p] # None
  /\ value' = [target |-> [n \in DOMAIN copy[p].target |-> Rendered[copy[p].target[n]]],
               facts |-> copy[p].facts]
  /\ copy' = [copy EXCEPT ![p] = None]

Drop(p) ==
  /\ copy' = [copy EXCEPT ![p] = None]
  /\ UNCHANGED value

Next ==
  \E p \in Processes :
    \/ Take(p) \/ Put(p) \/ Drop(p)
    \/ \E n \in Names : Forget(p, n) \/ \E t \in Targets : Point(p, n, t)

Spec == Init /\ [][Next]_vars
=============================================================================
