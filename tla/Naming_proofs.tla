--------------------------- MODULE Naming_proofs ---------------------------
(***************************************************************************)
(* The rule of the catalog implies the rule of the protocol, for strings   *)
(* of every length.                                                        *)
(***************************************************************************)
EXTENDS Naming, TLAPS

(* A name the catalog accepts is never mistaken for a path: name_problem   *)
(* (catalog.rs) refuses every string that path_shaped (message.rs) does,   *)
(* since a separator is neither alphanumeric nor one of the two signs a    *)
(* name may hold after its first character.                                *)
THEOREM NamesAreNotPaths ==
  ASSUME NEW name \in Strings, ~name_problem(name)
  PROVE  ~path_shaped(name)
<1>1. name # <<>> /\ name[1] \in Alphanumeric
  BY DEF name_problem
<1>2. {"at", "slash", "backslash", "dot"} \intersect Alphanumeric = {}
  BY NamingAssumption DEF Signs
<1>3. ASSUME NEW i \in 1..Len(name) PROVE name[i] \notin {"slash", "backslash"}
  <2>1. CASE i = 1
    BY <1>1, <1>2, <2>1
  <2>2. CASE i # 1
    <3>1. Len(name) \in Nat
      BY DEF Strings
    <3>2. i \in 2..Len(name)
      BY <2>2, <3>1
    <3>3. name[i] \in Alphanumeric \union {"underscore", "hyphen"}
      BY <3>2 DEF name_problem
    <3>4. QED
      BY <1>2, <3>3
  <2>3. QED
    BY <2>1, <2>2
<1>4. QED
  BY <1>1, <1>2, <1>3 DEF path_shaped, Holds
=============================================================================
