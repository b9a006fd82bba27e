------------------------------- MODULE Naming -------------------------------
(***************************************************************************)
(* The two rules that decide which strings are database names: the one of  *)
(* the catalog (src/src/catalog.rs, name_problem) and the one of the       *)
(* protocol (src/src/message.rs, path_shaped).  A string is the sequence   *)
(* of its characters, of which only the kinds the rules tell apart matter. *)
(***************************************************************************)
EXTENDS Naturals, Sequences

CONSTANT Alphanumeric  \* ASCII letters and digits

Signs == {"at", "slash", "backslash", "dot", "underscore", "hyphen", "other"}

ASSUME NamingAssumption == Alphanumeric \intersect Signs = {}

Strings == Seq(Alphanumeric \union Signs)

Holds(name, characters) == \E i \in 1..Len(name) : name[i] \in characters

(* Mutant of name_problem: only the first character is looked at.          *)
name_problem_first_only(name) ==
  name = <<>> \/ name[1] \notin Alphanumeric

(* The catalog refuses the name.                                           *)
name_problem(name) ==
  \/ name = <<>>
  \/ name[1] = "at"
  \/ name[1] \notin Alphanumeric
  \/ \E i \in 2..Len(name) : name[i] \notin Alphanumeric \union {"underscore", "hyphen"}

(* decode_request refuses the name: it is empty, carries the sigil, or     *)
(* holds a separator or a leading dot.                                     *)
path_shaped(name) ==
  \/ name = <<>>
  \/ name[1] = "at"
  \/ Holds(name, {"slash", "backslash"})
  \/ name[1] = "dot"
=============================================================================
