------------------------------ MODULE Catalog ------------------------------
(***************************************************************************)
(* The named database catalog (src/src/catalog.rs): its document, and the  *)
(* processes that read it and replace it through a temporary file.         *)
(*                                                                         *)
(* A JSON object is a function from its members.  Torn is a text that is   *)
(* not a JSON object, Bare a JSON value of another kind than the one a     *)
(* member must have; as a catalog_version Bare is anything that is not a   *)
(* positive integer.  The processes are the users of the type Catalog: the *)
(* daemon, which only loads, and commands, which load, change and store as *)
(* the tests do.  Every file-system call is a step, may fail, and may be   *)
(* the last one before the process dies.                                   *)
(***************************************************************************)
EXTENDS Naming, Functions

CONSTANTS
  Writers,     \* processes
  Names,       \* the strings given as a name
  Absolute,    \* absolute paths
  Relative,    \* other paths, the empty one among them
  displayed,   \* displayed[p]: the path that the text of Path::display reads as
  Files,       \* what may be at the catalog's path at first
  Spare,       \* the names a hand edit of the document may give
  None,        \* no file, no value
  Torn,
  Bare

VARIABLES
  file,    \* what is at the catalog's path
  temp,    \* temp[t]: what is at temporary path t
  pc,      \* where each process is
  held,    \* the Catalog each process has in hand, or None
  result   \* the error its last operation reported, or None

vars == <<file, temp, pc, held, result>>

Paths == Absolute \union Relative

SUPPORTED_VERSIONS == {1}
CURRENT_VERSION == 1

NoMembers == [m \in {} |-> None]

Without(object, members) == Restrict(object, DOMAIN object \ members)

(* The members of f and, where it has none, those of g.                    *)
Over(f, g) == [m \in DOMAIN f \union DOMAIN g |-> IF m \in DOMAIN f THEN f[m] ELSE g[m]]

With(object, member, value) == Over([m \in {member} |-> value], object)
-----------------------------------------------------------------------------
(* Catalog::parse.  A rejection names what is wrong: the document, one of  *)
(* its two members, a name, or the entry under a name.                     *)

Rejection(code, problems) == [code |-> code, problems |-> problems]
Io == Rejection("Io", {})

(* Mutant of path_problem: a relative path is accepted.                    *)
path_problem_lax(path) == path \notin Paths

path_problem(path) == path \notin Absolute

EntryProblem(value) ==
  \/ value = Bare
  \/ "path" \notin DOMAIN value
  \/ value["path"] = Bare
  \/ path_problem(value["path"])

entry_from(value) == [path |-> value["path"], unknown |-> Without(value, {"path"})]

BadNames(databases) == {n \in DOMAIN databases : name_problem(n)}

(* The entry under a bad name is not looked at.                            *)
BadEntries(databases) ==
  {n \in DOMAIN databases : ~name_problem(n) /\ EntryProblem(databases[n])}

EntryProblems(databases) ==
  {<<"name", n>> : n \in BadNames(databases)}
    \union {<<"entry", n>> : n \in BadEntries(databases)}

(* Mutant of Problems: the first problem ends the search.                  *)
FirstProblem(object) ==
  IF "databases" \notin DOMAIN object \/ object["databases"] = Bare
    THEN {<<"databases", None>>}
    ELSE IF EntryProblems(object["databases"]) = {} THEN {}
    ELSE {CHOOSE p \in EntryProblems(object["databases"]) : TRUE}

(* The problems of a document whose version is supported.                  *)
Problems(object) ==
  IF "databases" \notin DOMAIN object \/ object["databases"] = Bare
    THEN {<<"databases", None>>}
    ELSE EntryProblems(object["databases"])

(* Why a text is refused, or None.  The version is decided first and on    *)
(* its own.                                                                *)
Refused(text) ==
  IF text = Torn THEN Rejection("CatalogInvalid", {<<"document", None>>})
  ELSE IF "catalog_version" \notin DOMAIN text \/ text["catalog_version"] = Bare
    THEN Rejection("CatalogInvalid", {<<"catalog_version", None>>})
  ELSE IF text["catalog_version"] \notin SUPPORTED_VERSIONS
    THEN Rejection("CatalogVersionUnsupported", {<<"catalog_version", None>>})
  ELSE IF Problems(text) # {} THEN Rejection("CatalogInvalid", Problems(text))
  ELSE None

(* The Catalog an accepted text parses to.                                 *)
parse(text) ==
  [databases |-> [n \in DOMAIN text["databases"] |-> entry_from(text["databases"][n])],
   unknown |-> Without(text, {"catalog_version", "databases"})]

Default == [databases |-> NoMembers, unknown |-> NoMembers]

(* Catalog::load: an absent file is an empty catalog.                      *)
LoadRefused(f) == IF f = None THEN None ELSE Refused(f)
load(f) == IF f = None THEN Default ELSE parse(f)

(* An absolute path is displayed as one, whatever is lost of it, and the   *)
(* names in a document are strings.                                        *)
ASSUME CatalogAssumption ==
  /\ Names \subseteq Strings
  /\ \A n \in Spare : ~name_problem(n)
  /\ displayed \in [Absolute -> Absolute]
  /\ None # Torn /\ Bare \notin SUPPORTED_VERSIONS \union Absolute
  /\ \A f \in Files : LoadRefused(f) = None => DOMAIN load(f).databases \subseteq Strings
-----------------------------------------------------------------------------
(* Catalog::insert, remove and to_document. *)

InsertProblems(name, path) ==
  (IF name_problem(name) THEN {<<"name", name>>} ELSE {})
    \union (IF path_problem(path) THEN {<<"path", name>>} ELSE {})

(* Mutant of insert: the entry is built anew.                              *)
insert_anew(catalog, name, path) ==
  [databases |-> With(catalog.databases, name, [path |-> path, unknown |-> NoMembers]),
   unknown |-> catalog.unknown]

(* A name that is replaced keeps its entry's unknown members.              *)
insert(catalog, name, path) ==
  LET unknown == IF name \in DOMAIN catalog.databases
                   THEN catalog.databases[name].unknown ELSE NoMembers
  IN [databases |-> With(catalog.databases, name, [path |-> path, unknown |-> unknown]),
      unknown |-> catalog.unknown]

remove(catalog, name) ==
  [databases |-> Without(catalog.databases, {name}), unknown |-> catalog.unknown]

(* A path is written as its display, an unknown member as it was read; it  *)
(* would replace a member of the same name.                                *)
to_document(catalog) ==
  Over(catalog.unknown,
       [catalog_version |-> CURRENT_VERSION,
        databases |-> [n \in DOMAIN catalog.databases |->
                         With(catalog.databases[n].unknown, "path",
                              displayed[catalog.databases[n].path])]])
-----------------------------------------------------------------------------
Init ==
  /\ file \in Files
  /\ temp = [w \in Writers |-> None]
  /\ pc = [w \in Writers |-> "idle"]
  /\ held = [w \in Writers |-> None]
  /\ result = [w \in Writers |-> None]

Report(w, r) == result' = [result EXCEPT ![w] = r]

(* The operation of w is over, and so is what it held.                     *)
Finish(w, r) ==
  /\ pc' = [pc EXCEPT ![w] = "idle"]
  /\ held' = [held EXCEPT ![w] = None]
  /\ Report(w, r)

Load(w) ==
  /\ pc[w] = "idle"
  /\ IF LoadRefused(file) = None
       THEN /\ pc' = [pc EXCEPT ![w] = "loaded"]
            /\ held' = [held EXCEPT ![w] = load(file)]
            /\ Report(w, None)
       ELSE Finish(w, LoadRefused(file))
  /\ UNCHANGED <<file, temp>>

(* There is no home directory, or the file cannot be read.                 *)
LoadFails(w) ==
  /\ pc[w] = "idle"
  /\ Finish(w, Io)
  /\ UNCHANGED <<file, temp>>

Insert(w, name, path) ==
  /\ pc[w] = "loaded"
  /\ IF InsertProblems(name, path) = {}
       THEN /\ held' = [held EXCEPT ![w] = insert(@, name, path)]
            /\ Report(w, None)
       ELSE /\ Report(w, Rejection("CatalogInvalid", InsertProblems(name, path)))
            /\ UNCHANGED held
  /\ UNCHANGED <<file, temp, pc>>

Remove(w, name) ==
  /\ pc[w] = "loaded"
  /\ held' = [held EXCEPT ![w] = remove(@, name)]
  /\ Report(w, None)
  /\ UNCHANGED <<file, temp, pc>>
-----------------------------------------------------------------------------
(* Catalog::store. *)

(* Mutant of TempName: one temporary file for everybody.                   *)
TempNameShared(w) == CHOOSE v \in Writers : TRUE

(* The temporary path carries the process's id.                            *)
TempName(w) == w

(* create_dir_all succeeds and fs::write creates or truncates the file.    *)
WriteStarts(w) ==
  /\ pc[w] = "loaded"
  /\ pc' = [pc EXCEPT ![w] = "writing"]
  /\ temp' = [temp EXCEPT ![TempName(w)] = Torn]
  /\ UNCHANGED <<file, held, result>>

WriteEnds(w) ==
  /\ pc[w] = "writing"
  /\ pc' = [pc EXCEPT ![w] = "written"]
  /\ temp' = [temp EXCEPT ![TempName(w)] = to_document(held[w])]
  /\ UNCHANGED <<file, held, result>>

(* create_dir_all or fs::write fails.  What was written stays.             *)
StoreFails(w) ==
  /\ pc[w] \in {"loaded", "writing"}
  /\ Finish(w, Io)
  /\ UNCHANGED <<file, temp>>

Rename(w) ==
  /\ pc[w] = "written"
  /\ file' = temp[TempName(w)]
  /\ temp' = [temp EXCEPT ![TempName(w)] = None]
  /\ Finish(w, None)

(* The temporary file is removed, if it can be.                            *)
RenameFails(w) ==
  /\ pc[w] = "written"
  /\ \/ temp' = [temp EXCEPT ![TempName(w)] = None]
     \/ UNCHANGED temp
  /\ Finish(w, Io)
  /\ UNCHANGED file

(* The process ends: it only wanted to read, or it dies.  The system may   *)
(* give its id to a later one, which finds the temporary file it left.     *)
End(w) ==
  /\ pc[w] # "idle"
  /\ Finish(w, None)
  /\ UNCHANGED <<file, temp>>

Next ==
  \E w \in Writers :
    \/ Load(w) \/ LoadFails(w)
    \/ \E name \in Names : Remove(w, name) \/ \E path \in Paths : Insert(w, name, path)
    \/ WriteStarts(w) \/ WriteEnds(w) \/ StoreFails(w) \/ Rename(w) \/ RenameFails(w)
    \/ End(w)

Spec == Init /\ [][Next]_vars
-----------------------------------------------------------------------------
(* Properties. *)

Sound(catalog) ==
  \A n \in DOMAIN catalog.databases :
    /\ ~name_problem(n)
    /\ catalog.databases[n].path \in Absolute
    /\ "path" \notin DOMAIN catalog.databases[n].unknown

(* A Catalog in hand holds the names and paths the contract allows, and no *)
(* member that is interpreted is kept as an unknown one.                   *)
TypeOK ==
  /\ pc \in [Writers -> {"idle", "loaded", "writing", "written"}]
  /\ \A w \in Writers :
       /\ held[w] = None <=> pc[w] = "idle"
       /\ held[w] # None => Sound(held[w])
       /\ held[w] # None =>
            DOMAIN held[w].unknown \intersect {"catalog_version", "databases"} = {}

(* Every name in a catalog that loads can be sent to the daemon: the rule  *)
(* of the catalog is at least as strict as the one by which decode_request *)
(* tells names from paths, "so a name is never mistaken for a path"        *)
(* (catalog.rs:409).                                                       *)
NamesAreSendable ==
  LoadRefused(file) = None => \A n \in DOMAIN load(file).databases : ~path_shaped(n)

Databases(object) ==
  IF "databases" \notin DOMAIN object \/ object["databases"] = Bare
    THEN NoMembers ELSE object["databases"]

(* How the entries under bad names may be called instead: from[m] is the   *)
(* old name of the entry that is to be m.                                  *)
Renamings(databases) ==
  UNION {Bijection(S, BadNames(databases)) : S \in SUBSET (Spare \ DOMAIN databases)}

(* The databases after a hand edit of what the problems are about: an      *)
(* entry under a bad name gets another name and stays as it is, and a bad  *)
(* entry becomes one of the given path.                                    *)
MendedEntries(databases, problems, from, path) ==
  LET renamed == {n \in DOMAIN databases : <<"name", n>> \in problems}
      kept == DOMAIN databases \ renamed
      new == {m \in DOMAIN from : from[m] \in renamed}
  IN [m \in kept \union new |->
        IF m \notin kept THEN databases[from[m]]
        ELSE IF <<"entry", m>> \in problems THEN [path |-> path]
        ELSE databases[m]]

(* The document after such an edit.                                        *)
Mended(object, problems, from, path) ==
  IF problems = {} THEN object
  ELSE With(object, "databases", MendedEntries(Databases(object), problems, from, path))

(* An entry has two faults, of which only the one of its name is reported. *)
Hidden(object) ==
  \E n \in BadNames(Databases(object)) : EntryProblem(Databases(object)[n])

(* How far a refused document is "fixable in one pass" (catalog.rs:34).    *)
(* Once its version is supported, every problem reported must be mended,   *)
(* and to mend them all is enough unless an entry has a bad name and is    *)
(* bad itself, for after a bad name parse goes on to the next entry        *)
(* (catalog.rs:238).  Then a second pass is enough.                        *)
FixableInTwoPasses ==
  \A w \in Writers :
    (LoadRefused(file) # None /\ result[w] = LoadRefused(file)) =>
      LET problems == result[w].problems IN
      \/ problems \subseteq {<<"document", None>>, <<"catalog_version", None>>}
      \/ \A from \in Renamings(Databases(file)), path \in Absolute :
           LET once == Mended(file, problems, from, path) IN
           /\ \A done \in SUBSET problems :
                done # problems => Refused(Mended(file, done, from, path)) # None
           /\ Refused(once) = None <=> ~Hidden(file)
           /\ Refused(once) # None =>
                Refused(Mended(once, Refused(once).problems, from, path)) = None

(* What a Catalog says, in the terms of Register.                          *)
Says(catalog) ==
  [target |-> [n \in DOMAIN catalog.databases |-> catalog.databases[n].path],
   facts |->
     {[of |-> None, member |-> m, is |-> catalog.unknown[m]] : m \in DOMAIN catalog.unknown}
     \union UNION {{[of |-> n, member |-> m, is |-> catalog.databases[n].unknown[m]] :
                      m \in DOMAIN catalog.databases[n].unknown} :
                    n \in DOMAIN catalog.databases}]

Value(f) == IF LoadRefused(f) = None THEN Says(load(f)) ELSE Torn

Shared == INSTANCE Register WITH
  Processes <- Writers, Targets <- Absolute, Rendered <- displayed, Unreadable <- Torn,
  Initially <- {Value(f) : f \in Files},
  value <- Value(file),
  copy <- [w \in Writers |-> IF held[w] = None THEN None ELSE Says(held[w])]

(* Whatever the interleaving of loads, changes, half-written temporary     *)
(* files, renames, failures and deaths, the file is a register that is     *)
(* replaced as a whole, and only by what a process took from it with its   *)
(* own changes made: "a reader sees one catalog or the other and never a   *)
(* prefix of both" (catalog.rs:12), an unknown member is preserved, and a  *)
(* catalog that is refused is never written over.                          *)
ImplementsRegister == Shared!Spec
=============================================================================
