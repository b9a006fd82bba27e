--------------------------- MODULE Catalog_proofs ---------------------------
(***************************************************************************)
(* Proofs about Catalog, for any processes, names, paths and documents.    *)
(***************************************************************************)
EXTENDS Catalog, Naming_proofs

IsMap(f) == f = [m \in DOMAIN f |-> f[m]]

(* The texts and values that are no objects are no functions either.  This *)
(* is what a model value is; it cannot be stated as an assumption that TLC *)
(* evaluates, and is a hypothesis of the theorems that need it.            *)
TokensApart == \A f : IsMap(f) => f \notin {None, Torn, Bare}

(* A Catalog as insert, remove, parse and default leave it.                *)
Built(entry) ==
  /\ entry = [path |-> entry.path, unknown |-> entry.unknown]
  /\ entry.path \in Absolute
  /\ IsMap(entry.unknown) /\ "path" \notin DOMAIN entry.unknown

Good(catalog) ==
  /\ catalog = [databases |-> catalog.databases, unknown |-> catalog.unknown]
  /\ IsMap(catalog.databases)
  /\ \A n \in DOMAIN catalog.databases :
       n \in Strings /\ ~name_problem(n) /\ Built(catalog.databases[n])
  /\ IsMap(catalog.unknown)
  /\ DOMAIN catalog.unknown \intersect {"catalog_version", "databases"} = {}

(* What comes back of a Catalog that was written.                          *)
Rendering(catalog) ==
  [databases |-> [n \in DOMAIN catalog.databases |->
                    [path |-> displayed[catalog.databases[n].path],
                     unknown |-> catalog.databases[n].unknown]],
   unknown |-> catalog.unknown]

(* Putting the members of one object over another.                         *)
LEMMA OverIsMap ==
  \A f, g :
    /\ IsMap(Over(f, g)) /\ DOMAIN Over(f, g) = DOMAIN f \union DOMAIN g
    /\ \A m \in DOMAIN f : Over(f, g)[m] = f[m]
    /\ \A m \in DOMAIN g \ DOMAIN f : Over(f, g)[m] = g[m]
BY DEF Over, IsMap

(* Putting one member in.                                                  *)
LEMMA WithIsMap ==
  \A f, x, v :
    /\ IsMap(With(f, x, v)) /\ DOMAIN With(f, x, v) = DOMAIN f \union {x}
    /\ With(f, x, v)[x] = v
    /\ \A m \in DOMAIN f \ {x} : With(f, x, v)[m] = f[m]
BY DEF With, Over, IsMap

(* Taking members out.                                                     *)
LEMMA WithoutIsMap ==
  \A f, S :
    /\ IsMap(Without(f, S)) /\ DOMAIN Without(f, S) = DOMAIN f \ S
    /\ \A m \in DOMAIN f \ S : Without(f, S)[m] = f[m]
BY DEF Without, Restrict, IsMap

(* Two maps that agree are one.                                            *)
LEMMA MapsAgree ==
  ASSUME NEW f, NEW g, IsMap(f), IsMap(g), DOMAIN f = DOMAIN g,
         \A m \in DOMAIN f : f[m] = g[m]
  PROVE  f = g
BY DEF IsMap

(* So a Catalog, what it says, a rejection and a name are no tokens.       *)
LEMMA RecordsApart ==
  ASSUME TokensApart
  PROVE  /\ \A a, b : [databases |-> a, unknown |-> b] \notin {None, Torn, Bare}
         /\ \A a, b : [target |-> a, facts |-> b] \notin {None, Torn, Bare}
         /\ \A a, b : Rejection(a, b) \notin {None, Torn, Bare}
         /\ None \notin Strings
BY DEF TokensApart, IsMap, Rejection, Strings

(* The empty catalog of an absent file.                                    *)
LEMMA DefaultGood == Good(Default)
BY DEF Default, Good, NoMembers, IsMap

(* Inserting a name leaves a Catalog, with the entry's unknown members.    *)
LEMMA InsertGood ==
  ASSUME NEW k, Good(k), NEW n \in Names, NEW p \in Paths, InsertProblems(n, p) = {}
  PROVE  /\ Good(insert(k, n, p))
         /\ DOMAIN insert(k, n, p).databases = DOMAIN k.databases \union {n}
         /\ insert(k, n, p).unknown = k.unknown
         /\ insert(k, n, p).databases[n].path = p
         /\ insert(k, n, p).databases[n].unknown =
              (IF n \in DOMAIN k.databases THEN k.databases[n].unknown ELSE NoMembers)
         /\ \A m \in DOMAIN k.databases \ {n} :
              insert(k, n, p).databases[m] = k.databases[m]
<1> DEFINE u == IF n \in DOMAIN k.databases THEN k.databases[n].unknown ELSE NoMembers
           e == [path |-> p, unknown |-> u]
           d == With(k.databases, n, e)
           r == insert(k, n, p)
<1>1. n \in Strings /\ ~name_problem(n) /\ p \in Absolute
  BY CatalogAssumption DEF InsertProblems, path_problem
<1>2. IsMap(u) /\ "path" \notin DOMAIN u
  BY DEF Good, Built, NoMembers, IsMap
<1>3. r = [databases |-> d, unknown |-> k.unknown]
  BY DEF insert
<1> HIDE DEF u
<1>4. Built(e) /\ e.path = p /\ e.unknown = u
  BY <1>1, <1>2 DEF Built
<1> HIDE DEF e
<1>a. IsMap(d) /\ DOMAIN d = DOMAIN k.databases \union {n}
  BY WithIsMap
<1>b. d[n] = e
  BY WithIsMap
<1>c. \A m \in DOMAIN k.databases \ {n} : d[m] = k.databases[m]
  BY WithIsMap
<1> HIDE DEF d, r
<1>6. r.databases = d /\ r.unknown = k.unknown
  BY <1>3
<1>7. \A m \in DOMAIN d : m \in Strings /\ ~name_problem(m) /\ Built(d[m])
  BY <1>1, <1>4, <1>a, <1>b, <1>c DEF Good
<1>8. Good(r)
  BY <1>3, <1>a, <1>6, <1>7 DEF Good
<1>9. QED
  BY <1>4, <1>a, <1>b, <1>c, <1>6, <1>8 DEF u, r

(* Removing a name leaves a Catalog without it.                            *)
LEMMA RemoveGood ==
  ASSUME NEW k, Good(k), NEW n
  PROVE  /\ Good(remove(k, n))
         /\ DOMAIN remove(k, n).databases = DOMAIN k.databases \ {n}
         /\ remove(k, n).unknown = k.unknown
         /\ \A m \in DOMAIN k.databases \ {n} :
              remove(k, n).databases[m] = k.databases[m]
<1> DEFINE d == Without(k.databases, {n})
           r == remove(k, n)
<1>1. r = [databases |-> d, unknown |-> k.unknown]
  BY DEF remove
<1>2. /\ IsMap(d) /\ DOMAIN d = DOMAIN k.databases \ {n}
      /\ \A m \in DOMAIN k.databases \ {n} : d[m] = k.databases[m]
  BY WithoutIsMap
<1> HIDE DEF d, r
<1>3. r.databases = d /\ r.unknown = k.unknown
  BY <1>1
<1>4. Good(r)
  BY <1>1, <1>2, <1>3 DEF Good
<1>5. QED
  BY <1>2, <1>3, <1>4 DEF r

(* A document that is accepted, or none, loads as a Catalog.               *)
LEMMA ParseGood ==
  ASSUME TokensApart, NEW f, LoadRefused(f) = None, DOMAIN load(f).databases \subseteq Strings
  PROVE  Good(load(f))
<1>1. CASE f = None
  BY <1>1, DefaultGood DEF load
<1>2. CASE f # None
  <2> DEFINE bs == f["databases"]
             d == [n \in DOMAIN bs |-> entry_from(bs[n])]
             u == Without(f, {"catalog_version", "databases"})
  <2>1. load(f) = [databases |-> d, unknown |-> u]
    BY <1>2 DEF load, parse
  <2>2. Refused(f) = None
    BY <1>2 DEF LoadRefused
  <2>3. Problems(f) = {} /\ f # Torn
    BY <2>2, RecordsApart DEF Refused
  <2>4. BadNames(bs) = {} /\ BadEntries(bs) = {}
    BY <2>3 DEF Problems, EntryProblems
  <2>5. ASSUME NEW n \in DOMAIN bs
        PROVE  ~name_problem(n) /\ Built(entry_from(bs[n]))
    <3>1. ~name_problem(n) /\ ~EntryProblem(bs[n])
      BY <2>4 DEF BadNames, BadEntries
    <3>2. bs[n]["path"] \in Absolute
      BY <3>1 DEF EntryProblem, path_problem
    <3>a. DOMAIN Without(bs[n], {"path"}) = DOMAIN bs[n] \ {"path"}
      BY WithoutIsMap
    <3>3. IsMap(Without(bs[n], {"path"})) /\ "path" \notin DOMAIN Without(bs[n], {"path"})
      BY <3>a, WithoutIsMap
    <3>4. QED
      BY <3>1, <3>2, <3>3 DEF entry_from, Built
  <2>6. IsMap(d) /\ DOMAIN d = DOMAIN bs
    BY DEF IsMap
  <2>a. DOMAIN u = DOMAIN f \ {"catalog_version", "databases"}
    BY WithoutIsMap
  <2>7. IsMap(u) /\ DOMAIN u \intersect {"catalog_version", "databases"} = {}
    BY <2>a, WithoutIsMap
  <2>8. \A n \in DOMAIN d : d[n] = entry_from(bs[n])
    OBVIOUS
  <2> HIDE DEF d, u, bs
  <2>9. load(f).databases = d /\ load(f).unknown = u
    BY <2>1
  <2>10. QED
    BY <2>1, <2>5, <2>6, <2>7, <2>8, <2>9 DEF Good
<1>3. QED
  BY <1>1, <1>2

(* Taking out the member that was put in gives the object back.            *)
LEMMA WithoutWith ==
  ASSUME NEW u, IsMap(u), NEW x, x \notin DOMAIN u, NEW v
  PROVE  Without(With(u, x, v), {x}) = u
<1> DEFINE f == With(u, x, v)
           g == Without(f, {x})
<1>1. DOMAIN f = DOMAIN u \union {x}
  BY WithIsMap
<1>2. \A m \in DOMAIN u \ {x} : f[m] = u[m]
  BY WithIsMap
<1> HIDE DEF f
<1>3. IsMap(g)
  BY WithoutIsMap
<1>4. DOMAIN g = DOMAIN f \ {x}
  BY WithoutIsMap
<1>5. \A m \in DOMAIN f \ {x} : g[m] = f[m]
  BY WithoutIsMap
<1> HIDE DEF g
<1>6. DOMAIN g = DOMAIN u /\ \A m \in DOMAIN g : g[m] = u[m]
  BY <1>1, <1>2, <1>4, <1>5
<1>7. g = u
  BY <1>3, <1>6, MapsAgree
<1>8. QED
  BY <1>7 DEF f, g

(* The same for several members.                                           *)
LEMMA WithoutOver ==
  ASSUME NEW u, IsMap(u), NEW b, DOMAIN u \intersect DOMAIN b = {}
  PROVE  Without(Over(u, b), DOMAIN b) = u
<1> DEFINE f == Over(u, b)
           g == Without(f, DOMAIN b)
<1>1. DOMAIN f = DOMAIN u \union DOMAIN b
  BY OverIsMap
<1>2. \A m \in DOMAIN u : f[m] = u[m]
  BY OverIsMap
<1> HIDE DEF f
<1>3. IsMap(g)
  BY WithoutIsMap
<1>4. DOMAIN g = DOMAIN f \ DOMAIN b
  BY WithoutIsMap
<1>5. \A m \in DOMAIN f \ DOMAIN b : g[m] = f[m]
  BY WithoutIsMap
<1> HIDE DEF g
<1>6. DOMAIN g = DOMAIN u /\ \A m \in DOMAIN g : g[m] = u[m]
  BY <1>1, <1>2, <1>4, <1>5
<1>7. g = u
  BY <1>3, <1>6, MapsAgree
<1>8. QED
  BY <1>7 DEF f, g

(* Catalog::parse of what to_document writes: it is accepted, and gives    *)
(* back the Catalog with its paths as they are displayed and every unknown *)
(* member in place (catalog.rs:326).                                       *)
LEMMA RoundTrip ==
  ASSUME TokensApart, NEW k, Good(k)
  PROVE  /\ to_document(k) # None /\ Refused(to_document(k)) = None
         /\ parse(to_document(k)) = Rendering(k)
         /\ Good(Rendering(k))
<1> DEFINE ds == k.databases
           Of(n) == With(ds[n].unknown, "path", displayed[ds[n].path])
           d == [n \in DOMAIN ds |-> Of(n)]
           base == [catalog_version |-> 1, databases |-> d]
           doc == Over(k.unknown, base)
<1>1. to_document(k) = doc
  BY DEF to_document, CURRENT_VERSION
<1>2. ASSUME NEW n \in DOMAIN ds
      PROVE  /\ IsMap(Of(n)) /\ "path" \in DOMAIN Of(n)
             /\ Of(n)["path"] = displayed[ds[n].path]
             /\ displayed[ds[n].path] \in Absolute
             /\ Without(Of(n), {"path"}) = ds[n].unknown
  <2> DEFINE u == ds[n].unknown
             v == displayed[ds[n].path]
  <2>1. IsMap(u) /\ "path" \notin DOMAIN u /\ v \in Absolute
    BY CatalogAssumption DEF Good, Built
  <2>2. Of(n) = With(u, "path", v)
    OBVIOUS
  <2> HIDE DEF u, v, Of
  <2>3. IsMap(With(u, "path", v)) /\ DOMAIN With(u, "path", v) = DOMAIN u \union {"path"}
    BY WithIsMap
  <2>4. With(u, "path", v)["path"] = v
    BY WithIsMap
  <2>5. Without(With(u, "path", v), {"path"}) = u
    BY <2>1, WithoutWith
  <2>6. QED
    BY <2>1, <2>2, <2>3, <2>4, <2>5 DEF u, v
<1>3. DOMAIN d = DOMAIN ds /\ IsMap(d) /\ \A n \in DOMAIN ds : d[n] = Of(n)
  BY DEF IsMap
<1>4. /\ DOMAIN base = {"catalog_version", "databases"}
      /\ base["catalog_version"] = 1 /\ base["databases"] = d
  OBVIOUS
<1> HIDE DEF d, base, Of
<1>5. DOMAIN k.unknown \intersect DOMAIN base = {} /\ IsMap(k.unknown)
  BY <1>4 DEF Good
<1>6. IsMap(doc) /\ DOMAIN doc = DOMAIN k.unknown \union DOMAIN base
  BY OverIsMap
<1>7. \A m \in DOMAIN base \ DOMAIN k.unknown : doc[m] = base[m]
  BY OverIsMap
<1>8. Without(doc, {"catalog_version", "databases"}) = k.unknown
  BY <1>4, <1>5, WithoutOver
<1> HIDE DEF doc
<1>9. /\ "catalog_version" \in DOMAIN doc /\ doc["catalog_version"] = 1
      /\ "databases" \in DOMAIN doc /\ doc["databases"] = d
  BY <1>4, <1>5, <1>6, <1>7
<1>10. doc \notin {None, Torn, Bare} /\ d \notin {None, Torn, Bare}
  BY <1>3, <1>6 DEF TokensApart
<1>11. BadNames(d) = {} /\ BadEntries(d) = {}
  <2>1. ASSUME NEW n \in DOMAIN d PROVE ~name_problem(n) /\ ~EntryProblem(d[n])
    <3>1. ~name_problem(n)
      BY <1>3 DEF Good
    <3>2. IsMap(d[n]) /\ "path" \in DOMAIN d[n] /\ d[n]["path"] \in Absolute
      BY <1>2, <1>3
    <3>3. d[n] # Bare /\ d[n]["path"] # Bare
      BY <3>2, CatalogAssumption DEF TokensApart
    <3>4. QED
      BY <3>1, <3>2, <3>3 DEF EntryProblem, path_problem
  <2>2. QED
    BY <2>1 DEF BadNames, BadEntries
<1>12. Problems(doc) = {}
  BY <1>9, <1>10, <1>11 DEF Problems, EntryProblems
<1>13. Refused(doc) = None
  BY <1>9, <1>10, <1>12, CatalogAssumption DEF Refused, SUPPORTED_VERSIONS
<1> DEFINE back == [n \in DOMAIN ds |-> [path |-> displayed[ds[n].path],
                                         unknown |-> ds[n].unknown]]
<1>14. \A n \in DOMAIN d : entry_from(d[n]) = [path |-> displayed[ds[n].path],
                                               unknown |-> ds[n].unknown]
  BY <1>2, <1>3 DEF entry_from
<1>15. [n \in DOMAIN d |-> entry_from(d[n])] = back
  BY <1>3, <1>14
<1>16. parse(doc) = [databases |-> back, unknown |-> k.unknown]
  BY <1>8, <1>9, <1>15 DEF parse
<1>17. Rendering(k) = [databases |-> back, unknown |-> k.unknown]
  BY DEF Rendering
<1>18. /\ IsMap(back) /\ DOMAIN back = DOMAIN ds
       /\ \A n \in DOMAIN ds : Built(back[n])
  BY <1>2 DEF Good, Built, IsMap
<1> HIDE DEF back
<1>19. Rendering(k).databases = back /\ Rendering(k).unknown = k.unknown
  BY <1>17
<1>20. Good(Rendering(k))
  BY <1>17, <1>18, <1>19 DEF Good
<1>21. QED
  BY <1>1, <1>10, <1>13, <1>16, <1>17, <1>20

(* The invariant: a process past its load has a Catalog in hand, one that  *)
(* has written its temporary file finds there what it holds and nothing    *)
(* else, and what loads from the file is a Catalog.                        *)
Kept(w) ==
  /\ pc[w] = "idle" => held[w] = None
  /\ pc[w] # "idle" => Good(held[w])
  /\ pc[w] = "written" => temp[w] = to_document(held[w])

Inv ==
  /\ pc \in [Writers -> {"idle", "loaded", "writing", "written"}]
  /\ IsMap(held) /\ DOMAIN held = Writers
  /\ IsMap(temp) /\ DOMAIN temp = Writers
  /\ \A w \in Writers : Kept(w)
  /\ LoadRefused(file) = None => Good(load(file))

(* Whatever is found at the path at first, the invariant holds.            *)
LEMMA InitInv == ASSUME TokensApart PROVE Init => Inv
<1> SUFFICES ASSUME Init PROVE Inv
  OBVIOUS
<1>1. LoadRefused(file) = None => Good(load(file))
  BY ParseGood, CatalogAssumption DEF Init
<1>2. QED
  BY <1>1 DEF Init, Inv, Kept, IsMap

(* Every step, and every stutter, keeps the invariant.                     *)
LEMMA NextInv == ASSUME TokensApart PROVE Inv /\ [Next]_vars => Inv'
<1> SUFFICES ASSUME Inv, [Next]_vars PROVE Inv'
  OBVIOUS
<1> USE DEF Inv, Kept, TempName, Report, IsMap
<1>1. CASE UNCHANGED vars
  BY <1>1 DEF vars
<1>2. ASSUME NEW w \in Writers, Load(w) PROVE Inv'
  BY <1>2 DEF Load, Finish
<1>3. ASSUME NEW w \in Writers, LoadFails(w) PROVE Inv'
  BY <1>3 DEF LoadFails, Finish
<1>4. ASSUME NEW w \in Writers, NEW name \in Names, Remove(w, name) PROVE Inv'
  <2>1. Good(remove(held[w], name))
    BY <1>4, RemoveGood DEF Remove
  <2>2. QED
    BY <1>4, <2>1 DEF Remove
<1>5. ASSUME NEW w \in Writers, NEW name \in Names, NEW path \in Paths,
             Insert(w, name, path)
      PROVE  Inv'
  <2>1. CASE InsertProblems(name, path) = {}
    <3>1. Good(insert(held[w], name, path))
      BY <1>5, <2>1, InsertGood DEF Insert
    <3>2. QED
      BY <1>5, <2>1, <3>1 DEF Insert
  <2>2. CASE InsertProblems(name, path) # {}
    BY <1>5, <2>2 DEF Insert
  <2>3. QED
    BY <2>1, <2>2
<1>6. ASSUME NEW w \in Writers, WriteStarts(w) PROVE Inv'
  BY <1>6 DEF WriteStarts
<1>7. ASSUME NEW w \in Writers, WriteEnds(w) PROVE Inv'
  BY <1>7 DEF WriteEnds
<1>8. ASSUME NEW w \in Writers, StoreFails(w) PROVE Inv'
  BY <1>8 DEF StoreFails, Finish
<1>9. ASSUME NEW w \in Writers, Rename(w) PROVE Inv'
  <2>1. Good(held[w]) /\ file' = to_document(held[w])
    BY <1>9 DEF Rename
  <2>2. LoadRefused(file') = None /\ Good(load(file'))
    BY <2>1, RoundTrip DEF LoadRefused, load
  <2>3. QED
    BY <1>9, <2>2 DEF Rename, Finish
<1>10. ASSUME NEW w \in Writers, RenameFails(w) PROVE Inv'
  BY <1>10 DEF RenameFails, Finish
<1>11. ASSUME NEW w \in Writers, End(w) PROVE Inv'
  BY <1>11 DEF End, Finish
<1>12. QED
  BY <1>1, <1>2, <1>3, <1>4, <1>5, <1>6, <1>7, <1>8, <1>9, <1>10, <1>11 DEF Next

(* The invariant holds in every behaviour.                                 *)
THEOREM InvHolds == ASSUME TokensApart PROVE Spec => []Inv
BY InitInv, NextInv, PTL DEF Spec

(* A Catalog in hand is always one the contract allows (catalog.rs:288),   *)
(* whatever was found in the file and whatever is inserted and removed.    *)
THEOREM TypeCorrect == ASSUME TokensApart PROVE Spec => []TypeOK
<1>1. Inv => TypeOK
  <2> SUFFICES ASSUME Inv PROVE TypeOK
    OBVIOUS
  <2>1. ASSUME NEW k, Good(k)
        PROVE  /\ k # None /\ Sound(k)
               /\ DOMAIN k.unknown \intersect {"catalog_version", "databases"} = {}
    <3>1. k # None
      BY <2>1, RecordsApart DEF Good
    <3>2. QED
      BY <2>1, <3>1 DEF Good, Built, Sound
  <2>2. QED
    BY <2>1 DEF Inv, Kept, TypeOK
<1>2. QED
  BY <1>1, InvHolds, PTL

(* No name in a catalog that loads is taken for a path by decode_request   *)
(* (message.rs), whatever the file held at first and however many          *)
(* processes have stored since.                                            *)
THEOREM SendableNames == ASSUME TokensApart PROVE Spec => []NamesAreSendable
<1>1. Inv => NamesAreSendable
  BY NamesAreNotPaths DEF Inv, Good, NamesAreSendable
<1>2. QED
  BY <1>1, InvHolds, PTL
-----------------------------------------------------------------------------
(* The refinement of Register. *)

(* r is a fact that k records, about the whole or about one of its names.  *)
FactOf(k, r) ==
  \/ \E m \in DOMAIN k.unknown : r = [of |-> None, member |-> m, is |-> k.unknown[m]]
  \/ \E n \in DOMAIN k.databases : \E m \in DOMAIN k.databases[n].unknown :
       r = [of |-> n, member |-> m, is |-> k.databases[n].unknown[m]]

(* What a Catalog says.                                                    *)
LEMMA Facts ==
  \A k : /\ Says(k) = [target |-> Says(k).target, facts |-> Says(k).facts]
         /\ Says(k).target = [n \in DOMAIN k.databases |-> k.databases[n].path]
         /\ \A r : r \in Says(k).facts <=> FactOf(k, r)
BY DEF Says, FactOf

(* A Catalog that says t and whose facts are those in F.                   *)
LEMMA SaysThat ==
  ASSUME NEW k, NEW t, NEW F, Says(k).target = t, \A r : FactOf(k, r) <=> r \in F
  PROVE  Says(k) = [target |-> t, facts |-> F]
<1>1. Says(k).facts = F
  BY Facts
<1>2. QED
  BY <1>1, Facts

(* insert points a name elsewhere and touches no fact.                     *)
LEMMA SaysInsert ==
  ASSUME NEW k, Good(k), NEW n \in Names, NEW p \in Paths, InsertProblems(n, p) = {}
  PROVE  Says(insert(k, n, p)) =
           [target |-> [m \in DOMAIN Says(k).target \union {n} |->
                          IF m = n THEN p ELSE Says(k).target[m]],
            facts |-> Says(k).facts]
<1> DEFINE i == insert(k, n, p)
<1>1. /\ DOMAIN i.databases = DOMAIN k.databases \union {n} /\ i.unknown = k.unknown
      /\ i.databases[n].path = p
      /\ i.databases[n].unknown =
           (IF n \in DOMAIN k.databases THEN k.databases[n].unknown ELSE NoMembers)
      /\ \A m \in DOMAIN k.databases \ {n} : i.databases[m] = k.databases[m]
  BY InsertGood
<1> HIDE DEF i
<1>2. Says(i).target = [m \in DOMAIN Says(k).target \union {n} |->
                          IF m = n THEN p ELSE Says(k).target[m]]
  <2>1. /\ Says(i).target = [m \in DOMAIN i.databases |-> i.databases[m].path]
        /\ Says(k).target = [m \in DOMAIN k.databases |-> k.databases[m].path]
    BY Facts
  <2>2. QED
    BY <1>1, <2>1
<1>3. ASSUME NEW r PROVE FactOf(i, r) <=> r \in Says(k).facts
  <2>1. DOMAIN NoMembers = {}
    BY DEF NoMembers
  <2>2. FactOf(i, r) <=> FactOf(k, r)
    BY <1>1, <2>1 DEF FactOf
  <2>3. QED
    BY <2>2, Facts
<1>4. QED
  BY <1>2, <1>3, SaysThat DEF i

(* remove forgets a name and the facts about it.                           *)
LEMMA SaysRemove ==
  ASSUME TokensApart, NEW k, Good(k), NEW n \in Names
  PROVE  Says(remove(k, n)) =
           [target |-> [m \in DOMAIN Says(k).target \ {n} |-> Says(k).target[m]],
            facts |-> {f \in Says(k).facts : f.of # n}]
<1> DEFINE i == remove(k, n)
<1>1. /\ DOMAIN i.databases = DOMAIN k.databases \ {n} /\ i.unknown = k.unknown
      /\ \A m \in DOMAIN k.databases \ {n} : i.databases[m] = k.databases[m]
  BY RemoveGood
<1>a. n # None
  BY RecordsApart, CatalogAssumption
<1> HIDE DEF i
<1>2. Says(i).target = [m \in DOMAIN Says(k).target \ {n} |-> Says(k).target[m]]
  <2>1. /\ Says(i).target = [m \in DOMAIN i.databases |-> i.databases[m].path]
        /\ Says(k).target = [m \in DOMAIN k.databases |-> k.databases[m].path]
    BY Facts
  <2>2. QED
    BY <1>1, <2>1
<1>3. ASSUME NEW r PROVE FactOf(i, r) <=> r \in {f \in Says(k).facts : f.of # n}
  <2>1. FactOf(i, r) <=> (FactOf(k, r) /\ r.of # n)
    BY <1>1, <1>a DEF FactOf
  <2>2. QED
    BY <2>1, Facts
<1>4. QED
  BY <1>2, <1>3, SaysThat DEF i

(* What a written Catalog says is displayed, and its facts are unchanged.  *)
LEMMA SaysRendering ==
  ASSUME NEW k
  PROVE  Says(Rendering(k)) =
           [target |-> [n \in DOMAIN Says(k).target |-> displayed[Says(k).target[n]]],
            facts |-> Says(k).facts]
<1> DEFINE i == Rendering(k)
<1>1. /\ DOMAIN i.databases = DOMAIN k.databases /\ i.unknown = k.unknown
      /\ \A m \in DOMAIN k.databases :
           /\ i.databases[m].path = displayed[k.databases[m].path]
           /\ i.databases[m].unknown = k.databases[m].unknown
  BY DEF Rendering
<1> HIDE DEF i
<1>2. Says(i).target = [n \in DOMAIN Says(k).target |-> displayed[Says(k).target[n]]]
  <2>1. /\ Says(i).target = [m \in DOMAIN i.databases |-> i.databases[m].path]
        /\ Says(k).target = [m \in DOMAIN k.databases |-> k.databases[m].path]
    BY Facts
  <2>2. QED
    BY <1>1, <2>1
<1>3. ASSUME NEW r PROVE FactOf(i, r) <=> r \in Says(k).facts
  <2>1. FactOf(i, r) <=> FactOf(k, r)
    BY <1>1 DEF FactOf
  <2>2. QED
    BY <2>1, Facts
<1>4. QED
  BY <1>2, <1>3, SaysThat DEF i

(* What process w has in hand, in the terms of Register.                   *)
Copy == [w \in Writers |-> IF held[w] = None THEN None ELSE Says(held[w])]

(* The initial states are initial states of the register.                  *)
LEMMA InitShared == Init => Shared!Init
BY DEF Init, Shared!Init

(* Every step of the processes is one of the register, or none: a load     *)
(* takes its value, a rename puts the copy back, and the steps before the  *)
(* rename are invisible.                                                   *)
LEMMA NextShared ==
  ASSUME TokensApart PROVE Inv /\ [Next]_vars => [Shared!Next]_(Shared!vars)
<1> SUFFICES ASSUME Inv, [Next]_vars PROVE Shared!Next \/ UNCHANGED <<Value(file), Copy>>
  BY DEF Shared!vars, Copy
<1>0. /\ \A k : Says(k) \notin {None, Torn}
      /\ \A w \in Writers : pc[w] # "idle" => held[w] # None /\ Good(held[w])
  <2>1. \A k : Says(k) \notin {None, Torn}
    BY RecordsApart, Facts
  <2>2. \A k : Good(k) => k # None
    BY RecordsApart DEF Good
  <2>3. QED
    BY <2>1, <2>2 DEF Inv, Kept
<1>a. ASSUME NEW w \in Writers,
             held' = [held EXCEPT ![w] = None], UNCHANGED file
      PROVE  Shared!Next
  <2>1. Shared!Drop(w)
    BY <1>a DEF Shared!Drop, Inv, IsMap
  <2>2. QED
    BY <2>1 DEF Shared!Next
<1>1. CASE UNCHANGED vars
  BY <1>1 DEF vars, Copy
<1>2. ASSUME NEW w \in Writers, Load(w) PROVE Shared!Next
  <2>1. CASE LoadRefused(file) = None
    <3>1. /\ held[w] = None /\ held' = [held EXCEPT ![w] = load(file)] /\ UNCHANGED file
          /\ load(file) # None
      BY <1>2, <2>1, RecordsApart DEF Load, Inv, Kept, Good
    <3>2. Value(file) = Says(load(file))
      BY <2>1 DEF Value
    <3>3. Shared!Take(w)
      BY <1>0, <3>1, <3>2 DEF Shared!Take, Inv, IsMap
    <3>4. QED
      BY <3>3 DEF Shared!Next
  <2>2. CASE LoadRefused(file) # None
    BY <1>2, <2>2, <1>a DEF Load, Finish
  <2>3. QED
    BY <2>1, <2>2
<1>3. ASSUME NEW w \in Writers, LoadFails(w) \/ StoreFails(w) \/ RenameFails(w) \/ End(w)
      PROVE  Shared!Next
  BY <1>3, <1>a DEF LoadFails, StoreFails, RenameFails, End, Finish
<1>4. ASSUME NEW w \in Writers, NEW name \in Names, Remove(w, name) PROVE Shared!Next
  <2>1. /\ held[w] # None /\ Good(held[w]) /\ UNCHANGED file
        /\ held' = [held EXCEPT ![w] = remove(held[w], name)]
    BY <1>0, <1>4 DEF Remove
  <2>2. remove(held[w], name) # None
    BY RecordsApart DEF remove
  <2>3. Says(remove(held[w], name)) =
          [target |-> [m \in DOMAIN Says(held[w]).target \ {name} |-> Says(held[w]).target[m]],
           facts |-> {f \in Says(held[w]).facts : f.of # name}]
    BY <2>1, SaysRemove
  <2>4. Shared!Forget(w, name)
    BY <1>0, <2>1, <2>2, <2>3 DEF Shared!Forget, Inv, IsMap
  <2>5. QED
    BY <2>4 DEF Shared!Next
<1>5. ASSUME NEW w \in Writers, NEW name \in Names, NEW path \in Paths,
             Insert(w, name, path)
      PROVE  Shared!Next \/ UNCHANGED <<Value(file), Copy>>
  <2>1. CASE InsertProblems(name, path) = {}
    <3>1. /\ held[w] # None /\ Good(held[w]) /\ UNCHANGED file
          /\ held' = [held EXCEPT ![w] = insert(held[w], name, path)]
      BY <1>0, <1>5, <2>1 DEF Insert
    <3>2. insert(held[w], name, path) # None
      BY RecordsApart DEF insert
    <3>3. Says(insert(held[w], name, path)) =
            [target |-> [m \in DOMAIN Says(held[w]).target \union {name} |->
                           IF m = name THEN path ELSE Says(held[w]).target[m]],
             facts |-> Says(held[w]).facts]
      BY <2>1, <3>1, SaysInsert
    <3>4. Shared!Point(w, name, path)
      BY <1>0, <3>1, <3>2, <3>3 DEF Shared!Point, Inv, IsMap
    <3>5. path \in Absolute
      BY <2>1 DEF InsertProblems, path_problem
    <3>6. QED
      BY <3>4, <3>5 DEF Shared!Next
  <2>2. CASE InsertProblems(name, path) # {}
    BY <1>5, <2>2 DEF Insert, Copy
  <2>3. QED
    BY <2>1, <2>2
<1>6. ASSUME NEW w \in Writers, WriteStarts(w) \/ WriteEnds(w)
      PROVE  UNCHANGED <<Value(file), Copy>>
  BY <1>6 DEF WriteStarts, WriteEnds, Copy
<1>7. ASSUME NEW w \in Writers, Rename(w) PROVE Shared!Next
  <2>1. /\ held[w] # None /\ Good(held[w]) /\ held' = [held EXCEPT ![w] = None]
        /\ file' = to_document(held[w])
    BY <1>0, <1>7 DEF Rename, Finish, TempName, Inv, Kept
  <2>2. /\ to_document(held[w]) # None /\ Refused(to_document(held[w])) = None
        /\ parse(to_document(held[w])) = Rendering(held[w])
    BY <2>1, RoundTrip
  <2>3. Value(file') = Says(Rendering(held[w]))
    BY <2>1, <2>2 DEF Value, LoadRefused, load
  <2>4. Value(file)' = [target |-> [n \in DOMAIN Says(held[w]).target |->
                                     displayed[Says(held[w]).target[n]]],
                       facts |-> Says(held[w]).facts]
    BY <2>3, SaysRendering
  <2>5. Shared!Put(w)
    BY <1>0, <2>1, <2>4 DEF Shared!Put, Inv, IsMap
  <2>6. QED
    BY <2>5 DEF Shared!Next
<1>8. QED
  BY <1>1, <1>2, <1>3, <1>4, <1>5, <1>6, <1>7 DEF Next

(* The processes, their temporary files and their deaths implement the     *)
(* register: a reader sees one catalog or the other (catalog.rs:12), and   *)
(* what nobody forgot is kept, for any number of processes and documents.  *)
THEOREM FileIsRegister == ASSUME TokensApart PROVE Spec => ImplementsRegister
<1>1. Init => Shared!Init
  BY InitShared
<1>2. Inv /\ [Next]_vars => [Shared!Next]_(Shared!vars)
  BY NextShared
<1>3. QED
  BY <1>1, <1>2, InvHolds, PTL DEF Spec, ImplementsRegister, Shared!Spec
-----------------------------------------------------------------------------
(* What a refusal reports, and what mending it does. *)

(* A document with a supported version is refused for its databases.       *)
LEMMA VersionKept ==
  ASSUME TokensApart, NEW f, "catalog_version" \in DOMAIN f, f["catalog_version"] # Bare,
         f["catalog_version"] \in SUPPORTED_VERSIONS, NEW d, d # Bare
  PROVE  LET g == With(f, "databases", d) IN
         /\ Refused(g) = None <=> EntryProblems(d) = {}
         /\ Refused(g) # None => Refused(g).problems = EntryProblems(d)
         /\ Databases(g) = d /\ "catalog_version" \in DOMAIN g
         /\ g["catalog_version"] = f["catalog_version"]
<1> DEFINE g == With(f, "databases", d)
<1>1. IsMap(g) /\ DOMAIN g = DOMAIN f \union {"databases"}
  BY WithIsMap
<1>2. g["databases"] = d
  BY WithIsMap
<1>3. \A m \in DOMAIN f \ {"databases"} : g[m] = f[m]
  BY WithIsMap
<1> HIDE DEF g
<1>4. g["catalog_version"] = f["catalog_version"] /\ g # Torn
  BY <1>1, <1>3 DEF TokensApart
<1>5. Problems(g) = EntryProblems(d)
  BY <1>1, <1>2 DEF Problems
<1>6. Refused(g) = IF Problems(g) # {} THEN Rejection("CatalogInvalid", Problems(g)) ELSE None
  BY <1>1, <1>4 DEF Refused
<1>7. Refused(g) = None <=> EntryProblems(d) = {}
  BY <1>5, <1>6, RecordsApart
<1>8. Refused(g) # None => Refused(g).problems = EntryProblems(d)
  BY <1>5, <1>6 DEF Rejection
<1>9. Databases(g) = d
  BY <1>1, <1>2 DEF Databases
<1>10. QED
  BY <1>1, <1>4, <1>7, <1>8, <1>9 DEF g

Renamed(d, P) == {n \in DOMAIN d : <<"name", n>> \in P}
New(d, P, from) == {m \in DOMAIN from : from[m] \in Renamed(d, P)}

(* What is wrong after an edit: what was not mended, and the entries that  *)
(* were given a good name and are bad themselves.                          *)
LEMMA MendedFaults ==
  ASSUME TokensApart, NEW d, NEW P, NEW from, NEW path \in Absolute,
         \A m \in New(d, P, from) : m \notin DOMAIN d /\ ~name_problem(m)
  PROVE  LET e == MendedEntries(d, P, from, path) IN
         /\ e # Bare
         /\ BadNames(e) = BadNames(d) \ Renamed(d, P)
         /\ BadEntries(e) = {n \in BadEntries(d) \ Renamed(d, P) : <<"entry", n>> \notin P}
                             \union {m \in New(d, P, from) : EntryProblem(d[from[m]])}
<1> DEFINE e == MendedEntries(d, P, from, path)
           R == Renamed(d, P)
           N == New(d, P, from)
<1>1. IsMap(e) /\ DOMAIN e = (DOMAIN d \ R) \union N
  BY DEF MendedEntries, Renamed, New, IsMap
<1>2. \A m \in N : e[m] = d[from[m]]
  BY DEF MendedEntries, Renamed, New
<1>3. \A m \in DOMAIN d \ R :
        e[m] = IF <<"entry", m>> \in P THEN [path |-> path] ELSE d[m]
  BY DEF MendedEntries, Renamed, New
<1>4. ~EntryProblem([path |-> path])
  <2> DEFINE v == [path |-> path]
  <2>1. IsMap(v) /\ "path" \in DOMAIN v /\ v["path"] = path
    BY DEF IsMap
  <2> HIDE DEF v
  <2>2. v # Bare /\ path # Bare
    BY <2>1, CatalogAssumption DEF TokensApart
  <2>3. ~EntryProblem(v)
    BY <2>1, <2>2 DEF EntryProblem, path_problem
  <2>4. QED
    BY <2>3 DEF v
<1> HIDE DEF e, R, N
<1>a. N \intersect DOMAIN d = {} /\ \A m \in N : ~name_problem(m)
  BY DEF N
<1>5. e # Bare
  BY <1>1 DEF TokensApart
<1>6. BadNames(e) = BadNames(d) \ R
  BY <1>1, <1>a DEF BadNames
<1>7. \A m \in N : m \in BadEntries(e) <=> EntryProblem(d[from[m]])
  BY <1>1, <1>2, <1>a DEF BadEntries
<1>8. \A m \in DOMAIN d \ R :
        m \in BadEntries(e) <=> (m \in BadEntries(d) /\ <<"entry", m>> \notin P)
  <2> SUFFICES ASSUME NEW m \in DOMAIN d \ R
               PROVE  m \in BadEntries(e)
                        <=> (m \in BadEntries(d) /\ <<"entry", m>> \notin P)
    OBVIOUS
  <2>1. CASE <<"entry", m>> \in P
    BY <2>1, <1>1, <1>3, <1>4 DEF BadEntries
  <2>2. CASE <<"entry", m>> \notin P
    BY <2>2, <1>1, <1>3 DEF BadEntries
  <2>3. QED
    BY <2>1, <2>2
<1>9. BadEntries(e) \subseteq (DOMAIN d \ R) \union N /\ BadEntries(d) \subseteq DOMAIN d
  BY <1>1 DEF BadEntries
<1>10. BadEntries(e) = {n \in BadEntries(d) \ R : <<"entry", n>> \notin P}
                       \union {m \in N : EntryProblem(d[from[m]])}
  BY <1>7, <1>8, <1>9, <1>a
<1>11. QED
  BY <1>5, <1>6, <1>10 DEF e, R, N

(* A renaming gives every entry under a bad name a good one that is free.  *)
LEMMA RenamingsFit ==
  ASSUME NEW d, NEW from \in Renamings(d)
  PROVE  /\ \A m \in DOMAIN from : ~name_problem(m) /\ m \notin DOMAIN d
         /\ \A m \in DOMAIN from : from[m] \in BadNames(d)
         /\ \A n \in BadNames(d) : \E m \in DOMAIN from : from[m] = n
<1>1. PICK S \in SUBSET (Spare \ DOMAIN d) : from \in Bijection(S, BadNames(d))
  BY DEF Renamings
<1>2. from \in [S -> BadNames(d)] /\ \A n \in BadNames(d) : \E m \in S : from[m] = n
  BY <1>1 DEF Bijection, Injection, Surjection
<1>3. QED
  BY <1>1, <1>2, CatalogAssumption

(* A problem of the entries is one of a name or of an entry.               *)
LEMMA ProblemsAre ==
  \A d : /\ \A n : <<"name", n>> \in EntryProblems(d) <=> n \in BadNames(d)
         /\ \A n : <<"entry", n>> \in EntryProblems(d) <=> n \in BadEntries(d)
         /\ \A p \in EntryProblems(d) : \E n : p \in {<<"name", n>>, <<"entry", n>>}
         /\ EntryProblems(d) = {} <=> (BadNames(d) = {} /\ BadEntries(d) = {})
BY DEF EntryProblems

(* Mending what a refusal names, in databases that were readable.          *)
LEMMA MendedOnce ==
  ASSUME TokensApart, NEW d, NEW from \in Renamings(d), NEW path \in Absolute
  PROVE  /\ \A P \in SUBSET EntryProblems(d) : P # EntryProblems(d) =>
              EntryProblems(MendedEntries(d, P, from, path)) # {}
         /\ BadNames(MendedEntries(d, EntryProblems(d), from, path)) = {}
         /\ BadEntries(MendedEntries(d, EntryProblems(d), from, path)) = {}
              <=> ~ \E n \in BadNames(d) : EntryProblem(d[n])
<1>1. ASSUME NEW P \in SUBSET EntryProblems(d)
      PROVE  /\ BadNames(MendedEntries(d, P, from, path)) = BadNames(d) \ Renamed(d, P)
             /\ BadEntries(MendedEntries(d, P, from, path)) =
                  {n \in BadEntries(d) \ Renamed(d, P) : <<"entry", n>> \notin P}
                  \union {m \in New(d, P, from) : EntryProblem(d[from[m]])}
  <2>1. \A m \in New(d, P, from) : m \notin DOMAIN d /\ ~name_problem(m)
    BY RenamingsFit DEF New
  <2>2. QED
    BY <2>1, MendedFaults
<1>2. \A P \in SUBSET EntryProblems(d) :
        /\ Renamed(d, P) = {n \in BadNames(d) : <<"name", n>> \in P}
        /\ Renamed(d, P) \intersect BadEntries(d) = {}
  BY ProblemsAre DEF Renamed, BadNames, BadEntries
<1>3. ASSUME NEW P \in SUBSET EntryProblems(d), P # EntryProblems(d)
      PROVE  EntryProblems(MendedEntries(d, P, from, path)) # {}
  <2> DEFINE e == MendedEntries(d, P, from, path)
  <2>1. PICK p \in EntryProblems(d) : p \notin P
    BY <1>3
  <2>2. PICK n : p \in {<<"name", n>>, <<"entry", n>>}
    BY ProblemsAre
  <2>3. CASE p = <<"name", n>>
    <3>1. n \in BadNames(d) /\ n \notin Renamed(d, P)
      BY <2>1, <2>3, <1>2, ProblemsAre
    <3>2. n \in BadNames(e)
      BY <3>1, <1>1
    <3>3. QED
      BY <3>2, ProblemsAre
  <2>4. CASE p = <<"entry", n>>
    <3>1. n \in BadEntries(d) /\ n \notin Renamed(d, P)
      BY <2>1, <2>4, <1>2, ProblemsAre
    <3>2. n \in BadEntries(e)
      BY <3>1, <2>1, <2>4, <1>1
    <3>3. QED
      BY <3>2, ProblemsAre
  <2>5. QED
    BY <2>2, <2>3, <2>4
<1> DEFINE P == EntryProblems(d)
           e == MendedEntries(d, P, from, path)
<1>4. Renamed(d, P) = BadNames(d)
  <2>1. \A n \in BadNames(d) : <<"name", n>> \in P
    BY ProblemsAre
  <2>2. Renamed(d, P) = {n \in BadNames(d) : <<"name", n>> \in P}
    BY <1>2
  <2> HIDE DEF P
  <2>3. QED
    BY <2>1, <2>2
<1>5. BadNames(e) = {}
  BY <1>1, <1>4
<1>6. BadEntries(e) = {m \in New(d, P, from) : EntryProblem(d[from[m]])}
  <2> DEFINE Left == {n \in BadEntries(d) \ Renamed(d, P) : <<"entry", n>> \notin P}
             Found == {m \in New(d, P, from) : EntryProblem(d[from[m]])}
  <2>1. BadEntries(e) = Left \union Found
    BY <1>1
  <2>2. \A n \in BadEntries(d) : <<"entry", n>> \in P
    BY ProblemsAre
  <2>3. Left = {}
    BY <2>2
  <2> HIDE DEF Left, Found, e
  <2>4. BadEntries(e) = Found
    BY <2>1, <2>3
  <2>5. QED
    BY <2>4 DEF Found
<1>7. New(d, P, from) = DOMAIN from
  <2>1. \A m \in DOMAIN from : from[m] \in BadNames(d)
    BY RenamingsFit
  <2> HIDE DEF P
  <2>2. QED
    BY <1>4, <2>1 DEF New
<1>8. BadEntries(e) = {} <=> ~ \E n \in BadNames(d) : EntryProblem(d[n])
  <2>1. /\ \A m \in DOMAIN from : from[m] \in BadNames(d)
        /\ \A n \in BadNames(d) : \E m \in DOMAIN from : from[m] = n
    BY RenamingsFit
  <2> DEFINE B == BadEntries(e)
  <2>2. B = {m \in DOMAIN from : EntryProblem(d[from[m]])}
    BY <1>6, <1>7
  <2> HIDE DEF B
  <2>3. ASSUME NEW m \in B
        PROVE  \E n \in BadNames(d) : EntryProblem(d[n])
    <3>1. m \in DOMAIN from /\ EntryProblem(d[from[m]])
      BY <2>2
    <3>2. QED
      BY <2>1, <3>1
  <2>4. ASSUME NEW n \in BadNames(d), EntryProblem(d[n])
        PROVE  B # {}
    <3>1. PICK m \in DOMAIN from : from[m] = n
      BY <2>1
    <3>2. EntryProblem(d[from[m]])
      BY <3>1, <2>4
    <3>3. m \in B
      BY <2>2, <3>2
    <3>4. QED
      BY <3>3
  <2>5. B = {} <=> ~ \E n \in BadNames(d) : EntryProblem(d[n])
    BY <2>3, <2>4
  <2>6. QED
    BY <2>5 DEF B
<1>9. QED
  BY <1>3, <1>5, <1>8

(* Entries whose names are good are mended at once.                        *)
LEMMA MendedAgain ==
  ASSUME TokensApart, NEW d, BadNames(d) = {}, NEW from, NEW path \in Absolute
  PROVE  EntryProblems(MendedEntries(d, EntryProblems(d), from, path)) = {}
<1> DEFINE P == EntryProblems(d)
           e == MendedEntries(d, P, from, path)
<1>1. Renamed(d, P) = {} /\ New(d, P, from) = {}
  BY ProblemsAre DEF Renamed, New
<1>2. BadNames(e) = {} /\ BadEntries(e) = {n \in BadEntries(d) : <<"entry", n>> \notin P}
  BY <1>1, MendedFaults
<1>3. QED
  BY <1>2, ProblemsAre

(* Whatever the document.                                                  *)
LEMMA TwoPasses ==
  ASSUME TokensApart, NEW f, LoadRefused(f) # None,
         ~ LoadRefused(f).problems \subseteq {<<"document", None>>, <<"catalog_version", None>>},
         NEW from \in Renamings(Databases(f)), NEW path \in Absolute
  PROVE  LET problems == LoadRefused(f).problems
             once == Mended(f, problems, from, path) IN
         /\ \A done \in SUBSET problems :
              done # problems => Refused(Mended(f, done, from, path)) # None
         /\ Refused(once) = None <=> ~Hidden(f)
         /\ Refused(once) # None =>
              Refused(Mended(once, Refused(once).problems, from, path)) = None
<1> DEFINE P == Problems(f)
           d == Databases(f)
           Edit(Q) == MendedEntries(d, Q, from, path)
           once == Mended(f, P, from, path)
<1>1. f # None /\ LoadRefused(f) = Refused(f)
  BY DEF LoadRefused
<1>2. /\ "catalog_version" \in DOMAIN f /\ f["catalog_version"] # Bare
      /\ f["catalog_version"] \in SUPPORTED_VERSIONS
      /\ P # {} /\ Refused(f) = Rejection("CatalogInvalid", P)
  BY <1>1 DEF Refused, Rejection
<1>3. LoadRefused(f).problems = P /\ Refused(f) # None
  BY <1>1, <1>2 DEF Rejection
<1>4. ASSUME NEW Q, Q # {}
      PROVE  /\ Mended(f, Q, from, path) = With(f, "databases", Edit(Q))
             /\ Edit(Q) # Bare
             /\ Refused(Mended(f, Q, from, path)) = None <=> EntryProblems(Edit(Q)) = {}
  <2>1. Mended(f, Q, from, path) = With(f, "databases", Edit(Q))
    BY <1>4 DEF Mended
  <2>2. Edit(Q) # Bare
    BY DEF MendedEntries, TokensApart, IsMap
  <2> HIDE DEF Edit
  <2>3. Refused(With(f, "databases", Edit(Q))) = None <=> EntryProblems(Edit(Q)) = {}
    BY <2>2, <1>2, VersionKept
  <2>4. QED
    BY <2>1, <2>2, <2>3
<1>5. CASE "databases" \notin DOMAIN f \/ f["databases"] = Bare
  <2>1. P = {<<"databases", None>>} /\ d = NoMembers
    BY <1>5 DEF Problems, Databases
  <2>2. DOMAIN NoMembers = {} /\ BadNames(NoMembers) = {} /\ BadEntries(NoMembers) = {}
    BY DEF NoMembers, BadNames, BadEntries
  <2>3. ~Hidden(f)
    BY <2>1, <2>2 DEF Hidden
  <2>4. ASSUME NEW done \in SUBSET P, done # P
        PROVE  Refused(Mended(f, done, from, path)) # None
    <3>1. done = {}
      BY <2>1, <2>4
    <3>2. QED
      BY <3>1, <1>3 DEF Mended
  <2>5. Refused(once) = None
    <3>1. Renamed(NoMembers, P) = {} /\ New(NoMembers, P, from) = {}
      BY <2>1, <2>2 DEF Renamed, New
    <3>2. BadNames(Edit(P)) = {} /\ BadEntries(Edit(P)) = {}
      <4> DEFINE e == MendedEntries(NoMembers, P, from, path)
      <4>1. /\ BadNames(e) = BadNames(NoMembers) \ Renamed(NoMembers, P)
            /\ BadEntries(e) =
                 {n \in BadEntries(NoMembers) \ Renamed(NoMembers, P) : <<"entry", n>> \notin P}
                 \union {m \in New(NoMembers, P, from) : EntryProblem(NoMembers[from[m]])}
        <5> HIDE DEF P
        <5>1. QED
          BY <3>1, MendedFaults
      <4>2. Edit(P) = e
        BY <2>1
      <4> HIDE DEF e
      <4>3. BadNames(e) = {} /\ BadEntries(e) = {}
        <5> HIDE DEF P
        <5>1. QED
          BY <4>1, <3>1, <2>2
      <4>4. QED
        BY <4>2, <4>3
    <3>3. EntryProblems(Edit(P)) = {}
      BY <3>2, ProblemsAre
    <3>4. QED
      BY <3>3, <1>2, <1>4
  <2>6. QED
    BY <1>3, <2>3, <2>4, <2>5
<1>6. CASE "databases" \in DOMAIN f /\ f["databases"] # Bare
  <2>1. P = EntryProblems(d)
    BY <1>6 DEF Problems, Databases
  <2>2. /\ \A Q \in SUBSET P : Q # P => EntryProblems(Edit(Q)) # {}
        /\ BadNames(Edit(P)) = {}
        /\ BadEntries(Edit(P)) = {} <=> ~ \E n \in BadNames(d) : EntryProblem(d[n])
    BY <2>1, MendedOnce
  <2>3. ASSUME NEW done \in SUBSET P, done # P
        PROVE  Refused(Mended(f, done, from, path)) # None
    <3>1. CASE done = {}
      BY <3>1, <1>3 DEF Mended
    <3>2. CASE done # {}
      BY <3>2, <2>2, <2>3, <1>4
    <3>3. QED
      BY <3>1, <3>2
  <2>4. Refused(once) = None <=> EntryProblems(Edit(P)) = {}
    BY <1>2, <1>4
  <2>5. Refused(once) = None <=> ~Hidden(f)
    BY <2>2, <2>4, ProblemsAre DEF Hidden
  <2>6. ASSUME Refused(once) # None
        PROVE  Refused(Mended(once, Refused(once).problems, from, path)) = None
    <3> DEFINE e == Edit(P)
               R == Refused(once).problems
               t == MendedEntries(e, R, from, path)
    <3>1. once = With(f, "databases", e) /\ e # Bare
      BY <1>2, <1>4
    <3> HIDE DEF e
    <3>2. /\ R = EntryProblems(e)
          /\ Databases(once) = e /\ "catalog_version" \in DOMAIN once
          /\ once["catalog_version"] = f["catalog_version"]
      BY <3>1, <2>6, <1>2, VersionKept
    <3>3. R # {}
      BY <2>4, <2>6, <3>2 DEF e
    <3>4. Mended(once, R, from, path) = With(once, "databases", t)
      BY <3>2, <3>3 DEF Mended
    <3>5. EntryProblems(t) = {}
      BY <2>2, <3>2, MendedAgain DEF e
    <3>6. t # Bare
      BY DEF MendedEntries, TokensApart, IsMap
    <3> HIDE DEF t, once
    <3>7. Refused(With(once, "databases", t)) = None
      BY <3>2, <3>5, <3>6, <1>2, VersionKept
    <3>8. QED
      BY <3>4, <3>7 DEF R
  <2>7. QED
    BY <1>3, <2>3, <2>5, <2>6
<1>7. QED
  BY <1>5, <1>6

(* Every refusal that names entries names only what has to be mended, and  *)
(* all of it but the faults of entries whose name is at fault too; a       *)
(* second refusal names those (catalog.rs:34, catalog.rs:238), whatever    *)
(* the document and however it is edited.                                  *)
THEOREM FixableTwice == ASSUME TokensApart PROVE Spec => []FixableInTwoPasses
<1>1. FixableInTwoPasses
  BY TwoPasses DEF FixableInTwoPasses
<1>2. QED
  BY <1>1, PTL
=============================================================================
