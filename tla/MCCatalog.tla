----------------------------- MODULE MCCatalog -----------------------------
(***************************************************************************)
(* Instances of Catalog for TLC: the documents found at its path.          *)
(***************************************************************************)
EXTENDS Catalog, TLC

CONSTANTS Shown, Odd, Here

A == <<"a">>
B == <<"b", "underscore">>

MCNames == {A, <<"a", "slash">>}

(* Odd is a path that is not UTF-8; it is displayed as another one.        *)
MCDisplayed == [p \in {Odd, Shown} |-> IF p = Odd THEN Shown ELSE p]

Entry(path) == [path |-> path]
Blue(path) == [path |-> path, colour |-> "blue"]

Document(version, databases) == [catalog_version |-> version, databases |-> databases]

(* A catalog in use, with members of a later build.                        *)
InUse == Document(1, (A :> Blue(Shown)) @@ (B :> Entry(Shown))) @@ ("written_by" :> "later")

(* Every way a document can be refused, and several of them at once.       *)
Broken ==
  {Torn, [databases |-> NoMembers], Document(Bare, NoMembers),
   Document(2, (<<"at", "a">> :> Bare)), [catalog_version |-> 1], Document(1, Bare),
   Document(1, (A :> Bare) @@ (B :> Entry(Shown)) @@ (<<"b">> :> [colour |-> "blue"])
               @@ (<<"b", "b">> :> Entry(Bare)) @@ (<<"a", "a">> :> Entry(Here))),
   Document(1, (<<>> :> Entry(Shown)) @@ (<<"at", "a">> :> Entry(Shown))
               @@ (<<"dot">> :> Entry(Here)) @@ (<<"a", "slash">> :> Entry(Shown))),
   Document(1, (<<>> :> Blue(Shown)) @@ (A :> Entry(Here)) @@ (<<"at">> :> Entry(Shown)))}

MCFiles == {None, InUse, Document(1, NoMembers)} \union Broken

(* As many names as a document has bad ones, and in none of them.          *)
MCSpare == {<<"b", "a">>, <<"a", "b">>, <<"a", "a", "a">>, <<"b", "b", "b">>}
NoSpare == {}

(* Both names of a catalog in use.                                         *)
TwoNames == {A, B}
InUseOnly == {InUse}

WriterSymmetry == Permutations(Writers)
=============================================================================
