--------------------------- MODULE CatalogClaims ---------------------------
(***************************************************************************)
(* What README.md says of changes to the catalog, and the code does not    *)
(* guarantee.  A run of its own finds the interleaving.                    *)
(***************************************************************************)
EXTENDS MCCatalog

VARIABLE base  \* history: base[w] is the file that w loaded

ClaimedSpec ==
  /\ Init /\ base = [w \in Writers |-> None]
  /\ [][/\ Next
        /\ base' = [w \in Writers |-> IF pc[w] = "idle" THEN file ELSE base[w]]
       ]_<<vars, base>>

Target(catalog, n) ==
  IF n \in DOMAIN catalog.databases THEN catalog.databases[n].path ELSE None

(* README.md:23: the repository owns "serialized catalog mutation".  Then  *)
(* a store changes where a name points only if the process that stores has *)
(* changed that name.                                                      *)
MutationsAreSerialized ==
  [][\A n \in Names : Target(load(file'), n) # Target(load(file), n) =>
       \E w \in Writers :
         /\ pc[w] = "written" /\ pc'[w] = "idle"
         /\ Target(held[w], n) # Target(load(base[w]), n)]_<<vars, base>>
=============================================================================
