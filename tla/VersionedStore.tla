--------------------------- MODULE VersionedStore ---------------------------
(***************************************************************************)
(* The `VersionedStore` trait of pivss-server (store.rs): a map from keys  *)
(* to versioned values, written by a conditional `put`.  One key is a cell *)
(* [version, value]; an absent key is the cell with version 0, the version *)
(* `put` expects for a first write.  Both backends, MemoryStore and the    *)
(* vss-server behind VssHttpStore, decide a put this way.                  *)
(***************************************************************************)
EXTENDS Integers

\* Definitions named X_Fault are mutants: what X would be with a plausible bug.
FirstWrite_Fault == -1
FirstWrite == 0

Unconditional == -1

Absent(none) == [version |-> 0, value |-> none]

Present(cell) == cell.version # 0

Accepts(cell, version) == version \in {Unconditional, cell.version}

NewVersion(version) == IF version = Unconditional THEN 1 ELSE version + 1

\* The cell after a put: a refused put (StoreError::Conflict) changes nothing.
Put(cell, version, value) ==
    IF Accepts(cell, version)
    THEN [version |-> NewVersion(version), value |-> value]
    ELSE cell
=============================================================================
