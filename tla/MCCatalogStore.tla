--------------------------- MODULE MCCatalogStore ---------------------------
(***************************************************************************)
(* Small instances of CatalogStore.                                        *)
(***************************************************************************)
EXTENDS CatalogStore, TLC

Alike == Permutations(AppTasks) \cup Permutations(Edits)
=============================================================================
