-------------------------- MODULE MCCatalogWriter --------------------------
(***************************************************************************)
(* The catalog writer on a small instance.                                 *)
(***************************************************************************)
EXTENDS CatalogWriter, TLC

\* Contents and paths are only compared with each other.
Symmetry == Permutations(Content) \cup Permutations(Path)
=============================================================================
