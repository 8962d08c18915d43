--------------------------- MODULE MCCatalogCache ---------------------------
(***************************************************************************)
(* CatalogCache on small sets, for TLC.                                    *)
(***************************************************************************)
EXTENDS CatalogCache, TLC

\* Nothing tells one read, or one write, from another.
Interchangeable == Permutations(Readers) \cup Permutations(Writers)
=============================================================================
