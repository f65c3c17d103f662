------------------------------ MODULE MCCatalog -----------------------------
(* Small instances of Catalog.                                             *)
EXTENDS Catalog, TLC
=============================================================================
