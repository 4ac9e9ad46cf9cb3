---------------------------- MODULE MCCatalogSync ----------------------------
(***************************************************************************)
(* A publisher of at most four catalogs, the third malformed.              *)
(***************************************************************************)
EXTENDS CatalogSync

ThirdMalformed == {3}

AllSettings == Setting
=============================================================================
