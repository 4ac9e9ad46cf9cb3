---------------------------- MODULE CatalogInUse ----------------------------
(***************************************************************************)
(* What the subscriber's catalog retrieval promises: the publisher makes   *)
(* one catalog after the other, and the one in use is replaced only by a   *)
(* later one that exists.                                                  *)
(***************************************************************************)
EXTENDS Naturals

VARIABLES
  available,  \* catalogs published so far
  inUse       \* the catalog in use, 0 before there is one

vars == <<available, inUse>>

Init == available \in Nat /\ inUse = 0

Publish == available' = available + 1 /\ UNCHANGED inUse

Adopt == inUse' \in inUse + 1 .. available /\ UNCHANGED available

Next == Publish \/ Adopt

Spec == Init /\ [][Next]_vars
=============================================================================
