------------------------------ MODULE MCInterop ------------------------------
(***************************************************************************)
(* Any relay, and mlmpub.                                                  *)
(***************************************************************************)
EXTENDS Interop

AnyRelay == {"any", "mlmpub"}
=============================================================================
