-------------------------- MODULE MC_ESCReconciler ---------------------------
(***************************************************************************)
(* TLC instances of ESCReconciler: the configurations that users choose    *)
(* from.                                                                   *)
(***************************************************************************)
EXTENDS ESCReconciler

PlainOrRef == {"plain", "ref"}
RefOrBundle == {"ref", "bundle"}
=============================================================================
