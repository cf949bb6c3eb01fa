--------------------------- MODULE MC_CRDAnnotator ----------------------------
(***************************************************************************)
(* TLC instances of CRDAnnotator: one or two CRDs.                         *)
(***************************************************************************)
EXTENDS CRDAnnotator

OneCRD == {"externalsecrets"}
TwoCRDs == {"externalsecrets", "secretstores"}
=============================================================================
