-------------------------- MODULE MC_ManagerMirror ---------------------------
(***************************************************************************)
(* TLC instances of ManagerMirror: two types of conditions, one of the ESC *)
(* controller and one of the crd-annotator, either way.                    *)
(***************************************************************************)
EXTENDS ManagerMirror

ConditionTypes == {"Ready", "UpdateAnnotation"}
ConditionValues == {"yes", "no"}
=============================================================================
