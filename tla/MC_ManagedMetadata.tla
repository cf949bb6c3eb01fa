------------------------- MODULE MC_ManagedMetadata --------------------------
(***************************************************************************)
(* TLC instances of ManagedMetadata: the Namespace and one more resource,  *)
(* which in the run that passes is optional, such as the webhook Secret.   *)
(***************************************************************************)
EXTENDS ManagedMetadata

CONSTANTS a, b, v, empty, absent

OneKey == {a}
TwoKeys == {a, b}
NonEmpty == {v}
NoOptional == {}
LastOptional == {N}
=============================================================================
