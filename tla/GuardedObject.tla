---------------------------- MODULE GuardedObject ----------------------------
(***************************************************************************)
(* What a finalizer promises, apart from how a controller keeps it: work   *)
(* on behalf of an object goes on only while the controller's finalizer    *)
(* keeps the object on the server; the finalizer is set only on an object  *)
(* that nobody has deleted, and it is removed only from one that somebody  *)
(* has, when no work is under way.                                         *)
(***************************************************************************)

VARIABLES
  object,   \* the stage of the object's life
  busy      \* the controller works for the object

vars == <<object, busy>>

\* Not on the server; without the finalizer; with it; deleted by a user but kept by the
\* finalizer; deleted and kept by somebody else's finalizer only.
Stage == {"absent", "new", "held", "closing", "released"}
Kept == {"held", "closing"}

TypeOK == object \in Stage /\ busy \in BOOLEAN

Init == object \in {"absent", "new"} /\ busy = FALSE

Create == object = "absent" /\ object' = "new" /\ UNCHANGED busy

Hold == object = "new" /\ object' = "held" /\ UNCHANGED busy

\* A user's deletion takes effect at once where no finalizer is set.
Delete ==
  /\ \/ object = "new" /\ object' \in {"absent", "released"}
     \/ object = "held" /\ object' = "closing"
  /\ UNCHANGED busy

Release ==
  /\ object = "closing" /\ ~busy
  /\ object' \in {"absent", "released"}
  /\ UNCHANGED busy

Remove == object = "released" /\ object' = "absent" /\ UNCHANGED busy

Begin == object \in Kept /\ ~busy /\ busy' = TRUE /\ UNCHANGED object

End == busy /\ busy' = FALSE /\ UNCHANGED object

Next == Create \/ Hold \/ Delete \/ Release \/ Remove \/ Begin \/ End

Spec == Init /\ [][Next]_vars
=============================================================================
