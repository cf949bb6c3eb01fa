---------------------------- MODULE ManagerMirror ----------------------------
(***************************************************************************)
(* The ExternalSecretsManager (ESM) controller: it copies the conditions   *)
(* of the ExternalSecretsConfig (ESC) into the status of the ESM, which    *)
(* the operator creates when it starts and holds with a finalizer.         *)
(*                                                                         *)
(* The copy is made with care for what changed: the write is left out when *)
(* statuses and messages are the same, and the first condition copied into *)
(* a fresh entry goes to a detached copy of that entry.  What makes up for *)
(* it is that the controller is woken by its own writes.                   *)
(*                                                                         *)
(* Both objects are read from the informer cache, which may lag behind.    *)
(* The spec of the ESM, which this controller does not use, and the once   *)
(* gate of its Kubernetes event are left out.                              *)
(***************************************************************************)
EXTENDS Integers, Sequences

CONSTANTS
  Types,        \* types of conditions
  Values,       \* what a condition says: its status and message
  None,         \* no such condition
  MaxChanges,   \* bound on what users and the other controllers do
  MaxFailures   \* bound on failed API calls and operator restarts

ASSUME ConstantsAssumption ==
  /\ None \notin Values
  /\ MaxChanges \in Nat /\ MaxFailures \in Nat

VARIABLES
  esm, esmView,   \* the ESM on the API server and in the informer cache
  esc, escView,   \* the ESC, likewise
  events,         \* admitted watch events not yet delivered
  queued,         \* the workqueue holds the request (both objects are named "cluster")
  pass,           \* the Reconcile call under way
  changes, failures

vars == <<esm, esmView, esc, escView, events, queued, pass, changes, failures>>

\* The entry of the ESC controller in status.controllerStatuses.
Mirror == [present : BOOLEAN, conds : [Types -> Values \cup {None}], gen : Nat]
NoMirror == [present |-> FALSE, conds |-> [t \in Types |-> None], gen |-> 0]

ESM == [uid : Nat, phase : {"live", "deleting", "gone"}, finalizer : BOOLEAN, mirror : Mirror]

\* status.conditions of the ESC, in the order in which they were first set.
Condition == [type : Types, value : Values, gen : Nat]
ESC == [exists : BOOLEAN, gen : Nat, conds : Seq(Condition)]

Working == {"read", "status"}
Pass == [pc : {"idle", "remove", "finalizer", "refetch"} \cup Working, esm : ESM]

TypeOK ==
  /\ esm \in ESM /\ esmView \in ESM
  /\ esc \in ESC /\ escView \in ESC
  /\ events \subseteq {"esm", "esc"}
  /\ queued \in BOOLEAN
  /\ pass \in Pass
  /\ changes \in Nat /\ failures \in Nat

-----------------------------------------------------------------------------
(* Users, the controllers that write the ESC's status, and the informers.    *)

\* CreateDefaultESMResource
NewESM(u) == [uid |-> u, phase |-> "live", finalizer |-> FALSE, mirror |-> NoMirror]

NewESC == [exists |-> TRUE, gen |-> 1, conds |-> <<>>]
NoESC == [exists |-> FALSE, gen |-> 0, conds |-> <<>>]

Idle == [pc |-> "idle", esm |-> NewESM(0)]

Init ==
  /\ esm = NewESM(1) /\ esmView = esm
  /\ esc \in {NoESC, NewESC} /\ escView = esc
  /\ events = {} /\ queued = TRUE
  /\ pass = Idle
  /\ changes = 0 /\ failures = 0

\* The ESM too is watched for changes of its generation only.
StoreESM_GenerationOnly(new) ==
  /\ esm' = new
  /\ events' = IF <<new.uid, new.phase>> # <<esm.uid, esm.phase>> THEN events \cup {"esm"}
               ELSE events

\* For(ExternalSecretsManager) has no predicate: every change of it is an event.  Only
\* lastTransitionTime, which has seconds, may differ when the rest of a write does not.
StoreESM(new) ==
  /\ esm' = new
  /\ events' \in {events \cup {"esm"}} \cup (IF new = esm THEN {events} ELSE {})

\* statusUpdatePredicate: creation, deletion and changes of the status get through.
StoreESC(new) ==
  /\ esc' = new
  /\ events' = IF <<new.exists, new.conds>> # <<esc.exists, esc.conds>>
               THEN events \cup {"esc"} ELSE events

Change == changes < MaxChanges /\ changes' = changes + 1

TypesOf(conds) == {conds[i].type : i \in DOMAIN conds}

\* meta.SetStatusCondition, by the ESC controller and the crd-annotator.
SetStatusCondition ==
  /\ Change
  /\ esc.exists
  /\ \E t \in Types, v \in Values :
       LET c == [type |-> t, value |-> v, gen |-> esc.gen] IN
       StoreESC([esc EXCEPT !.conds =
         IF t \in TypesOf(@)
         THEN [i \in DOMAIN @ |-> IF @[i].type = t THEN c ELSE @[i]]
         ELSE Append(@, c)])
  /\ UNCHANGED <<esm, esmView, escView, queued, pass, failures>>

EditESC ==
  /\ Change
  /\ \/ esc.exists /\ StoreESC([esc EXCEPT !.gen = @ + 1])
     \/ esc.exists /\ StoreESC(NoESC)
     \/ ~esc.exists /\ StoreESC(NewESC)
  /\ UNCHANGED <<esm, esmView, escView, queued, pass, failures>>

\* The ESM is edited, deleted or created by a user.
EditESM ==
  /\ Change
  /\ \/ esm.phase = "live" /\ esm' = esm /\ events' = events \cup {"esm"}
     \/ /\ esm.phase = "live"
        /\ StoreESM([esm EXCEPT !.phase = IF esm.finalizer THEN "deleting" ELSE "gone"])
     \/ esm.phase = "gone" /\ StoreESM(NewESM(esm.uid + 1))
  /\ UNCHANGED <<esmView, esc, escView, queued, pass, failures>>

SyncESM ==
  /\ esmView # esm \/ "esm" \in events
  /\ esmView' = esm
  /\ events' = events \ {"esm"} /\ queued' = (queued \/ "esm" \in events)
  /\ UNCHANGED <<esm, esc, escView, pass, changes, failures>>

SyncESC ==
  /\ escView # esc \/ "esc" \in events
  /\ escView' = esc
  /\ events' = events \ {"esc"} /\ queued' = (queued \/ "esc" \in events)
  /\ UNCHANGED <<esm, esmView, esc, pass, changes, failures>>

-----------------------------------------------------------------------------
(* Reconcile.                                                                *)

\* Returning an error makes controller-runtime call again after a backoff.
ReturnError == pass' = Idle /\ queued' = TRUE

\* An ESM that is not there is an error like any other.
Reconcile ==
  /\ pass.pc = "idle" /\ queued
  /\ IF esmView.phase = "gone" THEN ReturnError
     ELSE /\ queued' = FALSE
          /\ pass' = [pc |-> IF esmView.phase = "deleting" THEN "remove" ELSE "finalizer",
                      esm |-> esmView]
  /\ UNCHANGED <<esm, esmView, esc, escView, events, changes, failures>>

\* UpdateWithRetry: the copy goes through when the cache is current and holds the object
\* that the copy is of.
CanUpdate == esmView = esm /\ esm.phase # "gone" /\ pass.esm.uid = esm.uid

\* The finalizer stays.
RemoveFinalizer_Kept ==
  /\ pass.pc = "remove"
  /\ pass' = Idle
  /\ UNCHANGED <<esm, events, queued, esmView, esc, escView, changes, failures>>

\* The last finalizer gone, the server removes the object.
RemoveFinalizer ==
  /\ pass.pc = "remove"
  /\ \/ /\ pass.esm.finalizer /\ CanUpdate
        /\ StoreESM([esm EXCEPT !.finalizer = FALSE, !.phase = "gone"])
        /\ pass' = Idle /\ UNCHANGED queued
     \/ /\ pass.esm.finalizer /\ ~CanUpdate
        /\ ReturnError /\ UNCHANGED <<esm, events>>
     \/ /\ ~pass.esm.finalizer
        /\ pass' = Idle /\ UNCHANGED <<esm, events, queued>>
  /\ UNCHANGED <<esmView, esc, escView, changes, failures>>

\* A pass does not wait for the finalizer.
AddFinalizer_Skipped ==
  /\ pass.pc = "finalizer"
  /\ pass' = [pass EXCEPT !.pc = "read"]
  /\ UNCHANGED <<esm, events, queued, esmView, esc, escView, changes, failures>>

\* The server accepts no new finalizer on an object that is being deleted.
AddFinalizer ==
  LET accepted == CanUpdate /\ esm.phase = "live" IN
  /\ pass.pc = "finalizer"
  /\ \/ /\ pass.esm.finalizer
        /\ pass' = [pass EXCEPT !.pc = "read"] /\ UNCHANGED <<esm, events, queued>>
     \/ /\ ~pass.esm.finalizer /\ accepted
        /\ StoreESM([esm EXCEPT !.finalizer = TRUE])
        /\ pass' = [pass EXCEPT !.pc = "refetch"] /\ UNCHANGED queued
     \/ /\ ~pass.esm.finalizer /\ ~accepted
        /\ ReturnError /\ UNCHANGED <<esm, events>>
  /\ UNCHANGED <<esmView, esc, escView, changes, failures>>

\* After the update the copy is read anew, from the cache.
RefetchESM ==
  /\ pass.pc = "refetch"
  /\ IF esmView.phase = "gone" THEN ReturnError
     ELSE pass' = [pc |-> "read", esm |-> esmView] /\ UNCHANGED queued
  /\ UNCHANGED <<esm, esmView, esc, escView, events, changes, failures>>

\* The condition that getControllerCondition loses: the entry that it appends is a copy of
\* the one it returns.
LostType(mirror, conds) == IF mirror.present THEN {} ELSE {conds[1].type}

\* A condition that is there counts as changed.
StatusUpdated_Always(mirror, conds) == conds # <<>>

\* What updateStatusCondition returns for one condition at least; the observed generation
\* does not count.
StatusUpdated(mirror, conds) ==
  \E i \in DOMAIN conds : ~mirror.present \/ mirror.conds[conds[i].type] # conds[i].value

\* The wrong field of the condition is copied.
Mirrored_WrongField(mirror, conds) ==
  [mirror EXCEPT !.present = TRUE,
     !.conds = [t \in Types |-> IF t \in TypesOf(conds) THEN t ELSE @[t]]]

\* updateStatusCondition for all the conditions of the ESC.
Mirrored(mirror, conds) ==
  LET kept == TypesOf(conds) \ LostType(mirror, conds)
      last == conds[Len(conds)] IN
  [present |-> TRUE,
   conds |-> [t \in Types |->
     IF t \in kept THEN conds[CHOOSE i \in DOMAIN conds : conds[i].type = t].value
     ELSE mirror.conds[t]],
   gen |-> IF last.type \in kept THEN last.gen ELSE mirror.gen]

\* Without an ESC, or without a difference, there is nothing to do.
processReconcileRequest ==
  /\ pass.pc = "read"
  /\ pass' = IF escView.exists /\ StatusUpdated(pass.esm.mirror, escView.conds)
             THEN [pass EXCEPT !.pc = "status",
                               !.esm.mirror = Mirrored(@, escView.conds)]
             ELSE Idle
  /\ UNCHANGED <<esm, esmView, esc, escView, events, queued, changes, failures>>

\* updateStatus puts the whole status of the copy into the cached object, which has to be
\* current, and need not be the one that the copy is of.
UpdateStatus ==
  /\ pass.pc = "status"
  /\ \/ /\ esmView = esm /\ esm.phase # "gone"
        /\ StoreESM([esm EXCEPT !.mirror = pass.esm.mirror])
        /\ pass' = Idle /\ UNCHANGED queued
     \/ /\ ~(esmView = esm /\ esm.phase # "gone")
        /\ ReturnError /\ UNCHANGED <<esm, events>>
  /\ UNCHANGED <<esmView, esc, escView, changes, failures>>

FailStep ==
  /\ failures < MaxFailures /\ failures' = failures + 1
  /\ pass.pc # "idle" /\ ReturnError
  /\ UNCHANGED <<esm, esmView, esc, escView, events, changes>>

\* StartControllers creates the ESM, where there is none, before the caches are filled and
\* the initial lists enqueue both objects.
Restart ==
  /\ failures < MaxFailures /\ failures' = failures + 1
  /\ esm' = IF esm.phase = "gone" THEN NewESM(esm.uid + 1) ELSE esm
  /\ esmView' = esm' /\ escView' = esc
  /\ events' = {} /\ queued' = TRUE
  /\ pass' = Idle
  /\ UNCHANGED <<esc, changes>>

PassStep ==
  \/ RemoveFinalizer \/ AddFinalizer \/ RefetchESM
  \/ processReconcileRequest \/ UpdateStatus

Next ==
  \/ SetStatusCondition \/ EditESC \/ EditESM
  \/ SyncESM \/ SyncESC
  \/ Reconcile \/ PassStep
  \/ FailStep \/ Restart

\* The informers deliver and the worker takes requests off the queue and runs its pass.
Fairness == WF_vars(SyncESM) /\ WF_vars(SyncESC) /\ WF_vars(Reconcile) /\ WF_vars(PassStep)

Spec == Init /\ [][Next]_vars
FairSpec == Spec /\ Fairness

-----------------------------------------------------------------------------
(* The invariant behind FinalizerGuards.                                     *)

Held == esm.finalizer /\ esm.phase # "gone"

\* A copy of the ESM is not ahead of the server: what it shows as deleting is not live.
NotAhead(copy) ==
  /\ copy.uid <= esm.uid
  /\ (copy.uid = esm.uid /\ copy.phase # "live") => esm.phase # "live"

\* What the cache and the call under way know of the finalizer.
FinalizerInv ==
  /\ esm.phase = "gone" => ~esm.finalizer
  /\ NotAhead(esmView)
  /\ pass.pc # "idle" => NotAhead(pass.esm)
  /\ (esmView.phase = "live" /\ esmView.finalizer) => Held
  /\ pass.pc = "remove" => pass.esm.phase = "deleting"
  /\ (pass.pc = "finalizer" /\ pass.esm.finalizer) => Held
  /\ pass.pc \in {"refetch"} \cup Working => Held

-----------------------------------------------------------------------------
(* Properties.                                                               *)

\* The ESM as GuardedObject sees it.
Stage ==
  CASE esm.phase = "gone" -> "absent"
    [] esm.phase = "live" -> IF esm.finalizer THEN "held" ELSE "new"
    [] esm.phase = "deleting" -> IF esm.finalizer THEN "closing" ELSE "released"

Guarded == INSTANCE GuardedObject WITH object <- Stage, busy <- pass.pc \in Working

\* The finalizer of the ESM does what finalizers are for: whatever the cache shows, the
\* conditions are copied only while it keeps the ESM on the server, it is never put on an
\* ESM that is being deleted, and only a pass that does nothing else removes it.
FinalizerGuards == Guarded!Spec

\* Nothing to do and nothing on its way to the controller.
Settled == pass.pc = "idle" /\ ~queued /\ events = {}

\* Every condition of the ESC is in the mirror, with its status and message.
InStep == \A i \in DOMAIN esc.conds : esm.mirror.conds[esc.conds[i].type] = esc.conds[i].value

\* When the controller has settled, no condition of the ESC is missing from the mirror and
\* none is out of date, in spite of the condition lost with a fresh entry, of the writes
\* that are left out and of statuses copied over from stale reads.
MirrorComplete == Settled /\ esm.phase = "live" /\ esc.exists => InStep

\* Woken by its own writes, the controller nevertheless comes to rest with the mirror in
\* step, once the users and the other controllers leave the ESM and the ESC alone.
MirrorRests == <>[](esm.phase = "live" => Settled /\ (esc.exists => InStep))

\* A deleted ESM goes away.
DeletionCompletes == esm.phase = "deleting" ~> esm.phase # "deleting"
=============================================================================
