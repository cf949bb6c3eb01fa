----------------------------- MODULE CRDAnnotator -----------------------------
(***************************************************************************)
(* The crd-annotator controller, and the ESC controller as far as both     *)
(* write the status of the ExternalSecretsConfig (ESC).                    *)
(*                                                                         *)
(* The annotator puts the inject-ca-from annotation of cert-manager on the *)
(* CRDs labelled external-secrets.io/component=controller while the ESC    *)
(* asks for it, and reports in the UpdateAnnotation condition.  Its        *)
(* watches run on the manager's cache; what it reads comes from a cache of *)
(* its own, whose informers are not those that woke it up.                 *)
(*                                                                         *)
(* Both controllers write the status of the ESC as a whole: the one read   *)
(* at the start of the call, with the conditions of this call put in.      *)
(***************************************************************************)
EXTENDS Naturals

CONSTANTS
  CRDs,          \* names of the labelled CRDs
  MaxStale,      \* bound on reads of a cache that lags behind the server
  MaxDisturbances \* bound on changes of the ESC and of the CRDs by others, failed API
                 \* calls, failed installs and operator restarts together

\* The request that stands for the ESC (reconcileObjectIdentifier).
AllCRDs == "external-secrets-obj"

ASSUME ConstantsAssumption ==
  /\ AllCRDs \notin CRDs
  /\ MaxStale \in Nat /\ MaxDisturbances \in Nat

VARIABLES
  esc,        \* the ESC on the API server
  mgrView,    \* the ESC in the manager's cache
  ownView,    \* the ESC in the annotator's cache
  crds,       \* the CRDs on the API server
  crdView,    \* the CRDs in the annotator's cache
  escEvent,   \* a change of the ESC that passes the predicate is yet to be delivered
  requests,   \* the annotator's workqueue, and the watch events of CRDs on their way to it
  call,       \* the annotator's Reconcile call under way
  escQueued,  \* the ESC controller's workqueue holds its (only) request
  escPass,    \* the ESC controller's Reconcile call under way
  missed,     \* CRDs whose latest call was misled by a lagging cache (recorded for the
              \* properties; the code does not know)
  stale, disturbances

vars == <<esc, mgrView, ownView, crds, crdView, escEvent, requests, call, escQueued, escPass,
          missed, stale, disturbances>>
escController == <<mgrView, escQueued, escPass>>
annotator == <<ownView, crdView, requests, call, missed>>

Requests == CRDs \cup {AllCRDs}

\* A condition by its value and observedGeneration; ready stands for Ready and Degraded.
Condition == [value : {"unset", "true", "false"}, gen : Nat]
Status == [ready : Condition, annotation : Condition]
ESC == [exists : BOOLEAN, gen : Nat, inject : BOOLEAN, status : Status]
CRD == [exists : BOOLEAN, annotated : BOOLEAN]
Call == [pc : {"idle", "busy"}, req : Requests, esc : ESC,
         todo : SUBSET CRDs, ok : BOOLEAN]
ESCPass == [pc : {"idle", "install", "status"}, esc : ESC, gen : Nat, ok : BOOLEAN]

TypeOK ==
  /\ esc \in ESC /\ mgrView \in ESC /\ ownView \in ESC
  /\ crds \in [CRDs -> CRD] /\ crdView \in [CRDs -> CRD]
  /\ escEvent \in BOOLEAN /\ requests \subseteq Requests
  /\ call \in Call
  /\ escQueued \in BOOLEAN /\ escPass \in ESCPass
  /\ missed \subseteq CRDs
  /\ stale \in Nat /\ disturbances \in Nat

Unset == [value |-> "unset", gen |-> 0]
NoStatus == [ready |-> Unset, annotation |-> Unset]
NoESC == [exists |-> FALSE, gen |-> 0, inject |-> FALSE, status |-> NoStatus]
NewESC(i) == [exists |-> TRUE, gen |-> 1, inject |-> i, status |-> NoStatus]
NoCRD == [exists |-> FALSE, annotated |-> FALSE]
NoCall == [pc |-> "idle", req |-> AllCRDs, esc |-> NoESC, todo |-> {}, ok |-> TRUE]
NoPass == [pc |-> "idle", esc |-> NoESC, gen |-> 0, ok |-> TRUE]

\* A read of a cached copy, which may lag behind what the server has.
Read(copy, object) ==
  IF copy = object THEN UNCHANGED stale ELSE stale < MaxStale /\ stale' = stale + 1

\* What the initial lists of the informers enqueue.
Listed == {c \in CRDs : crds[c].exists} \cup {r \in {AllCRDs} : esc.exists}

\* OLM has installed the CRDs and the operator; the user is yet to create the ESC.
Init ==
  /\ esc = NoESC
  /\ mgrView = esc /\ ownView = esc
  /\ crds = [c \in CRDs |-> [exists |-> TRUE, annotated |-> FALSE]]
  /\ crdView = crds
  /\ escEvent = FALSE
  /\ requests = Listed
  /\ escQueued = esc.exists
  /\ call = NoCall /\ escPass = NoPass
  /\ missed = {}
  /\ stale = 0 /\ disturbances = 0

-----------------------------------------------------------------------------
(* Users, OLM and the informers.                                             *)

Disturb == disturbances < MaxDisturbances /\ disturbances' = disturbances + 1

\* GenerationChangedPredicate: creation, deletion and changes of the spec get through.
EditESC ==
  /\ Disturb
  /\ \/ ~esc.exists /\ \E i \in BOOLEAN : esc' = NewESC(i)
     \/ esc.exists /\ esc' = NoESC
     \/ esc.exists /\ \E i \in BOOLEAN : esc' = [esc EXCEPT !.inject = i, !.gen = @ + 1]
  /\ escEvent' = TRUE
  /\ UNCHANGED <<crds, annotator, escController, stale>>

\* The watch on CRDs admits creation, deletion and changes of the annotations.  Nobody
\* reads the cache behind this watch: to the annotator an event on its way is a request
\* in the queue that is not served yet.
StoreCRD(c, new) ==
  /\ crds' = [crds EXCEPT ![c] = new]
  /\ requests' = requests \cup {c}

ChangeCRD(c) ==
  /\ Disturb
  /\ \/ ~crds[c].exists /\ StoreCRD(c, [exists |-> TRUE, annotated |-> FALSE])
     \/ crds[c].exists /\ StoreCRD(c, NoCRD)
     \/ crds[c].annotated /\ StoreCRD(c, [crds[c] EXCEPT !.annotated = FALSE])
  /\ UNCHANGED <<esc, ownView, crdView, call, missed, escEvent, escController, stale>>

\* The manager's informer delivers the ESC to both controllers.
SyncManager ==
  /\ mgrView # esc \/ escEvent
  /\ mgrView' = esc
  /\ escEvent' = FALSE
  /\ requests' = IF escEvent THEN requests \cup {AllCRDs} ELSE requests
  /\ escQueued' = (escQueued \/ escEvent)
  /\ UNCHANGED <<esc, ownView, crds, crdView, call, escPass, missed, stale, disturbances>>

\* The annotator's own informers catch up, and wake nobody up.
SyncOwnESC ==
  /\ ownView # esc
  /\ ownView' = esc
  /\ UNCHANGED <<esc, crds, crdView, escEvent, requests, call, escController, missed, stale,
                 disturbances>>

SyncOwnCRDs ==
  /\ crdView # crds
  /\ crdView' = crds
  /\ UNCHANGED <<esc, ownView, crds, escEvent, requests, call, escController, missed, stale,
                 disturbances>>

-----------------------------------------------------------------------------
(* The annotator's Reconcile.                                                *)

\* The CRDs that a call for this request looks at.
Scope(req) == IF req = AllCRDs THEN CRDs ELSE {req}

\* CRDs without the annotation are not looked for beyond the one that was reported.
ToAnnotate_OnlyReported(req) ==
  {c \in CRDs \cap {req} : crdView[c].exists /\ ~crdView[c].annotated}

\* The request that stands for the ESC is taken for the name of a CRD.
ToAnnotate_AnyName(req) ==
  {r \in {req} : r \in CRDs => crdView[r].exists /\ ~crdView[r].annotated}

\* What updateAnnotationsInAllCRDs, or updateAnnotations of one CRD, has to patch.
ToAnnotate(req) ==
  {c \in Scope(req) : crdView[c].exists /\ ~crdView[c].annotated}

\* A request for a CRD that the cache does not have fails at once.
Found(req) == req = AllCRDs \/ crdView[req].exists

\* The caches mislead a call about c: whether annotations are wanted, or what c has.
Misled(c) ==
  \/ <<ownView.exists, ownView.inject>> # <<esc.exists, esc.inject>>
  \/ crdView[c] # crds[c]

StartCall(req) ==
  /\ call.pc = "idle" /\ req \in requests
  /\ Read(<<ownView, crdView>>, <<esc, crds>>)
  /\ missed' = (missed \ Scope(req)) \cup {c \in Scope(req) : Misled(c)}
  /\ requests' = requests \ {req}
  /\ IF ownView.exists /\ ownView.inject
     THEN call' = [pc |-> "busy", req |-> req, esc |-> ownView, todo |-> ToAnnotate(req),
                   ok |-> Found(req)]
     ELSE call' = NoCall
  /\ UNCHANGED <<esc, ownView, crds, crdView, escEvent, escController, disturbances>>

\* The merge patch needs the CRD, not its resourceVersion; the first error ends the loop.
PatchCRD(c) ==
  /\ c \in call.todo
  /\ IF crds[c].exists
     THEN /\ IF crds[c].annotated THEN UNCHANGED <<crds, requests>>
             ELSE StoreCRD(c, [crds[c] EXCEPT !.annotated = TRUE])
          /\ call' = [call EXCEPT !.todo = @ \ {c}]
     ELSE /\ UNCHANGED <<crds, requests>>
          /\ call' = [call EXCEPT !.todo = {}, !.ok = FALSE]
  /\ UNCHANGED <<esc, ownView, crdView, escEvent, escController, missed, stale,
                 disturbances>>

\* Whatever comes of a request, it is taken as done.
Requeue_Never(failed) == requests

\* Every call asks for another one.
Requeue_Always(failed) == requests \cup {call.req}

\* controller-runtime retries a request whose call returned an error.
Requeue(failed) == IF failed THEN requests \cup {call.req} ELSE requests

\* updateCondition and updateStatus: when SetStatusCondition changed something, the status
\* of the copy replaces that of the cached ESC, which has to be current for the update.
UpdateCondition ==
  LET cond == [value |-> IF call.ok THEN "true" ELSE "false", gen |-> call.esc.gen]
      changed == call.esc.status.annotation # cond
      accepted == ownView = esc /\ esc.exists IN
  /\ call.pc = "busy" /\ call.todo = {}
  /\ IF changed THEN Read(ownView, esc) ELSE UNCHANGED stale
  /\ esc' = IF changed /\ accepted
            THEN [esc EXCEPT !.status = [call.esc.status EXCEPT !.annotation = cond]]
            ELSE esc
  /\ requests' = Requeue(~call.ok \/ (changed /\ ~accepted))
  /\ call' = NoCall
  /\ UNCHANGED <<ownView, crds, crdView, escEvent, escController, missed, disturbances>>

-----------------------------------------------------------------------------
(* The ESC controller, from Get to the Ready condition.                      *)

StartPass ==
  /\ escPass.pc = "idle" /\ escQueued
  /\ Read(mgrView, esc)
  /\ escQueued' = FALSE
  /\ escPass' = IF mgrView.exists
                THEN [pc |-> "install", esc |-> mgrView, gen |-> mgrView.gen,
                      ok |-> TRUE]
                ELSE NoPass
  /\ UNCHANGED <<esc, mgrView, crds, escEvent, annotator, disturbances>>

\* reconcileExternalSecretsDeployment fails, or ends with or without a patch of the ESC's
\* annotations, which brings back what the server has, the status included.
Install ==
  /\ escPass.pc = "install"
  /\ \/ /\ Disturb
        /\ escPass' = [escPass EXCEPT !.pc = "status", !.ok = FALSE]
     \/ /\ escPass' = [escPass EXCEPT !.pc = "status"]
        /\ UNCHANGED disturbances
     \/ /\ escPass' = [escPass EXCEPT !.pc = "status", !.ok = esc.exists,
                          !.esc = IF esc.exists THEN esc ELSE @]
        /\ UNCHANGED disturbances
  /\ UNCHANGED <<esc, mgrView, escQueued, crds, escEvent, annotator, stale>>

\* updateStatus, as in the annotator, on the manager's cache; a failed pass is retried.
UpdateStatus ==
  LET cond == [value |-> IF escPass.ok THEN "true" ELSE "false", gen |-> escPass.gen]
      changed == escPass.esc.status.ready # cond
      accepted == mgrView = esc /\ esc.exists IN
  /\ escPass.pc = "status"
  /\ IF changed THEN Read(mgrView, esc) ELSE UNCHANGED stale
  /\ esc' = IF changed /\ accepted
            THEN [esc EXCEPT !.status = [escPass.esc.status EXCEPT !.ready = cond]]
            ELSE esc
  /\ escQueued' = (escQueued \/ ~escPass.ok \/ (changed /\ ~accepted))
  /\ escPass' = NoPass
  /\ UNCHANGED <<mgrView, crds, escEvent, annotator, disturbances>>

-----------------------------------------------------------------------------

\* An API call of the annotator fails: the Get of the CRD, the List or a patch, after which
\* the condition says so, or the update of the status.
FailCall ==
  /\ Disturb
  /\ \/ /\ call.pc = "busy" /\ call.ok
        /\ call' = [call EXCEPT !.todo = {}, !.ok = FALSE]
        /\ UNCHANGED requests
     \/ /\ call.pc = "busy"
        /\ call' = NoCall
        /\ requests' = Requeue(TRUE)
  /\ UNCHANGED <<esc, ownView, crds, crdView, escEvent, escController, missed, stale>>

\* The calls and queues are lost, the caches are filled anew and the initial lists enqueue
\* what exists.
Restart ==
  /\ Disturb
  /\ mgrView' = esc /\ ownView' = esc /\ crdView' = crds
  /\ escEvent' = FALSE
  /\ requests' = Listed
  /\ escQueued' = esc.exists
  /\ call' = NoCall /\ escPass' = NoPass
  /\ missed' = {}
  /\ UNCHANGED <<esc, crds, stale>>

CallStep == UpdateCondition \/ \E c \in CRDs : PatchCRD(c)

Next ==
  \/ EditESC
  \/ SyncManager \/ SyncOwnESC \/ SyncOwnCRDs
  \/ \E c \in CRDs : ChangeCRD(c)
  \/ \E r \in Requests : StartCall(r)
  \/ CallStep
  \/ StartPass \/ Install \/ UpdateStatus
  \/ FailCall \/ Restart

\* The informers deliver and both workers run.  The annotator's workqueue hands out its
\* requests in turn, so none of them waits for ever behind one that keeps failing.
Fairness ==
  /\ WF_vars(SyncManager) /\ WF_vars(SyncOwnESC) /\ WF_vars(SyncOwnCRDs)
  /\ \A r \in Requests : SF_vars(StartCall(r))
  /\ WF_vars(CallStep)
  /\ WF_vars(StartPass) /\ WF_vars(Install) /\ WF_vars(UpdateStatus)

Spec == Init /\ [][Next]_vars
FairSpec == Spec /\ Fairness

-----------------------------------------------------------------------------
(* The invariant behind RestsWhenAnnotated.                                  *)

Wanted == esc.exists /\ esc.inject

\* A call works on the CRD of its request, or on all of them.
CallInv ==
  call.todo # {} => call.pc = "busy" /\ (call.req = AllCRDs \/ call.todo = {call.req})

\* The annotator will still look at c: an event or a request says so, the call under way
\* is to patch it, or that call has failed and its request will come back.
Pending(c) ==
  \/ escEvent \/ {c, AllCRDs} \cap requests # {}
  \/ c \in call.todo
  \/ call.pc = "busy" /\ ~call.ok /\ call.req \in {c, AllCRDs}

WorkPending ==
  Wanted => \A c \in CRDs \ missed : (crds[c].exists /\ ~crds[c].annotated) => Pending(c)

-----------------------------------------------------------------------------
(* Properties.                                                               *)

\* Each of these CRDs has the annotation.
Annotated(names) == \A c \in names : crds[c].exists => crds[c].annotated

\* The annotator rests only when its work is done: no call, request or event is left and
\* still every CRD has the annotation that the ESC asks for, whatever failed half way and
\* whoever changed the CRDs, the ESC or both while a call worked on what it had read.  The
\* exception are CRDs whose latest call read a cache that had not caught up with the event
\* that started it: nothing looks at them again.
RestsWhenAnnotated ==
  (call.pc = "idle" /\ requests = {} /\ ~escEvent /\ Wanted) => Annotated(CRDs \ missed)

\* Once users, OLM and failures leave the cluster alone, every CRD has the annotation that
\* the ESC asks for and keeps it, unless its latest call was misled by a lagging cache.
AnnotatedUnlessMissed == <>[](Wanted => Annotated(CRDs \ missed))

\* With injectAnnotations set, "the crd-annotator controller patches" the annotation on the
\* CRDs: once users and OLM leave the cluster alone, every CRD has it and keeps it.
EventuallyAnnotated == <>[](Wanted => Annotated(CRDs))

\* The annotator's own patches, and the status updates of both controllers, wake it up a
\* bounded number of times: it comes to rest, unless it is asked to annotate a CRD that was
\* deleted, a request that fails for as long as the CRD does not come back.
Quiesces ==
  <>[](\/ call.pc = "idle" /\ requests = {}
       \/ Wanted /\ \E c \in CRDs : ~crds[c].exists)

\* Both controllers at rest, with nothing on its way to them.
Settled ==
  /\ call.pc = "idle" /\ requests = {}
  /\ escPass.pc = "idle" /\ ~escQueued
  /\ ~escEvent

\* "RetryOnConflict handles concurrent modification gracefully": once both controllers are
\* at rest the conditions are those of the current generation, the ESC controller's and,
\* while annotations are asked for, the annotator's.
ConditionsCurrent ==
  (Settled /\ esc.exists) =>
    /\ esc.status.ready.gen = esc.gen
    /\ esc.inject => esc.status.annotation.gen = esc.gen
=============================================================================
