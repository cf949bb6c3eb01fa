--------------------------- MODULE ManagedMetadata ---------------------------
(***************************************************************************)
(* How the ExternalSecretsConfig (ESC) controller puts the user's          *)
(* annotations on the operand's resources, and how it remembers which ones *)
(* it put there so that it can take them away again.                       *)
(*                                                                         *)
(* One pass of reconcileExternalSecretsDeployment reads the ESC from the   *)
(* informer cache, derives the annotations to apply and the keys to delete *)
(* (tracked on the ESC by an earlier pass, no longer in its spec), visits  *)
(* the resources in a fixed order, and only then patches the tracking      *)
(* annotation of the ESC.  Every API call may fail, the operator may be    *)
(* restarted between any two of them, users edit the ESC and tamper with   *)
(* the resources at any moment, and the informers lag behind the server.   *)
(*                                                                         *)
(* Resource 1 is the Namespace, which is merged into; every other resource *)
(* is replaced by what the manifest and the ESC ask for.  Of the labels    *)
(* only app=external-secrets is kept: the informers select on it.          *)
(***************************************************************************)
EXTENDS Integers, FiniteSets

CONSTANTS
  N,            \* number of resources of a pass; they are visited 1, 2, ..., N
  Optional,     \* the ones some ESC configurations skip (cert-manager, proxy, ...)
  Keys,         \* annotation keys a user may put in spec.controllerConfig
  Values,       \* their values
  Empty,        \* the empty string, which Go's map lookup yields for a missing key
  Absent,       \* no such annotation
  MaxEdits,     \* bound on the user's edits of the ESC
  MaxFailures,  \* bound on failed API calls and operator restarts
  MaxDrift,     \* bound on external changes of the resources
  MaxStale      \* bound on reads of a cache that lags behind the server

ASSUME ConstantsAssumption ==
  /\ N \in Nat \ {0}
  /\ Optional \subseteq 2..N
  /\ IsFiniteSet(Keys)
  /\ Absent \notin Values \cup {Empty}
  /\ MaxEdits \in Nat /\ MaxFailures \in Nat /\ MaxDrift \in Nat /\ MaxStale \in Nat

VARIABLES
  esc,       \* the ExternalSecretsConfig on the API server
  escView,   \* the ESC in the informer cache
  api,       \* api[r]: resource r on the API server
  view,      \* view[r]: resource r in the informer cache, before the label filter
  events,    \* sources of watch events that pass the predicates, not yet delivered
  pass,      \* the pass under way: its program counter and what it holds in memory
  queued,    \* the workqueue holds the (only) reconcile request
  err,       \* how the last pass ended: "none", "retry" or "fatal"
  current,   \* the pass under way, or else the last one, has read only what the server had
             \* (recorded for the properties; the code does not know)
  edits, failures, drifts, stale

vars == <<esc, escView, api, view, events, pass, queued, err, current, edits, failures,
          drifts, stale>>
bounds == <<edits, failures, drifts>>
reads == <<current, stale>>

Resources == 1..N
Namespace == 1
TheESC == 0      \* the ESC as a source of watch events
AnyValue == Values \cup {Absent}
Annotations == [Keys -> AnyValue]
NoAnnotations == [k \in Keys |-> Absent]
KeysOf(a) == {k \in Keys : a[k] # Absent}

ESC == [spec : Annotations, features : SUBSET Optional,
        tracked : SUBSET Keys, processed : BOOLEAN]
Object == [exists : BOOLEAN, labelled : BOOLEAN, ann : Annotations]
NoObject == [exists |-> FALSE, labelled |-> FALSE, ann |-> NoAnnotations]
Pass == [pc : {"idle", "read", "write", "patch"}, next : 1..(N + 1),
         esc : ESC, deleted : SUBSET Keys, fetched : Object]

TypeOK ==
  /\ esc \in ESC /\ escView \in ESC
  /\ api \in [Resources -> Object] /\ view \in [Resources -> Object]
  /\ events \subseteq Resources \cup {TheESC}
  /\ pass \in Pass
  /\ queued \in BOOLEAN
  /\ err \in {"none", "retry", "fatal"}
  /\ current \in BOOLEAN
  /\ edits \in Nat /\ failures \in Nat /\ drifts \in Nat /\ stale \in Nat

-----------------------------------------------------------------------------
(* What the code computes.                                                   *)

\* Go's m[k]: a missing key reads as the empty string.
Lookup(a, k) == IF a[k] = Absent THEN Empty ELSE a[k]

\* The deleted keys are not looked for.
annotationMapsModified_IgnoreDeleted(desired, fetched, deleted) ==
  \E k \in KeysOf(desired) : Lookup(fetched, k) # desired[k]

annotationMapsModified(desired, fetched, deleted) ==
  \/ \E k \in KeysOf(desired) : Lookup(fetched, k) # desired[k]
  \/ \E k \in deleted : fetched[k] # Absent

\* Namespaces: desired keys missing or different, or anything to delete at all.
resourceMetadataNeedsUpdate(desired, fetched, deleted) ==
  \/ ~fetched.labelled
  \/ \E k \in KeysOf(desired) : Lookup(fetched.ann, k) # desired[k]
  \/ deleted # {}

\* UpdateResourceAnnotations, then RemoveObsoleteAnnotations.
MergedAnnotations(old, desired, deleted) ==
  [k \in Keys |-> IF k \in deleted THEN Absent
                  ELSE IF desired[k] # Absent THEN desired[k] ELSE old[k]]

\* Keys previously applied, as recorded on the ESC, that the spec no longer has.
getResourceAnnotations(e) == e.tracked \ KeysOf(e.spec)

\* Only the number of keys is compared.
TrackingNeedsUpdate_CountOnly(e, deleted) ==
  Cardinality(e.tracked) # Cardinality(KeysOf(e.spec))

\* AddManagedMetadataAnnotation: the keys themselves are never compared.
TrackingNeedsUpdate(e, deleted) ==
  \/ Cardinality(e.tracked) # Cardinality(KeysOf(e.spec))
  \/ deleted # {}

\* The values are recorded in place of the keys.
AddManagedMetadataAnnotation_Values(e, deleted) ==
  IF TrackingNeedsUpdate(e, deleted) THEN {e.spec[k] : k \in KeysOf(e.spec)} ELSE e.tracked

\* The tracking annotation a pass writes, or leaves, on its copy of the ESC.
AddManagedMetadataAnnotation(e, deleted) ==
  IF TrackingNeedsUpdate(e, deleted) THEN KeysOf(e.spec) ELSE e.tracked

\* Steps of createOrApply* that this configuration does not skip.
Applies(r, e) == r \notin Optional \/ r \in e.features

\* The informers hold only objects labelled app=external-secrets, of all kinds but
\* Namespace (and ConfigMap, whose informer would still show one without the label).
Selected(r, object) == IF r = Namespace \/ object.labelled THEN object ELSE NoObject

\* What a cached Get returns.
Cached(r) == Selected(r, view[r])

Modified(r) ==
  LET f == Cached(r) IN
  \/ ~f.exists
  \/ r = Namespace /\ resourceMetadataNeedsUpdate(pass.esc.spec, f, pass.deleted)
  \/ r # Namespace /\ annotationMapsModified(pass.esc.spec, f.ann, pass.deleted)

\* The object the controller sends: the manifest with the ESC's annotations, or the
\* fetched Namespace with them merged in.
Desired(r) ==
  [exists |-> TRUE, labelled |-> TRUE,
   ann |-> IF r = Namespace /\ pass.fetched.exists
           THEN MergedAnnotations(pass.fetched.ann, pass.esc.spec, pass.deleted)
           ELSE pass.esc.spec]

-----------------------------------------------------------------------------
(* Users, the cluster and the informers.                                     *)

Idle == [pc |-> "idle", next |-> 1, deleted |-> {}, fetched |-> NoObject,
         esc |-> [spec |-> NoAnnotations, features |-> {}, tracked |-> {},
                  processed |-> FALSE]]

Init ==
  /\ esc \in ESC /\ esc.tracked = {} /\ ~esc.processed
  /\ escView = esc
  /\ \E ns \in {NoObject, [NoObject EXCEPT !.exists = TRUE]} :
       api = [r \in Resources |-> IF r = Namespace THEN ns ELSE NoObject]
  /\ view = api
  /\ events = {}
  /\ pass = Idle
  /\ queued = TRUE
  /\ err = "none"
  /\ current = TRUE
  /\ edits = 0 /\ failures = 0 /\ drifts = 0 /\ stale = 0

\* The user edits spec.controllerConfig, which bumps the generation: the one change of an
\* ESC that GenerationChangedPredicate lets through to the workqueue.
EditESC ==
  /\ edits < MaxEdits
  /\ \E s \in Annotations, f \in SUBSET Optional :
       /\ s # esc.spec \/ f # esc.features
       /\ esc' = [esc EXCEPT !.spec = s, !.features = f]
  /\ events' = events \cup {TheESC}
  /\ edits' = edits + 1
  /\ UNCHANGED <<escView, api, view, pass, queued, err, reads, failures, drifts>>

\* The watches admit an event when the old or the new object carries the managed label.
\* Namespaces are not watched at all.
labelMatchPredicate_NewOnly(r, old, new) == r # Namespace /\ new.labelled

labelMatchPredicate(r, old, new) == r # Namespace /\ (old.labelled \/ new.labelled)

\* The server stores a new version of the object and emits a watch event.
Store(r, new) ==
  /\ api' = [api EXCEPT ![r] = new]
  /\ events' = IF labelMatchPredicate(r, api[r], new) THEN events \cup {r} ELSE events

\* Someone else changes a resource: an annotation or the managed label is removed, or
\* the object is deleted.  (Deleting the Namespace deletes what is in it: left out.)
Drift(r) ==
  /\ drifts < MaxDrift
  /\ api[r].exists
  /\ \/ \E k \in KeysOf(api[r].ann) : Store(r, [api[r] EXCEPT !.ann[k] = Absent])
     \/ api[r].labelled /\ Store(r, [api[r] EXCEPT !.labelled = FALSE])
     \/ r # Namespace /\ Store(r, NoObject)
  /\ drifts' = drifts + 1
  /\ UNCHANGED <<esc, escView, view, pass, queued, err, reads, edits, failures>>

\* An informer catches up; its watch events, none of which is lost, reach the workqueue.
SyncESC ==
  /\ escView # esc \/ TheESC \in events
  /\ escView' = esc
  /\ queued' = (queued \/ TheESC \in events)
  /\ events' = events \ {TheESC}
  /\ UNCHANGED <<esc, api, view, pass, err, reads, bounds>>

SyncResource(r) ==
  /\ view[r] # api[r] \/ r \in events
  /\ view' = [view EXCEPT ![r] = api[r]]
  /\ queued' = (queued \/ r \in events)
  /\ events' = events \ {r}
  /\ UNCHANGED <<esc, escView, api, pass, err, reads, bounds>>

-----------------------------------------------------------------------------
(* The pass.                                                                 *)

\* A read of a cached copy, which may lag behind what the server has.
Read(copy, object) ==
  IF copy = object THEN UNCHANGED stale ELSE stale < MaxStale /\ stale' = stale + 1

StartPass ==
  /\ pass.pc = "idle"
  /\ queued
  /\ Read(escView, esc) /\ current' = (escView = esc)
  /\ pass' = [pc |-> "read", next |-> 1, esc |-> escView,
              deleted |-> getResourceAnnotations(escView), fetched |-> NoObject]
  /\ queued' = FALSE
  /\ UNCHANGED <<esc, escView, api, view, events, err, bounds>>

\* The pass looks at resource r.
ReadResource(r) == Read(view[r], api[r]) /\ current' = (current /\ view[r] = api[r])

\* On to the next resource, and to the tracking patch after the last one.
Advance(r) ==
  [pass EXCEPT !.pc = IF r = N THEN "patch" ELSE "read", !.next = r + 1,
               !.fetched = NoObject]

\* The step is not part of this configuration, or the object is in its desired state.
SkipResource(r) ==
  /\ pass.pc = "read" /\ pass.next = r
  /\ \/ ~Applies(r, pass.esc) /\ UNCHANGED reads
     \/ Applies(r, pass.esc) /\ ReadResource(r) /\ ~Modified(r)
  /\ pass' = Advance(r)
  /\ UNCHANGED <<esc, escView, api, view, events, queued, err, bounds>>

ReadModified(r) ==
  /\ pass.pc = "read" /\ pass.next = r
  /\ Applies(r, pass.esc)
  /\ ReadResource(r) /\ Modified(r)
  /\ pass' = [pass EXCEPT !.pc = "write", !.fetched = Cached(r)]
  /\ UNCHANGED <<esc, escView, api, view, events, queued, err, bounds>>

\* An object that exists unlabelled cannot be created and is given up on.
Writable_NoFallback(r) ==
  IF pass.fetched.exists
  THEN api[r].exists /\ view[r] = api[r]
  ELSE ~api[r].exists

\* Create, with createWithFallback's uncached update when the object turns out to exist;
\* UpdateWithRetry needs the object, and a cache that has its current resourceVersion.
Writable(r) ==
  IF pass.fetched.exists
  THEN api[r].exists /\ view[r] = api[r] /\ Cached(r).exists
  ELSE r = Namespace => ~api[r].exists

WriteResource(r) ==
  /\ pass.pc = "write" /\ pass.next = r
  /\ Writable(r)
  /\ Store(r, Desired(r))
  /\ pass' = Advance(r)
  /\ UNCHANGED <<esc, escView, view, queued, err, reads, bounds>>

\* A pass that fails: a retriable error requeues, an irrecoverable one does not.
EndPassWith_NoRequeue(e) ==
  /\ pass' = Idle
  /\ err' = e
  /\ queued' = queued

EndPassWith(e) ==
  /\ pass' = Idle
  /\ err' = e
  /\ queued' = (queued \/ e = "retry")

\* The write cannot succeed as things stand: Conflict, NotFound or AlreadyExists.
WriteRejected(r) ==
  /\ pass.pc = "write" /\ pass.next = r
  /\ ~Writable(r)
  /\ EndPassWith("retry")
  /\ UNCHANGED <<esc, escView, api, view, events, reads, bounds>>

\* An API call of the step fails.  Errors of the Namespace step and of the tracking
\* patch carry no reason, hence are retried; FromClientError classifies the others.
FailStep ==
  /\ failures < MaxFailures
  /\ pass.pc # "idle"
  /\ \E e \in {"retry", "fatal"} :
       /\ e = "fatal" => pass.pc # "patch" /\ pass.next # Namespace
       /\ EndPassWith(e)
  /\ failures' = failures + 1
  /\ UNCHANGED <<esc, escView, api, view, events, reads, edits, drifts>>

\* updateCRAnnotationsIfNeeded: the patch is sent when the tracking or the processed
\* annotation changed, and then carries both.
PatchTracking ==
  LET tracked == AddManagedMetadataAnnotation(pass.esc, pass.deleted) IN
  /\ pass.pc = "patch"
  /\ IF TrackingNeedsUpdate(pass.esc, pass.deleted) \/ ~pass.esc.processed
     THEN esc' = [esc EXCEPT !.tracked = tracked, !.processed = TRUE]
     ELSE esc' = esc
  /\ EndPassWith("none")
  /\ UNCHANGED <<escView, api, view, events, reads, bounds>>

\* The operator's pod is restarted: the pass is lost, the caches are filled anew and
\* the initial list enqueues the ESC.
Restart ==
  /\ failures < MaxFailures
  /\ pass' = Idle
  /\ escView' = esc /\ view' = api /\ events' = {}
  /\ queued' = TRUE
  /\ failures' = failures + 1
  /\ UNCHANGED <<esc, api, err, reads, edits, drifts>>

ResourceStep(r) ==
  SkipResource(r) \/ ReadModified(r) \/ WriteResource(r) \/ WriteRejected(r)

Next ==
  \/ EditESC
  \/ SyncESC
  \/ \E r \in Resources : Drift(r) \/ SyncResource(r) \/ ResourceStep(r)
  \/ StartPass
  \/ FailStep
  \/ PatchTracking
  \/ Restart

\* The informers deliver, the worker takes requests off the queue (RequeueAfter is a
\* requeue that comes late) and runs its pass; users and failures owe nothing.
Fairness ==
  /\ WF_vars(SyncESC)
  /\ \A r \in Resources : WF_vars(SyncResource(r)) /\ WF_vars(ResourceStep(r))
  /\ WF_vars(StartPass)
  /\ WF_vars(PatchTracking)

Spec == Init /\ [][Next]_vars
FairSpec == Spec /\ Fairness

-----------------------------------------------------------------------------
(* The invariants behind the properties.                                     *)

\* Nothing is on its way to the controller or waiting for it.
Quiet == ~queued /\ events = {}

\* The watched resource r carries what spec asks for.
Granted(r, spec) ==
  /\ api[r].labelled
  /\ \A k \in KeysOf(spec) : spec[k] # Empty => api[r].ann[k] = spec[k]

\* The pass is at a resource, or past the last one.
PassPosition ==
  /\ pass.pc \in {"read", "write"} => pass.next \in Resources
  /\ pass.pc = "patch" => pass.next = N + 1

\* A cache shows what no event announces.
ViewsFollow ==
  /\ TheESC \notin events => escView.spec = esc.spec /\ escView.features = esc.features
  /\ \A r \in Resources \ {Namespace} :
       r \notin events => Selected(r, view[r]) = Selected(r, api[r])

\* While nothing is on its way the pass works on the ESC as it is, and the watched
\* resources behind it, or all of them after a pass without error, are as it wants them.
GrantedBehind ==
  /\ Quiet /\ pass.pc # "idle" =>
       /\ pass.esc.spec = esc.spec /\ pass.esc.features = esc.features
       /\ \A r \in Resources \ {Namespace} :
            r < pass.next /\ Applies(r, esc) => Granted(r, esc.spec)
  /\ Quiet /\ pass.pc = "idle" /\ err = "none" =>
       \A r \in Resources \ {Namespace} : Applies(r, esc) => Granted(r, esc.spec)

AppliedInv == PassPosition /\ ViewsFollow /\ GrantedBehind

\* A pass that read the server's ESC holds its tracking annotation and deletes the tracked
\* keys that its spec lacks.
PassKnowsTracking ==
  (current /\ pass.pc # "idle") =>
    /\ pass.esc.tracked = esc.tracked
    /\ pass.deleted = esc.tracked \ KeysOf(pass.esc.spec)

\* The resources behind it carry none of the keys it deletes.
CleanBehind ==
  (current /\ pass.pc # "idle") =>
    \A r \in Resources : r < pass.next /\ Applies(r, pass.esc) =>
      \A k \in pass.deleted : api[r].ann[k] = Absent

\* An edit that the pass has not seen is on its way to the workqueue or in it.
EditsAreComing ==
  (current /\ ~queued /\ TheESC \notin events) =>
    IF pass.pc # "idle" THEN pass.esc.spec = esc.spec
    ELSE err = "none" => esc.tracked = KeysOf(esc.spec)

TrackingInv == PassPosition /\ PassKnowsTracking /\ CleanBehind /\ EditsAreComing

-----------------------------------------------------------------------------
(* Properties.                                                               *)

\* A key leaves the tracking annotation by this step while a resource that the pass
\* reconciles still carries it.
Forgotten(k) ==
  /\ k \in esc.tracked \ esc'.tracked
  /\ \E r \in Resources : Applies(r, pass.esc) /\ api[r].ann[k] # Absent

\* reconcileExternalSecretsDeployment promises: "we never advance tracking on the CR before
\* obsolete annotations have been removed from resources".
TrackingNeverAhead == [][~ \E k \in Keys : Forgotten(k)]_vars

\* A pass that read only what the server had keeps that promise, however edits, failures,
\* restarts, drift and passes on stale caches were interleaved with it and before it.
TrackedUntilRemoved == [][current => ~ \E k \in Keys : Forgotten(k)]_vars

\* Nothing to do and nothing on its way to the controller, and the last pass succeeded.
Settled == pass.pc = "idle" /\ Quiet /\ err = "none"

\* Once a successful pass has read the ESC as it is, the tracking annotation holds exactly
\* the keys of the spec, although the code decides whether to rewrite it by comparing
\* numbers of keys and never the keys, and whatever earlier passes made of it.
TrackingMatchesSpec == Settled /\ current => esc.tracked = KeysOf(esc.spec)

\* The watches make up for stale reads, failures and drift: when the controller has
\* settled, every watched resource of the configuration carries the managed label and every
\* annotation of the spec with a non-empty value, whatever its passes read in their caches.
DesiredApplied ==
  Settled => \A r \in Resources \ {Namespace} : Applies(r, esc) => Granted(r, esc.spec)

\* DeletedAnnotationKeys exist "to avoid losing track of removals across reconcile
\* retries": once settled, no resource of the configuration carries an annotation of the
\* operator's that is neither in the spec nor tracked.
NoRemovalLost ==
  Settled => \A r \in Resources : Applies(r, esc) =>
    KeysOf(api[r].ann) \subseteq KeysOf(esc.spec) \cup esc.tracked

\* A tracked key that the user drops from the spec is eventually removed: a pass gets past
\* the last resource of its configuration and none of them carries the key, unless the user
\* takes the key back, the controller has given up on an irrecoverable error, or a pass
\* reads a stale cache meanwhile (what it left undone waits for whatever starts the next).
TrackedRemovalHappens ==
  \A k \in Keys :
    (k \in esc.tracked /\ esc.spec[k] = Absent /\ current) ~>
      \/ esc.spec[k] # Absent
      \/ err = "fatal"
      \/ ~current
      \/ /\ pass.pc = "patch"
         /\ \A r \in Resources : Applies(r, pass.esc) => api[r].ann[k] = Absent

\* The bounded disturbances over, stale reads among them, every watched resource of the
\* configuration is and stays labelled and annotated as the spec says, unless the
\* controller has given up on an irrecoverable error.
Converges ==
  <>[](\/ err = "fatal"
       \/ \A r \in Resources \ {Namespace} : Applies(r, esc) => Granted(r, esc.spec))
=============================================================================
