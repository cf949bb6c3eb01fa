# TLA+ models of the external-secrets-operator

The operator installs and maintains the external-secrets operand on OpenShift. Two
cluster-scoped singletons configure it: `ExternalSecretsConfig` (ESC) and
`ExternalSecretsManager` (ESM). This directory holds TLA+ models of its controllers, the TLC
configurations that check them, and TLAPS proofs. Paths below are relative to the
repository; `external_secrets/` and the like are under `pkg/controller/`.

## 1. The system

| Component | State | Operations | Interacts through |
|---|---|---|---|
| ESC controller (`external_secrets/controller.go`, `install_external_secrets.go`, `utils.go`) | ESC finalizer, status conditions, annotations `processed`, `managed-annotations` (tracking), network policy cleanup; in memory the once gate `now`, the proxy and the ESM | `Reconcile`: clean up, add finalizer, validate, install in a fixed order, patch annotations, write conditions | watches on ESC, ESM, labelled resources; manager's label-filtered cache; an uncached client |
| Operand resources (`services.go`, `rbacs.go`, `serviceaccounts.go`, `secret.go`, `configmap.go`, `validatingwebhook.go`, `deployments.go`, `certificate.go`, `networkpolicy.go`) | objects on the API server | `createOrApply*`: read from the cache, compare, create (with fallback) or update | called in order by the install |
| trustedCABundle (`deployments.go`, `trusted_ca_bundle.go`) | a ConfigMap of the administrator's, labelled by the operator | fetch with cache fallback, label, validate, mount | ConfigMap watch, events |
| crd-annotator (`crd_annotator/controller.go`) | annotation on labelled CRDs, `UpdateAnnotation` condition of the ESC | annotate one CRD or all, report | watches on the manager's cache, reads from a cache of its own, ESC status |
| Network policies (`networkpolicy.go`) | the policies of the operand, the annotation that the cleanup of legacy names is done | apply static, custom and egress policies, list and delete legacy ones, mark | called by the install; proxy from ESC, ESM and environment |
| Deployments (`deployments.go`, `advanced_overrides.go`, comparison in `common/utils.go`) | the four Deployments of the operand | build layer by layer, compare, write | ESC, ESM, `OPERAND_*_ARGS`, TLS profile, users' overrides |
| TLS profile (`pkg/tlsprofile`, `cmd/`) | profile and adherence policy as read at start | resolve, turn into arguments, shut down on change | APIServer object of the cluster |
| ESM controller (`external_secrets_manager/`) | mirror of the ESC's conditions in the ESM status, finalizer | mirror, default object at startup | watch on ESC status |
| Client and helpers (`client/client.go`, `common/`) | none | `UpdateWithRetry`, finalizers, metadata, comparison, error classes | all controllers |
| Setup (`pkg/operator`), API types, generated code | none at run time | start, restart | |

What is hard here: every read may be stale (informer caches, of which the annotator has a
second one); every API call may fail and the pod may restart between two of them; two
controllers write one status; the ESC controller keeps what it has to undo only in
annotations that it writes last; errors are classed into retried, polled and left to the
watches, so that a wrong class or a missed event means waiting for ever; users edit the ESC
and the ConfigMap at any moment. What makes the parts correct:

* annotations: what the user asks for is applied, what was applied is tracked, what is
  tracked and dropped is removed, drift is repaired;
* reconcile loop: the operand is installed only for an ESC that the finalizer holds, a
  settled status tells the truth, what can be installed becomes Ready, deletion ends, user
  data is not overwritten;
* annotator: it does not rest before all CRDs are annotated (except for what a lagging cache
  hides from it), and it does come to rest;
* both writers of the status: no condition is lost;
* mirror: a settled ESM status has every condition of the ESC, although the first one is lost
  on the way and writes are left out;
* both finalizers: work is done only for an object that the finalizer keeps on the server;
* network policies: what is asked for is in place, the egress policy follows the effective
  proxy, the migration deletes all of the operator's own legacy policies before it is recorded
  as done;
* Deployments: the last layer that speaks about a flag, variable or field decides it, removed
  settings are taken back, and the controller stops writing.

`PROJECT.json` lists the hazards line by line with the properties that cover them.

## 2. Modules

| Module | Models |
|---|---|
| `ManagedMetadata` | one pass of `reconcileExternalSecretsDeployment` after another, as far as annotations and the managed label go |
| `ESCReconciler` | `Reconcile` of the ESC controller: triggers, finalizer, error classes, trustedCABundle, status |
| `CRDAnnotator` | the crd-annotator together with the ESC controller as the two writers of the ESC's status |
| `ManagerMirror` | the ESM controller: finalizer, mirrored conditions, default object |
| `NetworkPolicies` | `createOrApplyNetworkPolicies` with the resolution of the proxy and the migration of legacy names |
| `OperandDeployment` | the Deployments of all components from asset to server, with the TLS profile and the operator's start and shutdown |
| `GuardedObject` | abstract: what a finalizer promises; ESCReconciler and ManagerMirror implement it |
| `MC_*` | the instances for TLC |
| `*_proofs` | theorems and proofs |

### ManagedMetadata

`esc` and `api` are the server, `escView` and `view` the informer caches; `pass` holds the
program counter and what `getResourceMetadata` computed: a copy of the ESC and the keys to
delete. Resource 1 is the Namespace (`createOrApplyNamespace`, merged into, not watched, not
label-filtered); the others stand for every `createOrApply*` of the fixed order, whose code
has one shape: `SkipResource` (not part of this configuration, or in its desired state),
`ReadModified`, then `WriteResource` or `WriteRejected`. `annotationMapsModified`,
`resourceMetadataNeedsUpdate`, `TrackingNeedsUpdate` and `getResourceAnnotations` translate
the comparisons, with Go's reading of a missing map key as the empty string. `Writable`
says when the API server takes the write: `UpdateWithRetry` re-reads through the cache, and
`createWithFallback` goes around it. `PatchTracking` is `updateCRAnnotationsIfNeeded`.
`current` is a history variable: the pass under way, or else the last one, has read only what
the server had. It tells the properties apart that hold of every pass (`DesiredApplied`,
`Converges`) from those that a pass on a stale ESC breaks.

### ESCReconciler

One program counter for the steps of `Reconcile`: `cleanup`, `finalizer`, `refetch` (the
second read in `AddFinalizer`), `validate`, `install`, `bundle`, `label`, `deploy`, `finish`,
`status`. `pass.esc` is the ESC in memory, replaced by the server's answer where the code
patches it (`markCleanupDone`, `updateCRAnnotationsIfNeeded`); `pass.gen` is
`observedGeneration`. `Config` classes the specs by what becomes of them. The outcome of a
pass is the class of its error (`common/errors.go`); it fixes both the conditions and the
requeue. `now` is the once gate. Two history variables: `announced`, a warning was recorded
since the ESC was last Ready, and `skipped`, the last call found its conditions in the copy
that it had read, did not write them, and the server's ESC has others.

### CRDAnnotator

`mgrView` is the manager's cache, whose events fill the workqueues; `ownView` and `crdView`
are the annotator's, which it reads. `call` and `escPass` are the two Reconcile calls, each
with the copy of the ESC whose whole status it will write. `AllCRDs` is the request that an
ESC event makes. The install of the ESC controller is one step that fails, succeeds, or
succeeds and refreshes the copy. `missed` is a history variable: the CRDs whose latest call
read an ESC that did not say what the server's says of annotations, or an older CRD.

### ManagerMirror

`esm`, `esc` are the server, `esmView`, `escView` the cache, always with lag. The conditions
of the ESC are a sequence in the order in which `meta.SetStatusCondition` first set them: the
first one matters, since `getControllerCondition` appends a copy of the entry that it returns
and what is put into the returned one is lost (`LostType`). `Mirrored` and `StatusUpdated`
are `updateStatusCondition` over all conditions. The ESM is watched without a predicate, so
that every write of the controller, being a change, brings it back; `StoreESM_GenerationOnly`
shows what a predicate would break. `UpdateStatus` copies the whole status of the pass's copy
onto the cached object, which need not be the one that the copy is of. `Restart` creates the
default ESM.

### NetworkPolicies

A policy is whether it exists, is visible to the label-filtered cache, carries the labels of
ownership, and its specification as a set of pieces. One action per policy: `ApplyPolicy` for
every static and custom policy in order, `reconcileProxyEgressPolicy`, `ListLegacyPolicies`,
one `DeleteLegacyPolicy` per policy, `markCleanupDone`; failures, restarts, edits of ESC and
ESM and drift of the policies may come between any two. An apply is three calls (read, create
or update, and the second read of `UpdateWithRetry` or `createWithFallback`). Most of what
others do between them is as if they did it before or after; `Applied` is that outcome. The
exception is `LosePolicy`: a policy that is relabelled or deleted between the two reads makes
the call fail with NotFound. URLs of proxies are classed by what `validateProxy` and
`extractProxyPorts` make of them. `Effective` is the reference for the merged proxy.

### OperandDeployment

`getDeploymentObject` is a chain of operators, one per layer and in the order of the code:
asset, arguments of the component, TLS arguments, `OPERAND_*_ARGS`, volumes, placement (ESC,
else ESM), replicas, `overrideEnv`, `advancedOverrides`, proxy. `Built` is the class of the
first error on the way. Strings are the members of the constant `Text`, which contains those
that the operator writes itself (`OwnText`). `mergeContainerArgs` is a recursive function of
the number of overrides merged so far. `deploymentSpecModified` compares with the server's Deployment, which
completes what is written (`Defaulted`). `process` is the operator's process with the TLS
profile that it read at its start: `WatchProfile` shuts it down on a change of profile or
adherence policy, `Start` needs a profile that resolves. The properties compare the result
with references of their own (`ValueOf`: the program takes the last argument with a flag;
`Completed`: a value as written or as the server completes it). An update re-reads through
the label-filtered cache, so that it fails when the Deployment was relabelled after the read.

### GuardedObject

The stages of an object's life (absent, new, held, closing, released) and whether work for
it is under way. ESCReconciler maps its install, from `validate` to `finish`, to the work;
ManagerMirror maps the reading and copying of conditions.

### Abstractions common to all

* An informer jumps to the server's current version and delivers all pending events with
  it; events are neither lost nor, per object, distinguished. Equality of records stands for
  equality of `resourceVersion`.
* A retry on conflict that goes through the cache succeeds when the cache is current and
  fails otherwise; `RequeueAfter` and backoff are a requeue that comes late.
* Reads may be stale: every action that reads a cache takes whatever copy is there, as the code
  does. A read that differs from the server's version is counted (`MaxStale`; in ESCReconciler
  together with failures and restarts in `MaxFaults`), so that TLC's instances have a bounded
  number of them at any point; the theorems hold for every bound.
* Messages of conditions and events are determined by their class. The images that
  `updateImageInStatus` records in the status are left out.
* Nobody but its owner removes a finalizer.
* NetworkPolicies and OperandDeployment have a cache that filters by label but does not lag:
  what a lagging cache does to a read, compare and write step is the subject of
  ManagedMetadata.
* In OperandDeployment arguments are pairs of flag and value, values of placement are sets of
  entries, and log levels keep only what `getLogLevel` tells apart. The text of
  `OPERAND_*_ARGS` is given as the parts between its `--`, with what may be wrong with each.
  Images, versions, and the Secret that bitwarden mounts are left out.
* ManagerMirror leaves out the spec of the ESM and the Kubernetes event of the copy.
* ManagedMetadata leaves out the specs that `HasObjectChanged` compares, and takes the
  metadata-only patches (proxy ConfigMap, webhook Secret) as writes of the object; the
  refresh by `markCleanupDone` is in ESCReconciler only.
* In ESCReconciler `cno` stands for a ConfigMap that the Cluster Network Operator fills in
  while a proxy is configured.
* In CRDAnnotator the CRDs carry their label from the start, and `ready` stands for Ready
  and Degraded, which are written together.

## 3. Runs

| Run | Checks | Result |
|---|---|---|
| `mm_live` | `TypeOK`, `DesiredApplied`, `TrackingMatchesSpec`, `TrackedUntilRemoved`, `TrackedRemovalHappens`, `Converges` | hold (540 thousand states) |
| `mm_lost_removal` | `NoRemovalLost` | violated |
| `mm_tracking_ahead` | `TrackingNeverAhead` | violated |
| `esc_live` | `TypeOK`, `StatusTruthful`, `BundleProblemAnnounced`, `FinalizerGuards`, `EventuallyReady`, `DeletionCompletes` | hold (680 thousand states) |
| `esc_lost_edit` | `UserSpecKept` | violated |
| `esm_live` | `TypeOK`, `MirrorComplete`, `FinalizerGuards`, `MirrorRests`, `DeletionCompletes` | hold |
| `np_live` | `TypeOK`, `PoliciesInPlace`, `EgressInPlace`, `DoneMeansClean`, `ComesToRest` | hold (910 thousand states) |
| `od_live` | `TypeOK`, `ArgumentsEffective`, `EnvironmentEffective`, `PlacementEffective`, `ProfileFollowed`, `ComesToRest` | hold (200 thousand states) |
| `od_bundle_key` | `BundleKeyMounted` | violated |
| `crd_live` | `TypeOK`, `RestsWhenAnnotated`, `AnnotatedUnlessMissed`, `Quiesces` | hold (690 thousand states) |
| `crd_stale_rest` | `EventuallyAnnotated` | violated |
| `crd_lost_condition` | `ConditionsCurrent` | violated |

Every property of a passing run has a mutant: an operator `X_Something` next to `X` that
changes it as a plausible mistake would, under which TLC finds the property violated.

Bounds. ManagedMetadata has two resources: the Namespace, and an optional one, which while it
is part of the configuration stands for the ordinary ones too; two keys suffice to exchange
keys without changing their number (that is what `TrackingMatchesSpec` is about). One edit,
one failure or restart, one drift and one stale read, each at any point and in any order:
together with the initial configuration the edit gives two versions of the spec, which a pass
may have read, apply or track in any combination. The violations need no more either.
ESCReconciler allows two changes by users, and one failure, restart or stale read. Its
configurations are a reference to an Issuer or Secret and a trustedCABundle, which between
them meet every class of error that depends on other objects; the others (`noCertManager`,
`badProxy`, `badCert`, `plain`) decide a pass on their own and are covered by the proofs.
CRDAnnotator has two CRDs, so that a failed patch leaves one behind, counts all disturbances
together and allows two, and one stale read. ManagerMirror allows four changes (two
conditions set, then one changed or either object deleted and created again): the loss of the
first condition needs two. NetworkPolicies has two entries of one name for different
components with two rules, proxies that are HTTP, HTTPS with a port and unmanaged, without a
port, or invalid, and an environment that sets one field, so that fields of all three sources
meet; two changes and one failure or restart. OperandDeployment lets users configure one
component (the webhook, which has a subcommand in its arguments and a volume of its own)
while all four are deployed; two changes let two layers meet in one flag, variable or field,
or a setting be made and taken back.

`CHECK_DEADLOCK FALSE` everywhere: the bounded changes over and the work done, the system is
at rest.

Fairness. Weak fairness of the informers (client-go delivers), of taking a request off the
queue and of every step of a call (a worker runs); users, failures and restarts owe nothing.
In ESCReconciler the owner of a foreign finalizer releases it in the end. In OperandDeployment
the kubelet starts the operator again. Where one condition covers several actions (`Work`,
`Reload`, `PassStep`) they exclude one another, so that it is the same as one for each. In CRDAnnotator
taking a request is strongly fair per request: the workqueue is a FIFO, so a request that
fails over and over cannot starve another one; weak fairness would not do, since the action
is disabled while a call is under way.

### What the violated properties show

1. `NoRemovalLost`: tracking is written last, so a pass that fails half way leaves
   annotations that nothing tracks; dropped by the user before the retry, they stay.
2. `UserSpecKept`: `AddFinalizer` writes back the spec read at the start of the call with a
   fresh `resourceVersion`, over a concurrent edit.
3. `TrackingNeverAhead`: a pass that an edit has started may read an ESC with the edit and
   without the tracking patch of the pass before. It derives no keys to delete, patches both
   annotations because it finds the ESC unprocessed, and forgets keys that resources carry.
4. `BundleKeyMounted`: `volumesEqual` compares ConfigMap volumes by name only, so a changed
   key of trustedCABundle reaches the operand only with the next other change.
5. `ConditionsCurrent`: each controller writes the whole status that it read at the start.
6. `EventuallyAnnotated`: the annotator is woken by the manager's cache and reads its own; when
   that one still lacks the ESC, the call returns and nothing repeats it.

`PROJECT.json` quotes, for each, the line of the repository that says otherwise.

### What else the models show

* What lag does to the other properties. `TrackingMatchesSpec` holds of a controller whose last
  pass was `current`; after a stale pass tracking may differ from the spec until the next one.
  `RestsWhenAnnotated` and `AnnotatedUnlessMissed` except the CRDs in `missed`: a stale call
  rests with them unannotated. `StatusTruthful`, `BundleProblemAnnounced` and
  `EventuallyReady` except a controller that has `skipped` (edits a, b, a in a row, the last
  pass on a copy that has the status of the first). Nothing in the repository says how fresh
  the status is, so this is not listed as a disagreement. `DesiredApplied`, `Converges`,
  `FinalizerGuards` and `DeletionCompletes` hold without exception for stale reads.
* While the ConfigMap of trustedCABundle is missing, the Deployment is applied half built:
  `getDeploymentObject` returns it before resources, placement, overrides and proxy are set
  (`deployments.go:80-82`, `146-152`; `settings` in ESCReconciler). `StatusTruthful` shows that
  the ESC is not Ready again before the Deployment is whole.
* Two entries of `networkPolicies` with one name and different components, which the list
  keys of the CRD admit, share one policy: each pass writes it twice and wakes the next one.
  `np_live` has such a pair, and `ComesToRest` excepts the states in which both are listed
  (`NameClash`).
* Legacy policies are deleted by name some time after they were listed (`networkpolicy.go:444`):
  a user's policy put in the place of a listed one in between is deleted with the rest, which
  the comment at `networkpolicy.go:411-414` excludes. No property covers it; outside that
  window the list's labels spare users' policies by construction.
* A proxy URL without a port and with a scheme other than http and https makes
  `buildProxyEgressNetworkPolicy` return nil, on which the pass panics for ever;
  `ComesToRest` excepts it, as it does the invalid placements of OperandDeployment, which are
  plain errors and retried for ever.
* The proxy is applied after `overrideEnv` (`deployments.go:194-196`) and replaces or removes
  proxy variables that the user set there, although
  `api/v1alpha1/external_secrets_config_types.go:186` lets user values take precedence.
  `EnvironmentEffective` says nothing of these variables, and everything of the others.
* A pass that ends with an irrecoverable error is not repeated; `ComesToRest` counts it as
  rest, and the other liveness properties except it.
* The log level of the ESM is effective only while the ESC has no `appConfig`, since the API
  server sets the ESC's own.
* The mirrored `observedGeneration` may stay behind; a Deployment whose `serviceAccountName`
  was changed by somebody is not repaired; an egress policy that lost its label is not
  removed with the proxy.

## 4. Proofs

All theorems hold for every value of the constants that satisfies `ConstantsAssumption`.

* `ManagedMetadata_proofs`: `TypeCorrect`, `AnnotationsApplied`, `TrackingExact`,
  `TrackingOrder`, for any number of stale reads. None of the three properties is inductive.
  `AppliedInv` carries the first one: a cache shows what no event announces
  (`ViewsFollow`), so that while nothing is announced or queued the pass works on the ESC as
  it is and the resources behind it are as it wants them (`GrantedBehind`); this needs no
  assumption about what the pass has read, since whatever it missed is announced.
  `TrackingInv` carries the other two: a pass that has read only what the server had holds
  the server's tracking annotation and deletes the tracked keys that its spec lacks
  (`PassKnowsTracking`), the resources behind it carry none of them (`CleanBehind`), and an
  edit it has not seen is on its way (`EditsAreComing`). The step where numbers of keys stand
  in for the keys needs the cardinality lemmas of `FiniteSetTheorems`: with no deleted key
  the tracked set is contained in the spec's, and equal numbers make them equal.
* `ESCReconciler_proofs`: `TypeCorrect`, and `FinalizerRefinement`: `Spec` implements
  `GuardedObject`, whatever the caches show. The invariant `FinalizerInv` says that no copy of the
  ESC is ahead of the server, that a live cached ESC with the finalizer is still held, that
  `cleanup` works on a deleting copy only, and that from `refetch` on the server's ESC has the
  finalizer and exists. With it every step is a step of `GuardedObject` or leaves stage and
  work alone.
  `StatusTruth` and `WarningRecorded` are `StatusTruthful` and `BundleProblemAnnounced`, both
  from `StatusInv`, for any number of stale reads. As in ManagedMetadata a cache shows what no
  event announces (`ViewsFollow`). The first part of `StatusInv` (`CallKnows`) always holds:
  the once gate is shut only after a warning. Its second part (`QuietKnows`) holds while
  nothing is queued or announced (`Quiet`): what the call has read is what the server has
  (`Fresh`), and step by step what it has established still is so, up to the outcome that it
  is about to write (`OutcomeTrue`). `OutcomeTrue` is stronger than the property: the bundle
  must be labelled too, since an unlabelled one could change unnoticed.
* `ManagerMirror_proofs`: `TypeCorrect`, and `FinalizerRefinement` along the same argument
  for the ESM, where an object of the same name may take the place of the one that the pass
  has read (`NotAhead` compares generations of the object by `uid`).
  `MirrorCompleteness` is `MirrorComplete`, from `MirrorInv`: the cache shows whatever no event
  announces, and while nothing is announced or queued the pass works on the ESM as it is, so
  that the mirror is in step or what the pass is about to write changes it
  (`MirroredDiffers`), and wakes the controller again.
* `NetworkPolicies_proofs`: `TypeCorrect`, `PoliciesApplied`, `EgressFollowsProxy`,
  `CleanupComplete`: every safety property of the module. `InPlaceInv` says that while nothing is queued nobody has changed anything visible since the pass began,
  so that every wish is granted or still ahead of the pass, and that behind the egress step
  the egress policy is right; `FirstOfThree` relates the reference to the merge. `CleanupInv`
  says that what is left of the listed policies is still to be deleted. A lost policy
  (`LosePolicy`) ends the pass with a request in the queue, so that `InPlaceInv` claims nothing.
* `CRDAnnotator_proofs`: `TypeCorrect` and `AnnotatorRests`, from `CallInv` and `WorkPending`:
  a CRD that lacks the annotation, and whose latest call was not misled by a lagging cache,
  always has an event, a request, a place in the call's list, or a failed call whose request
  will come back.
* `OperandDeployment_proofs`: `TypeCorrect`, `ArgumentsTakeEffect`, `EnvironmentTakesEffect`,
  `PlacementTakesEffect`: every invariant of the module. Three arguments meet. First, what
  `mergeContainerArgs` computes, by induction over the overrides: the library's induction
  theorems take an operator, so `SetInduction` takes a set of numbers instead and follows
  from the least member of its complement (`WFMin`). `MergedUpTo` says what `n` overrides
  have made of a list with distinct flags: still distinct, the flags of both, and for each
  the last override or else the old value; `Effect` is that for `OPERAND_*_ARGS` and then
  `advancedOverrides`, and `BaseArgs` that the operator's own lists have distinct flags.
  Second, `ObjectParts`: each part of the Deployment that `getDeploymentObject` builds, read
  off its chain of layers. Third, `AppliedInv`: while the process runs and nothing is queued,
  every enabled component that the pass has left behind is in place (`InPlace`: it is visible
  to the cache and `deploymentSpecModified` finds no difference to what ESC, ESM, profile and
  environment ask for now, as built or as the server completes it), and a component about to
  be written can be built.
  The last steps show that a Deployment without difference in the sense of the comparison has
  the wanted arguments, variables and fields. `BasicInv` adds to the types that
  `SSL_CERT_DIR` is nobody's but the bundle's.

Each invariant was first checked by TLC on the instance of its run. The proof of `StatusInv`
brought to light two pairs of CASE guards that overlapped; they are disjoint now.

Left to TLC: the properties under fairness (`TrackedRemovalHappens`, `Converges`,
`EventuallyReady`, `DeletionCompletes`, `MirrorRests`, `ComesToRest`, `ProfileFollowed`,
`AnnotatedUnlessMissed`, `Quiesces`), since the prover reasons neither about liveness under
fairness nor about ENABLED. Every invariant and every action property that a passing run
checks is stated by a theorem. None assumes that caches are current: where stale reads make a
difference, the property itself says so (`current`, `skipped`, `missed`). NetworkPolicies and
OperandDeployment model no lag to begin with (see the abstractions above).

## 5. Plan

Done: the six modules above and the refinement of `GuardedObject`, in the order annotations,
reconcile loop, annotator, mirror, network policies, Deployments. Next:

* The comparisons of services, RBAC, certificates and webhooks in `HasObjectChanged`, as
  operators of ManagedMetadata's resources.

Not modelled, and not planned: flags, metrics, health checks and leader election of `cmd/`,
the TLS settings of the operator's own metrics server, PEM parsing, image versions in the
status, generated code and embedded manifests.
