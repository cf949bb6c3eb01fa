---------------------------- MODULE ESCReconciler ----------------------------
(***************************************************************************)
(* The reconcile loop of the ExternalSecretsConfig (ESC) controller: which *)
(* requests start a pass, how the finalizer guards the ESC, how the errors *)
(* of a pass are classified, what is then written to the status and what   *)
(* is expected to bring the controller back.                               *)
(*                                                                         *)
(* A failed pass is retried after 30 s, retried until a missing object     *)
(* turns up, or left alone until a watch reports a change, depending on    *)
(* the class of its error.  The third case is the delicate one: the        *)
(* ConfigMap of trustedCABundle belongs to the user and is watched only    *)
(* once the controller has labelled it.                                    *)
(*                                                                         *)
(* The install steps are one step here, except for those of the core       *)
(* controller's Deployment, which read that ConfigMap.                     *)
(***************************************************************************)
EXTENDS Integers

CONSTANTS
  Configs,       \* the configurations that users choose from, some of Config
  Foreign,       \* whether an ESC may carry someone else's finalizer too
  MaxChanges,    \* bound on what users and other controllers do
  MaxFaults      \* bound on failed API calls, restarts and reads of a cache that lags

\* spec of the ESC, by what becomes of it: nothing special; cert-manager asked for but not
\* installed; an invalid proxy URL; no issuerRef, or one of an unsupported kind, or neither
\* certManagerConfig nor secretRef for bitwarden; an issuerRef or secretRef; a
\* trustedCABundle.
Config == {"plain", "noCertManager", "badProxy", "badCert", "ref", "bundle"}

ASSUME ConstantsAssumption ==
  /\ Configs \subseteq Config
  /\ Foreign \in BOOLEAN
  /\ MaxChanges \in Nat /\ MaxFaults \in Nat

VARIABLES
  esc, escView,  \* the ESC on the API server and in the informer cache
  cm, cmView,    \* the ConfigMap that trustedCABundle names, likewise
  refExists,     \* the Issuer or Secret that cert-manager or bitwarden names exists
  esmBad,        \* spec.globalConfig of the ExternalSecretsManager has an invalid proxy
  events,        \* admitted watch events not yet delivered
  queued,        \* the workqueue holds the (only) reconcile request
  pass,          \* the Reconcile call under way
  deployed,      \* the core controller's Deployment
  now,           \* the once gate of the validation warning has fired (Reconciler.now)
  announced,     \* a validation warning was recorded since the ESC was last Ready
  skipped,       \* history: the last call left conditions unwritten that the ESC lacks
  changes, faults

vars == <<esc, escView, cm, cmView, refExists, esmBad, events, queued, pass, deployed,
          now, announced, skipped, changes, faults>>
world == <<refExists, esmBad, changes>>

\* Outcomes of a pass: success, irrecoverable, user configuration (wrong or missing
\* object), anything else.
Outcome == {"ok", "fatal", "user", "notFound", "retry"}

\* The Ready and Degraded conditions, which one outcome and generation determine.
Status == [outcome : Outcome \cup {"unset"}, gen : Nat]
Unset == [outcome |-> "unset", gen |-> 0]

\* The uid tells an ESC from the next one of the same name.
ESC == [uid : Nat, phase : {"live", "deleting", "gone"}, gen : Nat, config : Config,
        finalizer : BOOLEAN, foreign : BOOLEAN, status : Status,
        cleaned : BOOLEAN, processed : BOOLEAN]   \* the controller's annotations

\* What the ConfigMap holds under the key that trustedCABundle names: usable PEM, unusable
\* PEM, no such key; or it is filled in by the network operator while a proxy is set.
Data == {"valid", "invalid", "noKey", "cno"}
ConfigMap == [exists : BOOLEAN, labelled : BOOLEAN, data : Data]
NoConfigMap == [exists |-> FALSE, labelled |-> FALSE, data |-> "valid"]

Installing == {"validate", "install", "bundle", "label", "deploy", "finish"}
Pass == [pc : {"idle", "cleanup", "finalizer", "refetch", "status"} \cup Installing,
         esc : ESC, cm : ConfigMap, gen : Nat, outcome : Outcome]

\* Does it mount the user's bundle; has it the proxy, resources, placement and overrides
\* that the ESC asks for.
Deployment == [exists : BOOLEAN, mount : BOOLEAN, settings : BOOLEAN]

TypeOK ==
  /\ esc \in ESC /\ escView \in ESC
  /\ cm \in ConfigMap /\ cmView \in ConfigMap
  /\ refExists \in BOOLEAN /\ esmBad \in BOOLEAN
  /\ events \subseteq {"esc", "esm", "cm"}
  /\ queued \in BOOLEAN
  /\ pass \in Pass
  /\ deployed \in Deployment
  /\ now \in BOOLEAN /\ announced \in BOOLEAN /\ skipped \in BOOLEAN
  /\ changes \in Nat /\ faults \in Nat

-----------------------------------------------------------------------------
(* Users, other controllers and the informers.                               *)

NewESC(u, c, f) ==
  [uid |-> u, phase |-> "live", gen |-> 1, config |-> c, finalizer |-> FALSE, foreign |-> f,
   status |-> Unset, cleaned |-> FALSE, processed |-> FALSE]

Idle == [pc |-> "idle", esc |-> NewESC(0, "plain", FALSE), cm |-> NoConfigMap, gen |-> 0,
         outcome |-> "ok"]

Init ==
  /\ \E c \in Configs, f \in {FALSE, Foreign} : esc = NewESC(1, c, f)
  /\ escView = esc
  /\ cm \in {NoConfigMap, [NoConfigMap EXCEPT !.exists = TRUE, !.data = "invalid"]}
  /\ cmView = cm
  /\ refExists = FALSE /\ esmBad = FALSE
  /\ events = {} /\ queued = TRUE
  /\ pass = Idle
  /\ deployed = [exists |-> FALSE, mount |-> FALSE, settings |-> FALSE]
  /\ now = FALSE /\ announced = FALSE /\ skipped = FALSE
  /\ changes = 0 /\ faults = 0

Change == changes < MaxChanges /\ changes' = changes + 1

\* GenerationChangedPredicate: creation, removal and changes of generation get through.
StoreESC(new) ==
  /\ esc' = new
  /\ events' = IF <<new.uid, new.gen, new.phase>> # <<esc.uid, esc.gen, esc.phase>>
               THEN events \cup {"esc"} ELSE events

EditESC ==
  /\ Change
  /\ esc.phase = "live"
  /\ \E c \in Configs \ {esc.config} :
       StoreESC([esc EXCEPT !.config = c, !.gen = @ + 1])
  /\ UNCHANGED <<escView, cm, cmView, refExists, esmBad, queued, pass, deployed, now,
                 announced, skipped, faults>>

\* The server keeps an object with finalizers until the last of them is removed.
DeleteESC ==
  /\ Change
  /\ esc.phase = "live"
  /\ StoreESC([esc EXCEPT !.gen = @ + 1,
                 !.phase = IF esc.finalizer \/ esc.foreign THEN "deleting" ELSE "gone"])
  /\ UNCHANGED <<escView, cm, cmView, refExists, esmBad, queued, pass, deployed, now,
                 announced, skipped, faults>>

CreateESC ==
  /\ Change
  /\ esc.phase = "gone"
  /\ \E c \in Configs : StoreESC(NewESC(esc.uid + 1, c, FALSE))
  /\ UNCHANGED <<escView, cm, cmView, refExists, esmBad, queued, pass, deployed, now,
                 announced, skipped, faults>>

Released(e) ==
  IF e.phase = "deleting" /\ ~e.finalizer /\ ~e.foreign THEN [e EXCEPT !.phase = "gone"]
  ELSE e

\* Whoever set the other finalizer removes it in the end.
ReleaseForeign ==
  /\ esc.foreign /\ esc.phase # "gone"
  /\ StoreESC(Released([esc EXCEPT !.foreign = FALSE]))
  /\ UNCHANGED <<escView, cm, cmView, world, queued, pass, deployed, now, announced,
                 skipped, faults>>

\* An Issuer or a Secret comes or goes, unwatched; the ExternalSecretsManager is edited.
ChangeReferences ==
  /\ Change
  /\ \/ refExists' = ~refExists /\ UNCHANGED <<esmBad, events>>
     \/ esmBad' = ~esmBad /\ events' = events \cup {"esm"} /\ UNCHANGED refExists
  /\ UNCHANGED <<esc, escView, cm, cmView, queued, pass, deployed, now, announced, skipped,
                 faults>>

\* managedOrWatchedResourcePredicates: the old or the new ConfigMap carries the label.
StoreConfigMap(new) ==
  /\ cm' = new
  /\ events' = IF cm.labelled \/ new.labelled THEN events \cup {"cm"} ELSE events

\* The administrator creates, edits, strips of its label or deletes the ConfigMap.
EditConfigMap ==
  /\ Change
  /\ "bundle" \in Configs
  /\ \/ \E d \in Data :
          /\ ~cm.exists \/ d # cm.data
          /\ StoreConfigMap([cm EXCEPT !.exists = TRUE, !.data = d])
     \/ cm.labelled /\ StoreConfigMap([cm EXCEPT !.labelled = FALSE])
     \/ cm.exists /\ StoreConfigMap(NoConfigMap)
  /\ UNCHANGED <<esc, escView, refExists, esmBad, cmView, queued, pass, deployed, now,
                 announced, skipped, faults>>

SyncESC ==
  /\ escView # esc \/ "esc" \in events
  /\ escView' = esc
  /\ events' = events \ {"esc"} /\ queued' = (queued \/ "esc" \in events)
  /\ UNCHANGED <<esc, cm, cmView, world, pass, deployed, now, announced, skipped, faults>>

SyncConfigMap ==
  /\ cmView # cm \/ "cm" \in events
  /\ cmView' = cm
  /\ events' = events \ {"cm"} /\ queued' = (queued \/ "cm" \in events)
  /\ UNCHANGED <<esc, escView, cm, world, pass, deployed, now, announced, skipped, faults>>

SyncESM ==
  /\ "esm" \in events
  /\ events' = events \ {"esm"} /\ queued' = TRUE
  /\ UNCHANGED <<esc, escView, cm, cmView, world, pass, deployed, now, announced, skipped,
                 faults>>

-----------------------------------------------------------------------------
(* Reconcile.                                                                *)

Fault == faults < MaxFaults /\ faults' = faults + 1

\* Every read is of the cache, caught up or not.
Read(copy, object) == IF copy = object THEN UNCHANGED faults ELSE Fault

\* Returning an error makes controller-runtime call again after a backoff.
ReturnError ==
  pass' = Idle /\ queued' = TRUE

\* The finalizer is left out.
FirstStep_NoFinalizer(e) == IF e.phase = "deleting" THEN "cleanup" ELSE "validate"

\* Where the call goes from Get, unless there is no such ESC.
FirstStep(e) == IF e.phase = "deleting" THEN "cleanup" ELSE "finalizer"

Reconcile ==
  /\ pass.pc = "idle" /\ queued
  /\ Read(escView, esc)
  /\ queued' = FALSE
  /\ pass' = IF escView.phase = "gone" THEN Idle
             ELSE [Idle EXCEPT !.pc = FirstStep(escView), !.esc = escView,
                               !.gen = escView.gen]
  /\ UNCHANGED <<esc, escView, cm, cmView, world, events, deployed, now, announced,
                 skipped>>

\* UpdateWithRetry sends the copy with the resourceVersion of the cache: it goes through
\* when the cache is current and still holds the object that the copy is of, and then
\* replaces the whole object but its status.
Updated(copy) ==
  [esc EXCEPT !.config = copy.config, !.finalizer = copy.finalizer,
              !.cleaned = copy.cleaned, !.processed = copy.processed,
              !.gen = IF copy.config # esc.config THEN @ + 1 ELSE @]

CanUpdate == escView = esc /\ esc.phase # "gone" /\ pass.esc.uid = esc.uid

\* A deleting ESC is left alone.
RemoveFinalizer_Skipped ==
  /\ pass.pc = "cleanup"
  /\ pass' = Idle
  /\ UNCHANGED <<esc, events, queued, escView, cm, cmView, world, deployed, now, announced,
                 skipped, faults>>

\* cleanUp; the code then goes on to AddFinalizer.
RemoveFinalizer ==
  /\ pass.pc = "cleanup"
  /\ \/ /\ pass.esc.finalizer /\ CanUpdate
        /\ StoreESC(Released(Updated([pass.esc EXCEPT !.finalizer = FALSE])))
        /\ pass' = [pass EXCEPT !.pc = "finalizer", !.esc.finalizer = FALSE]
        /\ UNCHANGED <<queued, faults>>
     \/ /\ pass.esc.finalizer /\ ~CanUpdate
        /\ Read(escView, esc)
        /\ ReturnError /\ UNCHANGED <<esc, events>>
     \/ /\ ~pass.esc.finalizer
        /\ pass' = [pass EXCEPT !.pc = "finalizer"]
        /\ UNCHANGED <<esc, events, queued, faults>>
  /\ UNCHANGED <<escView, cm, cmView, world, deployed, now, announced, skipped>>

\* The server accepts no new finalizer on an object that is being deleted.
AddFinalizer ==
  LET accepted == CanUpdate /\ esc.phase = "live" IN
  /\ pass.pc = "finalizer"
  /\ \/ /\ pass.esc.finalizer
        /\ pass' = [pass EXCEPT !.pc = "validate"]
        /\ UNCHANGED <<esc, events, queued, faults>>
     \/ /\ ~pass.esc.finalizer /\ accepted
        /\ StoreESC(Updated([pass.esc EXCEPT !.finalizer = TRUE]))
        /\ pass' = [pass EXCEPT !.pc = "refetch"]
        /\ UNCHANGED <<queued, faults>>
     \/ /\ ~pass.esc.finalizer /\ ~accepted
        /\ Read(escView, esc)
        /\ ReturnError /\ UNCHANGED <<esc, events>>
  /\ UNCHANGED <<escView, cm, cmView, world, deployed, now, announced, skipped>>

\* After the update the copy is read anew, from the cache.
RefetchESC ==
  /\ pass.pc = "refetch"
  /\ Read(escView, esc)
  /\ IF escView.phase = "gone" THEN ReturnError
     ELSE /\ pass' = [pass EXCEPT !.pc = "validate", !.esc = escView, !.gen = escView.gen]
          /\ UNCHANGED queued
  /\ UNCHANGED <<esc, escView, cm, cmView, world, events, deployed, now, announced,
                 skipped>>

-----------------------------------------------------------------------------
(* The install steps, reconcileExternalSecretsDeployment.                    *)

\* The class of the error is lost.
FailPass_Unclassified(o) ==
  [pass EXCEPT !.pc = "status", !.outcome = "unset", !.cm = NoConfigMap]

\* The error of the step, with its class, ends the install steps.
FailPass(o) == [pass EXCEPT !.pc = "status", !.outcome = o, !.cm = NoConfigMap]

\* resolveProxyConfiguration: what the ESC leaves open is taken from the
\* ExternalSecretsManager.
ProxyInvalid(e) == e.config = "badProxy" \/ esmBad

validateExternalSecretsConfig ==
  /\ pass.pc = "validate"
  /\ pass' = CASE pass.esc.config = "noCertManager" -> FailPass("fatal")
               [] pass.esc.config # "noCertManager" /\ ProxyInvalid(pass.esc) ->
                    FailPass("user")
               [] OTHER -> [pass EXCEPT !.pc = "install"]
  /\ UNCHANGED <<esc, escView, cm, cmView, world, events, queued, deployed, now, announced,
                 skipped, faults>>

\* markCleanupDone patches the ESC, once in its life, and the rest of the pass works on the
\* ESC that the server sent back.
markCleanupDone == IF pass.esc.cleaned THEN pass.esc ELSE [esc EXCEPT !.cleaned = TRUE]

\* createOrApplyCertificates checks what the ESC says of certificates, looks up the Issuer
\* and the Secret that it refers to, and fails where cert-manager is not installed.
CertificatesOutcome(e) ==
  CASE e.config = "noCertManager" -> "retry"
    [] e.config = "badCert" -> "user"
    [] e.config = "ref" /\ ~refExists -> "notFound"
    [] OTHER -> "ok"

\* Up to the Deployments.
InstallResources ==
  LET copy == markCleanupDone
      outcome == CertificatesOutcome(copy) IN
  /\ pass.pc = "install"
  /\ esc' = IF pass.esc.cleaned THEN esc ELSE copy
  /\ pass' = IF outcome = "ok" THEN [pass EXCEPT !.pc = "bundle", !.esc = copy]
             ELSE [FailPass(outcome) EXCEPT !.esc = copy]
  /\ UNCHANGED <<escView, cm, cmView, world, events, queued, deployed, now, announced,
                 skipped, faults>>

\* The cache first, and the server when the cache has no such object.
getWithCacheFallback == IF cmView.exists THEN cmView ELSE cm

\* applyUserCABundleConfig: without a trustedCABundle the once gate is reset, with one the
\* ConfigMap is fetched.
FetchBundle ==
  /\ pass.pc = "bundle"
  /\ IF pass.esc.config = "bundle"
     THEN /\ Read(getWithCacheFallback, cm)
          /\ pass' = [pass EXCEPT !.cm = getWithCacheFallback,
                        !.pc = IF getWithCacheFallback.exists THEN "label" ELSE "deploy"]
          /\ UNCHANGED now
     ELSE /\ pass' = [pass EXCEPT !.pc = "deploy"]
          /\ now' = FALSE /\ UNCHANGED faults
  /\ UNCHANGED <<esc, escView, cm, cmView, world, events, queued, deployed, announced,
                 skipped>>

\* Only ConfigMaps that pass validation are labelled.
updateWatchLabel_ValidOnly ==
  /\ pass.pc = "label"
  /\ IF pass.cm.data = "invalid" \/ ~cm.exists THEN UNCHANGED <<cm, events>>
     ELSE StoreConfigMap([cm EXCEPT !.labelled = TRUE])
  /\ pass' = [pass EXCEPT !.pc = "deploy"]
  /\ UNCHANGED <<esc, escView, cmView, world, queued, deployed, now, announced, skipped,
                 faults>>

\* The label is patched before the data, which was read earlier, is validated.
updateWatchLabel ==
  /\ pass.pc = "label"
  /\ Read(getWithCacheFallback, cm)
  /\ \/ /\ getWithCacheFallback.exists /\ getWithCacheFallback.labelled
        /\ pass' = [pass EXCEPT !.pc = "deploy"]
        /\ UNCHANGED <<cm, events>>
     \/ /\ getWithCacheFallback.exists /\ ~getWithCacheFallback.labelled /\ cm.exists
        /\ StoreConfigMap([cm EXCEPT !.labelled = TRUE])
        /\ pass' = [pass EXCEPT !.pc = "deploy"]
     \/ /\ ~cm.exists /\ (cmView.exists => ~cmView.labelled)
        /\ pass' = FailPass("retry")
        /\ UNCHANGED <<cm, events>>
  /\ UNCHANGED <<esc, escView, cmView, world, queued, deployed, now, announced, skipped>>

\* What applyUserCABundleConfig makes of the ConfigMap it fetched.
BundleOutcome ==
  CASE pass.esc.config # "bundle" -> "none"
    [] pass.esc.config = "bundle" /\ ~pass.cm.exists -> "missing"
    [] OTHER -> pass.cm.data

\* The warning is recorded when the once gate has not fired yet.
recordTrustedCABundleValidationEvent == BundleOutcome = "invalid" /\ ~now

\* createOrApplyDeploymentFromAsset for the core controller.  A missing ConfigMap leaves a
\* Deployment without the mount, and without all the settings that getDeploymentObject
\* would have applied after it; one without usable PEM leaves the Deployment as it is.
DeployController ==
  /\ pass.pc = "deploy"
  /\ deployed' = IF BundleOutcome \in {"invalid", "noKey"} THEN deployed
                 ELSE [exists |-> TRUE, mount |-> BundleOutcome = "valid",
                       settings |-> BundleOutcome # "missing"]
  /\ now' = CASE BundleOutcome = "invalid" -> TRUE
              [] BundleOutcome = "valid" -> FALSE
              [] OTHER -> now
  /\ announced' = (announced \/ recordTrustedCABundleValidationEvent)
  /\ pass' = CASE BundleOutcome = "missing" -> FailPass("notFound")
               [] BundleOutcome \in {"invalid", "noKey"} -> FailPass("user")
               [] OTHER -> [pass EXCEPT !.pc = "finish", !.cm = NoConfigMap]
  /\ UNCHANGED <<esc, escView, cm, cmView, world, events, queued, skipped, faults>>

\* The once gate stays as it is.
FinishInstall_NoReset ==
  /\ pass.pc = "finish"
  /\ esc' = [esc EXCEPT !.processed = TRUE]
  /\ pass' = [pass EXCEPT !.pc = "status", !.outcome = "ok",
                          !.esc = IF pass.esc.processed THEN pass.esc ELSE esc']
  /\ UNCHANGED <<escView, cm, cmView, world, events, queued, deployed, now, announced,
                 skipped, faults>>

\* The other Deployments, the webhooks and updateCRAnnotationsIfNeeded, whose patch also
\* brings back the server's ESC; success resets the once gate.
FinishInstall ==
  /\ pass.pc = "finish"
  /\ esc' = [esc EXCEPT !.processed = TRUE]
  /\ pass' = [pass EXCEPT !.pc = "status", !.outcome = "ok",
                          !.esc = IF pass.esc.processed THEN pass.esc ELSE esc']
  /\ now' = FALSE
  /\ UNCHANGED <<escView, cm, cmView, world, events, queued, deployed, announced, skipped,
                 faults>>

-----------------------------------------------------------------------------
(* The end of Reconcile.                                                     *)

\* No polling for missing objects.
RequeuesAfter_NoPolling(o) == o = "retry"

\* userConfigurationFailureResult and its caller: these are tried again after 30 s.
RequeuesAfter(o) == o \in {"retry", "notFound"}

\* updateStatus puts the conditions into the cached object, which has to be current.
CanUpdateStatus == escView = esc /\ esc.phase # "gone"

\* The conditions are written when they differ from those of the copy, which may have been
\* stale when it was read.
UpdateStatus ==
  LET conditions == [outcome |-> pass.outcome, gen |-> pass.gen] IN
  /\ pass.pc = "status"
  /\ \/ /\ pass.esc.status = conditions
        /\ pass' = Idle /\ queued' = (queued \/ RequeuesAfter(pass.outcome))
        /\ skipped' = (esc.status # conditions)
        /\ UNCHANGED <<esc, announced, faults>>
     \/ /\ pass.esc.status # conditions /\ CanUpdateStatus
        /\ esc' = [esc EXCEPT !.status = conditions]
        /\ announced' = (announced /\ pass.outcome # "ok")
        /\ pass' = Idle /\ queued' = (queued \/ RequeuesAfter(pass.outcome))
        /\ skipped' = FALSE
        /\ UNCHANGED faults
     \/ /\ pass.esc.status # conditions /\ ~CanUpdateStatus
        /\ Read(escView, esc)
        /\ ReturnError /\ UNCHANGED <<esc, announced, skipped>>
  /\ UNCHANGED <<escView, cm, cmView, world, events, deployed, now>>

\* An API call fails: within the install steps the error is classified, elsewhere (the
\* ExternalSecretsManager is fetched before validation) Reconcile returns it.
FailStep ==
  /\ Fault
  /\ \/ /\ pass.pc \in Installing \ {"validate"}
        /\ \E o \in {"retry", "fatal"} : pass' = FailPass(o)
        /\ UNCHANGED queued
     \/ /\ pass.pc \in {"cleanup", "finalizer", "refetch", "validate", "status"}
        /\ ReturnError
  /\ UNCHANGED <<esc, escView, cm, cmView, world, events, deployed, now, announced,
                 skipped>>

\* The pass and the once gate are lost, the caches are filled anew and the initial lists
\* enqueue the ESC.
Restart ==
  /\ Fault
  /\ pass' = Idle /\ now' = FALSE
  /\ escView' = esc /\ cmView' = cm /\ events' = {} /\ queued' = TRUE
  /\ UNCHANGED <<esc, cm, world, deployed, announced, skipped>>

PassStep ==
  \/ RemoveFinalizer \/ AddFinalizer \/ RefetchESC
  \/ validateExternalSecretsConfig \/ InstallResources
  \/ FetchBundle \/ updateWatchLabel \/ DeployController \/ FinishInstall
  \/ UpdateStatus

Next ==
  \/ EditESC \/ DeleteESC \/ CreateESC \/ ReleaseForeign
  \/ ChangeReferences \/ EditConfigMap
  \/ SyncESC \/ SyncConfigMap \/ SyncESM
  \/ Reconcile \/ PassStep
  \/ FailStep \/ Restart

\* The informers deliver, other controllers release their finalizers, the worker takes
\* requests off the queue (RequeueAfter is a requeue that comes late) and runs its pass.
Fairness ==
  /\ WF_vars(SyncESC) /\ WF_vars(SyncConfigMap) /\ WF_vars(SyncESM)
  /\ WF_vars(ReleaseForeign)
  /\ WF_vars(Reconcile) /\ WF_vars(PassStep)

Spec == Init /\ [][Next]_vars
FairSpec == Spec /\ Fairness

-----------------------------------------------------------------------------
(* The invariant behind FinalizerGuards.                                     *)

Held == esc.finalizer /\ esc.phase # "gone"

\* A copy of the ESC is not ahead of the server: what it shows as deleting is not live.
NotAhead(copy) ==
  /\ copy.uid <= esc.uid
  /\ (copy.uid = esc.uid /\ copy.phase # "live") => esc.phase # "live"

\* What the cache and the call under way know of the finalizer.
FinalizerInv ==
  /\ NotAhead(escView)
  /\ pass.pc # "idle" => NotAhead(pass.esc)
  /\ (escView.phase = "live" /\ escView.finalizer) => Held
  /\ pass.pc = "cleanup" => pass.esc.phase = "deleting"
  /\ (pass.pc = "finalizer" /\ pass.esc.finalizer) => Held
  /\ pass.pc \in {"refetch"} \cup Installing => Held

-----------------------------------------------------------------------------
(* Properties.                                                               *)

\* The ESC as GuardedObject sees it.
Stage ==
  CASE esc.phase = "gone" -> "absent"
    [] esc.phase = "live" -> IF esc.finalizer THEN "held" ELSE "new"
    [] esc.phase = "deleting" -> IF esc.finalizer THEN "closing" ELSE "released"

Guarded == INSTANCE GuardedObject WITH object <- Stage, busy <- pass.pc \in Installing

\* The finalizer of the ESC does what finalizers are for: whatever the cache shows and
\* although cleanUp is followed by AddFinalizer, resources are installed only while it
\* keeps the ESC on the server, it is never put on an ESC that is being deleted, and it is
\* removed only from such an ESC, by a pass that installs nothing.
FinalizerGuards == Guarded!Spec

\* Nothing to do and nothing on its way to the controller.
Settled == pass.pc = "idle" /\ ~queued /\ events = {}

BundleUsable == cm.exists /\ cm.data \in {"valid", "cno"}

\* The core controller's Deployment is what the ESC asks for.
DeployedAsAsked ==
  /\ deployed.exists /\ deployed.settings
  /\ deployed.mount = (esc.config = "bundle" /\ cm.data = "valid")

\* Reconcile stops retrying when the configuration is wrong and counts on the watches: when
\* it has settled, the conditions are those of the current generation, a Ready ESC is one
\* whose bundle is usable and whose Deployment is whole again after a pass that missed the
\* ConfigMap, and an ESC reported as misconfigured still is, whatever the administrator did
\* to the ConfigMap between the controller's reads, of caches that lag, and its label patch.
\* Excepted is a call that compared its conditions with a stale copy's, took them for
\* written and left the ESC with older ones.
StatusTruthful ==
  Settled /\ esc.phase = "live" /\ ~skipped =>
    /\ esc.status.gen = esc.gen
    /\ esc.status.outcome = "ok" =>
         /\ esc.config \notin {"noCertManager", "badProxy", "badCert"} /\ ~esmBad
         /\ esc.config = "bundle" => BundleUsable
         /\ DeployedAsAsked
    /\ esc.status.outcome = "user" =>
         \/ esc.config \in {"badProxy", "badCert"} \/ esmBad
         \/ esc.config = "bundle" /\ ~BundleUsable

\* The once gate never swallows the first warning of a degraded period: an ESC that has
\* settled as misconfigured because of unusable PEM in its bundle had a warning since it was
\* last Ready (for a missing key the code records none), with StatusTruthful's exception.
BundleProblemAnnounced ==
  (Settled /\ esc.phase = "live" /\ ~skipped /\ esc.status.outcome = "user"
     /\ esc.config = "bundle" /\ ~esmBad /\ cm.data = "invalid") => announced

\* UpdateWithRetry "handles concurrent modification gracefully": the controller never
\* changes the spec, only users do.
UserSpecKept == [][changes' = changes => esc'.config = esc.config]_vars

\* What a pass would succeed with as things are.
Installable ==
  /\ esc.phase = "live" /\ ~esmBad
  /\ \/ esc.config = "plain"
     \/ esc.config = "ref" /\ refExists
     \/ esc.config = "bundle" /\ BundleUsable

\* The users' changes over, an ESC that can be installed becomes and stays Ready for its
\* current generation, be it by retry, by polling or by a watch event, unless an
\* irrecoverable API error made the controller give up, or it took a stale copy's conditions
\* for its own.
EventuallyReady ==
  <>[](Installable =>
         \/ skipped
         \/ esc.status.outcome \in {"ok", "fatal"} /\ esc.status.gen = esc.gen)

\* A deleted ESC goes away, although cleanUp is followed by an attempt to put the finalizer
\* back, once nobody else's finalizer holds it.
DeletionCompletes == esc.phase = "deleting" ~> esc.phase # "deleting"
=============================================================================
