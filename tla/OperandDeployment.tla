-------------------------- MODULE OperandDeployment --------------------------
(***************************************************************************)
(* The Deployments of the operand: how their desired state is put together *)
(* layer by layer from an asset, the ExternalSecretsConfig (ESC), the      *)
(* ExternalSecretsManager (ESM), the operator's environment and the TLS    *)
(* profile of the cluster, how it is compared with what the server has,    *)
(* and when it is written.                                                 *)
(*                                                                         *)
(* The TLS profile is read when the operator starts; a change of it shuts  *)
(* the operator down.  A trustedCABundle that cannot be used is the        *)
(* subject of ESCReconciler; here its ConfigMap is in order.               *)
(***************************************************************************)
EXTENDS Integers, Sequences, FiniteSets, SequencesExt

CONSTANTS
  Text,          \* names and values of arguments, variables, volumes and entries of fields
  Configured,    \* components that users configure and that somebody changes
  Patches,       \* advancedOverrides that users choose from, some of Patch
  Environments,  \* values of OPERAND_*_ARGS, some of Seq(Part)
  EnvVars,       \* overrideEnv that users choose from, some of Env
  Placements,    \* placements that users choose from, some of Placement
  MaxChanges,    \* bound on what users, admins and other controllers do
  MaxFailures    \* bound on failed API calls and crashes

Component == {"core", "webhook", "cert-controller", "bitwarden"}

\* Fields of the pod that ESC and ESM set, and the ones that only advancedOverrides sets.
Field == {"resources", "affinity", "tolerations", "nodeSelector"}
AnyField == Field \cup {"topologySpread"}

\* Their values are sets of entries.
Unset == {"unset"}
Placement == [Field -> SUBSET Text]
NoPlacement == [f \in Field |-> Unset]

\* Arguments: flag and value, an empty flag for what does not start with --.
Arg == Text \X Text

\* OPERAND_*_ARGS, split before every --: a flag without a value may be followed by junk; the
\* first part may be no flag at all, and any part may lack the name of the flag.
Part == [dashes : BOOLEAN, flag : Text, value : Text, junk : BOOLEAN]

Proxied == {"HTTP_PROXY", "NO_PROXY"}
Var == {"USER"} \cup Proxied \cup {"SSL_CERT_DIR"}
Env == [Var -> Text]
NoEnv == [v \in Var |-> ""]

\* advancedOverrides: values of fields, arguments, and whether anything else is in it (another
\* path or container, or a value that is not an object or a list).
Keep == {"keep"}
Null == {"null"}
Patch == [fields : [AnyField -> SUBSET Text], args : Seq(Arg), forbidden : BOOLEAN]
NoPatch == [fields |-> [f \in AnyField |-> Keep], args |-> <<>>, forbidden |-> FALSE]

\* What does not come from users: assets, constants of the operator, and the API server.
OwnText ==
  {"", "unset", "keep", "null", "loglevel", "warn", "error", "debug", "namespace", "ns",
   "cluster-store", "true", "false", "unsafe-generic-targets", "webhook", "check-interval",
   "5m0s", "certcontroller", "state-path", "asset", "tls-min-version", "1.2", "1.3",
   "tls-ciphers", "profile", "configmap", "k1", "k2", "dir", "cert-manager", "proxy",
   "proxy-bundle", "field/v1", "drift"}

ASSUME ConstantsAssumption ==
  /\ OwnText \subseteq Text
  /\ Configured \subseteq Component /\ Placements \subseteq Placement
  /\ Patches \subseteq Patch /\ Environments \subseteq Seq(Part)
  /\ EnvVars \subseteq {e \in Env : e["SSL_CERT_DIR"] = ""}
  /\ MaxChanges \in Nat /\ MaxFailures \in Nat

VARIABLES
  esc,         \* what the ESC asks for
  esm,         \* what the ESM asks for
  environment, \* the environment of the operator's pod
  cluster,     \* TLS profile and adherence policy of the cluster
  process,     \* the operator: running or not, what it read at its start
  dep,         \* the Deployments on the server
  queued,      \* the workqueue holds the (only) reconcile request
  pass,        \* the Reconcile call under way
  outcome,     \* how the last pass ended
  changes, failures

vars == <<esc, esm, environment, cluster, process, dep, queued, pass, outcome, changes,
          failures>>
inputs == <<esc, esm, environment, cluster>>

ComponentConfig == [replicas : {0, 2}, env : Env, patch : Patch]
NoConfig == [replicas |-> 0, env |-> NoEnv, patch |-> NoPatch]

\* bundle: the key of trustedCABundle, if there is one.
ESC == [certManager : BOOLEAN, bitwarden : BOOLEAN, namespace : BOOLEAN, logLevel : {"", "warn", "error"},
        placement : Placement, proxy : {"none", "http", "httpNo"}, bundle : {"", "k1", "k2"},
        config : [Component -> ComponentConfig]]
ESM == [feature : BOOLEAN, logLevel : {"", "debug"}, placement : Placement]

Cluster == [profile : {"intermediate", "modern", "unsupported"}, strict : BOOLEAN]

Volume == {"trusted-ca", "user-ca", "certs"}

\* visible: labelled app=external-secrets.  A volume: what it is taken from, and the key.
Deployment == [exists : BOOLEAN, visible : BOOLEAN, replicas : Nat, serviceAccount : Text,
               args : Seq(Arg), env : Env, volumes : [Volume -> Text \X Text],
               fields : [AnyField -> SUBSET Text]]

NoVolume == <<"", "">>
NoDeployment ==
  [exists |-> FALSE, visible |-> FALSE, replicas |-> 0, serviceAccount |-> "", args |-> <<>>,
   env |-> NoEnv, volumes |-> [v \in Volume |-> NoVolume],
   fields |-> [f \in AnyField |-> {}]]

\* The asset as it is decoded; no component has more than one container.
Asset == [NoDeployment EXCEPT !.exists = TRUE, !.visible = TRUE, !.replicas = 1,
                              !.serviceAccount = "asset"]

Outcome == {"ok", "fatal", "user", "retry"}
Pass == [pc : {"idle", "read", "create", "update"}, esc : ESC, esm : ESM,
         todo : Seq(Component)]

TypeOK ==
  /\ esc \in ESC /\ esm \in ESM /\ cluster \in Cluster
  /\ environment \in [image : BOOLEAN, args : [Component -> Seq(Part)]]
  /\ process \in [running : BOOLEAN, initial : Cluster, tlsArgs : Seq(Arg)]
  /\ dep \in [Component -> Deployment]
  /\ queued \in BOOLEAN
  /\ pass \in Pass
  /\ outcome \in Outcome
  /\ changes \in Nat /\ failures \in Nat

-----------------------------------------------------------------------------
(* The TLS profile.                                                          *)

\* getTLSConfig fails on names of ciphers that it does not know.
Resolves(c) == c.strict => c.profile # "unsupported"

operandTLSArgs(c) ==
  CASE ~c.strict -> <<>>
    [] c.strict /\ c.profile = "modern" -> <<<<"tls-min-version", "1.3">>>>
    [] OTHER -> <<<<"tls-min-version", "1.2">>, <<"tls-ciphers", "profile">>>>

-----------------------------------------------------------------------------
(* The layers of the desired Deployment.                                     *)

createOrApplyDeployments(e) ==
  <<"core", "webhook">> \o (IF e.certManager THEN <<>> ELSE <<"cert-controller">>)
                        \o (IF e.bitwarden THEN <<"bitwarden">> ELSE <<>>)

\* ESC, then ESM, then the default.
getLogLevel(e, m) ==
  CASE e.logLevel # "" -> e.logLevel
    [] e.logLevel = "" /\ m.logLevel # "" -> m.logLevel
    [] OTHER -> "warn"

\* The arguments of the features that are enabled.
updateOptionalFeatures(m) ==
  IF m.feature THEN <<<<"unsafe-generic-targets", "true">>>> ELSE <<>>

\* updateContainerSpec and its likes for the other components; the TLS arguments come last.
ContainerArgs(c, e, m) ==
  LET log == <<"loglevel", getLogLevel(e, m)>> IN
  (CASE c = "core" ->
          <<log>> \o (IF e.namespace
                      THEN <<<<"namespace", "ns">>, <<"cluster-store", "false">>>>
                      ELSE <<<<"cluster-store", "true">>>>)
                  \o updateOptionalFeatures(m)
     [] c = "webhook" -> <<<<"", "webhook">>, <<"check-interval", "5m0s">>, log>>
     [] c = "cert-controller" -> <<<<"", "certcontroller">>, log>>
     [] c = "bitwarden" -> <<<<"state-path", "asset">>>>) \o process.tlsArgs

\* parseOperandArgsEnv: junk after a flag without a value is dropped.
Parses(parts) == \A i \in DOMAIN parts : parts[i].dashes /\ parts[i].flag # ""
parseOperandArgsEnv(parts) == [i \in DOMAIN parts |-> <<parts[i].flag, parts[i].value>>]

\* An override takes the place of the last argument with its flag, or comes last.
MergeArg(args, override) ==
  LET same == {i \in DOMAIN args : args[i][1] = override[1]} IN
  CASE override[1] = "" -> args
    [] override[1] # "" /\ same # {} ->
         [args EXCEPT ![CHOOSE i \in same : \A j \in same : j <= i] = override]
    [] OTHER -> Append(args, override)

\* Overrides are appended, for the program to take the last.
mergeContainerArgs_Append(base, overrides) == base \o overrides

mergeContainerArgs(base, overrides) ==
  LET merged[n \in 0 .. Len(overrides)] ==
        IF n = 0 THEN base ELSE MergeArg(merged[n - 1], overrides[n])
  IN  merged[Len(overrides)]

\* The mount and the variable that makes the program look there.
applyUserCABundleConfig(e, d) ==
  IF e.bundle = "" THEN d
  ELSE [d EXCEPT !.volumes["user-ca"] = <<"configmap", e.bundle>>,
                 !.env["SSL_CERT_DIR"] = "dir"]

\* The Secret of the asset, or the one that cert-manager makes.
updateWebhookVolumeConfig(e, d) ==
  [d EXCEPT !.volumes["certs"] = IF e.certManager THEN <<"cert-manager", "">>
                                 ELSE <<"asset", "">>]

WithVolumes(c, e, d) ==
  CASE c = "core" -> applyUserCABundleConfig(e, d)
    [] c = "webhook" -> updateWebhookVolumeConfig(e, d)
    [] OTHER -> d

\* updateResourceRequirement, updateAffinityRules, updatePodTolerations, updateNodeSelector.
Chosen(f, e, m) ==
  CASE e.placement[f] # Unset -> e.placement[f]
    [] e.placement[f] = Unset /\ m.placement[f] # Unset -> m.placement[f]
    [] OTHER -> {}

WithPlacement(e, m, d) ==
  [d EXCEPT !.fields = [f \in AnyField |-> IF f \in Field THEN Chosen(f, e, m) ELSE {}]]

\* Null deletes; lists without a merge key are replaced; the rest is merged.  Entries of
\* fields stand for whole keys: those of the layers are taken to be of different keys.
strategicMergePatch(f, old, new) ==
  CASE new = Keep -> old
    [] new = Null -> {}
    [] f = "tolerations" /\ new \notin {Keep, Null} -> new
    [] OTHER -> old \cup new

\* The arguments of the patch do not replace those of the Deployment.
applyAdvancedOverrides(d, patch) ==
  [d EXCEPT !.fields = [f \in AnyField |-> strategicMergePatch(f, @[f], patch.fields[f])],
            !.args = mergeContainerArgs(@, patch.args)]

validateOverridePaths(patch) == ~patch.forbidden

mergeUserEnvVars(env, override) ==
  [v \in Var |-> IF override[v] # "" THEN override[v] ELSE env[v]]

applyUserDeploymentConfigs(d, config) ==
  applyAdvancedOverrides([d EXCEPT !.replicas = IF config.replicas = 0 THEN @ ELSE config.replicas,
                                   !.env = mergeUserEnvVars(@, config.env)], config.patch)

\* A variable that the proxy configuration leaves empty is omitted.
ProxyEnv(proxy) == [v \in Proxied |-> CASE proxy = "none" -> ""
                                        [] proxy = "http" /\ v = "NO_PROXY" -> ""
                                        [] OTHER -> "proxy"]

\* applyTrustedCABundleVolumes, removeTrustedCABundleVolumes
TrustedCABundle(proxy) == IF proxy = "none" THEN NoVolume ELSE <<"proxy-bundle", "">>

\* The variables of the proxy are set, or removed, whoever had set them.
updateProxyConfiguration(d, proxy) ==
  [d EXCEPT !.env = [v \in Var |-> IF v \in Proxied THEN ProxyEnv(proxy)[v] ELSE @[v]],
            !.volumes["trusted-ca"] = TrustedCABundle(proxy)]

applyOperandArgsFromEnv(c, args) ==
  mergeContainerArgs(args, parseOperandArgsEnv(environment.args[c]))

getDeploymentObject(c, e, m) ==
  LET started == [Asset EXCEPT !.args = applyOperandArgsFromEnv(c, ContainerArgs(c, e, m))]
      placed == WithPlacement(e, m, WithVolumes(c, e, started)) IN
  updateProxyConfiguration(applyUserDeploymentConfigs(placed, e.config[c]), e.proxy)

\* What is wrong with OPERAND_*_ARGS is not wrapped as an error of any class.
Built_Unclassified(c, e, m) ==
  CASE ~environment.image -> "fatal"
    [] environment.image /\ ~Parses(environment.args[c]) -> "error"
    [] /\ environment.image /\ Parses(environment.args[c])
       /\ \E f \in Field : "invalid" \in Chosen(f, e, m) -> "retry"
    [] /\ environment.image /\ Parses(environment.args[c])
       /\ \A f \in Field : "invalid" \notin Chosen(f, e, m)
       /\ ~validateOverridePaths(e.config[c].patch) -> "user"
    [] OTHER -> "ok"

\* The first step that fails: only what is wrapped as such counts as the user's error.
Built(c, e, m) ==
  CASE ~environment.image -> "fatal"
    [] environment.image /\ ~Parses(environment.args[c]) -> "user"
    [] /\ environment.image /\ Parses(environment.args[c])
       /\ \E f \in Field : "invalid" \in Chosen(f, e, m) -> "retry"
    [] /\ environment.image /\ Parses(environment.args[c])
       /\ \A f \in Field : "invalid" \notin Chosen(f, e, m)
       /\ ~validateOverridePaths(e.config[c].patch) -> "user"
    [] OTHER -> "ok"

\* The API server completes references to fields.
Defaulted(d) ==
  [d EXCEPT !.env = [v \in Var |-> IF @[v] = "field" THEN "field/v1" ELSE @[v]]]

\* Volumes are compared by what they are taken from; the keys do not count.
volumesEqual(desired, fetched) == \A v \in Volume : desired[v][1] = fetched[v][1]

\* Variables that are not wanted any more are not noticed.
containerSpecModified_WantedOnly(desired, fetched) ==
  \/ desired.args # fetched.args
  \/ \E v \in Var : desired.env[v] # "" /\ desired.env[v] # fetched.env[v]
  \/ desired.fields["resources"] # fetched.fields["resources"]

containerSpecModified(desired, fetched) ==
  \/ desired.args # fetched.args \/ desired.env # fetched.env
  \/ desired.fields["resources"] # fetched.fields["resources"]

\* Fields that nobody asks for are not compared.
deploymentSpecModified_OnlyIfSet(desired, fetched) ==
  \/ desired.replicas # fetched.replicas
  \/ containerSpecModified(desired, fetched)
  \/ \E f \in AnyField : desired.fields[f] # {} /\ desired.fields[f] # fetched.fields[f]
  \/ ~volumesEqual(desired.volumes, fetched.volumes)

\* The service account does not count either.
deploymentSpecModified(desired, fetched) ==
  \/ desired.replicas # fetched.replicas
  \/ containerSpecModified(desired, fetched)
  \/ \E f \in AnyField : desired.fields[f] # fetched.fields[f]
  \/ ~volumesEqual(desired.volumes, fetched.volumes)

-----------------------------------------------------------------------------
(* Users, admins and other controllers.                                      *)

Idle ==
  [pc |-> "idle", todo |-> <<>>,
   esc |-> [certManager |-> FALSE, bitwarden |-> FALSE, namespace |-> FALSE, logLevel |-> "warn",
            placement |-> NoPlacement, proxy |-> "none", bundle |-> "",
            config |-> [c \in Component |-> NoConfig]],
   esm |-> [feature |-> FALSE, logLevel |-> "", placement |-> NoPlacement]]

Init ==
  /\ esc = Idle.esc /\ esm = Idle.esm
  /\ environment = [image |-> TRUE, args |-> [c \in Component |-> <<>>]]
  /\ cluster = [profile |-> "intermediate", strict |-> FALSE]
  /\ process = [running |-> TRUE, initial |-> cluster, tlsArgs |-> <<>>]
  /\ dep = [c \in Component |-> NoDeployment]
  /\ queued = TRUE
  /\ pass = Idle
  /\ outcome = "ok"
  /\ changes = 0 /\ failures = 0

Change == changes < MaxChanges /\ changes' = changes + 1

\* meta.go: the API server sets the log level of an appConfig that leaves it out; only removing the
\* whole appConfig makes it unset (the operator's own first update puts an empty one there).
AppConfig(e) == [e EXCEPT !.logLevel = IF @ = "" THEN "warn" ELSE @]
NoAppConfig(e) ==
  [e EXCEPT !.namespace = FALSE, !.logLevel = "", !.placement = NoPlacement, !.proxy = "none"]

EditESC ==
  /\ Change
  /\ \/ esc' = [esc EXCEPT !.certManager = TRUE]
     \/ esc' = [esc EXCEPT !.bitwarden = ~@]
     \/ esc' = AppConfig([esc EXCEPT !.namespace = ~@])
     \/ esc' = [esc EXCEPT !.logLevel = "error"]
     \/ esc' = NoAppConfig(esc)
     \/ \E p \in Placements : esc' = AppConfig([esc EXCEPT !.placement = p])
     \/ \E p \in {"none", "http", "httpNo"} : esc' = AppConfig([esc EXCEPT !.proxy = p])
     \/ \E k \in {"", "k1", "k2"} : esc' = [esc EXCEPT !.bundle = k]
     \/ \E c \in Configured :
          \/ \E r \in {0, 2} : esc' = [esc EXCEPT !.config[c].replicas = r]
          \/ \E e \in EnvVars : esc' = [esc EXCEPT !.config[c].env = e]
          \/ \E p \in Patches : esc' = [esc EXCEPT !.config[c].patch = p]
  /\ esc' # esc
  /\ queued' = (queued \/ process.running)
  /\ UNCHANGED <<esm, environment, cluster, process, dep, pass, outcome, failures>>

EditESM ==
  /\ Change
  /\ \/ esm' = [esm EXCEPT !.feature = ~@]
     \/ \E l \in {"", "debug"} : esm' = [esm EXCEPT !.logLevel = l]
     \/ \E p \in Placements : esm' = [esm EXCEPT !.placement = p]
  /\ esm' # esm
  /\ queued' = (queued \/ process.running)
  /\ UNCHANGED <<esc, environment, cluster, process, dep, pass, outcome, failures>>

\* A write that changes nothing raises an event as well.
Store_Always(c, d) ==
  /\ dep' = [dep EXCEPT ![c] = d]
  /\ queued' = (queued \/ (process.running /\ (dep[c].visible \/ d.visible)))

\* Events of Deployments that are, or were, visible get through, also the controller's own,
\* and a write that changes nothing raises none.
Store(c, d) ==
  /\ dep' = [dep EXCEPT ![c] = d]
  /\ queued' = (queued \/ /\ process.running /\ d # dep[c]
                          /\ dep[c].visible \/ d.visible)

\* Somebody changes, relabels or deletes a Deployment.
Drift ==
  /\ Change
  /\ \E c \in Configured :
       /\ dep[c].exists
       /\ \E new \in {NoDeployment, [dep[c] EXCEPT !.visible = FALSE],
                      [dep[c] EXCEPT !.replicas = 3, !.env["USER"] = "drift"],
                      [dep[c] EXCEPT !.args = Append(@, <<"drift", "">>)],
                      [dep[c] EXCEPT !.fields["topologySpread"] = {"drift"}],
                      [dep[c] EXCEPT !.volumes["trusted-ca"] = <<"drift", "">>]} :
            new # dep[c] /\ Store(c, new)
  /\ UNCHANGED <<inputs, process, pass, outcome, failures>>

SetProfile ==
  /\ Change
  /\ cluster' \in Cluster \ {cluster}
  /\ UNCHANGED <<esc, esm, environment, process, dep, queued, pass, outcome, failures>>

Down == process' = [process EXCEPT !.running = FALSE] /\ pass' = Idle /\ queued' = FALSE

\* A new environment replaces the operator's pod.
SetEnvironment ==
  /\ Change
  /\ \/ \E image \in BOOLEAN : environment' = [environment EXCEPT !.image = image]
     \/ \E c \in Configured, parts \in Environments :
          environment' = [environment EXCEPT !.args[c] = parts]
  /\ environment' # environment
  /\ Down
  /\ UNCHANGED <<esc, esm, cluster, dep, outcome, failures>>

-----------------------------------------------------------------------------
(* The operator.                                                             *)

\* main: with a profile that does not resolve the process exits at once, and is started again.
Start ==
  /\ ~process.running /\ Resolves(cluster)
  /\ process' = [running |-> TRUE, initial |-> cluster, tlsArgs |-> operandTLSArgs(cluster)]
  /\ queued' = TRUE
  /\ UNCHANGED <<inputs, dep, pass, outcome, changes, failures>>

\* Only the profile is watched.
WatchProfile_NoAdherence ==
  /\ process.running /\ process.initial.profile # cluster.profile
  /\ Down
  /\ UNCHANGED <<inputs, dep, outcome, changes, failures>>

\* SecurityProfileWatcher: the operator is shut down, to start with the new profile.
WatchProfile ==
  /\ process.running /\ process.initial # cluster
  /\ Down
  /\ UNCHANGED <<inputs, dep, outcome, changes, failures>>

EndPass(o) ==
  /\ pass' = Idle /\ outcome' = o
  /\ queued' = (queued \/ o = "retry")

Reconcile ==
  /\ process.running /\ pass.pc = "idle" /\ queued
  /\ queued' = FALSE
  /\ pass' = [pc |-> "read", esc |-> esc, esm |-> esm, todo |-> createOrApplyDeployments(esc)]
  /\ UNCHANGED <<inputs, process, dep, outcome, changes, failures>>

Current == Head(pass.todo)
Desired(c) == getDeploymentObject(c, pass.esc, pass.esm)

\* createOrApplyDeploymentFromAsset, up to the write.
ReadDeployment ==
  /\ pass.pc = "read" /\ pass.todo # <<>>
  /\ \/ /\ Built(Current, pass.esc, pass.esm) # "ok"
        /\ EndPass(Built(Current, pass.esc, pass.esm))
     \/ /\ Built(Current, pass.esc, pass.esm) = "ok"
        /\ pass' = CASE ~dep[Current].visible -> [pass EXCEPT !.pc = "create"]
                     [] dep[Current].visible
                        /\ deploymentSpecModified(Desired(Current), dep[Current]) ->
                          [pass EXCEPT !.pc = "update"]
                     [] OTHER -> [pass EXCEPT !.todo = Tail(@)]
        /\ UNCHANGED <<queued, outcome>>
  /\ UNCHANGED <<inputs, process, dep, changes, failures>>

\* createWithFallback makes the Deployment, or updates one that the cache does not show;
\* UpdateWithRetry reads through the cache, and fails if that does not show it any more.
WriteDeployment ==
  /\ pass.pc \in {"create", "update"}
  /\ \/ /\ pass.pc = "update" /\ ~dep[Current].visible
        /\ EndPass("retry")
        /\ UNCHANGED dep
     \/ /\ pass.pc = "create" \/ dep[Current].visible
        /\ Store(Current, Defaulted(Desired(Current)))
        /\ pass' = [pass EXCEPT !.pc = "read", !.todo = Tail(@)]
        /\ UNCHANGED outcome
  /\ UNCHANGED <<inputs, process, changes, failures>>

FinishPass ==
  /\ pass.pc = "read" /\ pass.todo = <<>>
  /\ EndPass("ok")
  /\ UNCHANGED <<inputs, process, dep, changes, failures>>

\* FromClientError: the request is repeated, unless the error is irrecoverable.
FailStep ==
  /\ failures < MaxFailures /\ failures' = failures + 1
  /\ pass.pc # "idle"
  /\ \E o \in {"retry", "fatal"} : EndPass(o)
  /\ UNCHANGED <<inputs, process, dep, changes>>

Crash ==
  /\ failures < MaxFailures /\ failures' = failures + 1
  /\ process.running
  /\ Down
  /\ UNCHANGED <<inputs, dep, outcome, changes>>

\* Of each the two or more actions exclude one another.
Reload == Start \/ WatchProfile
Work == Reconcile \/ ReadDeployment \/ WriteDeployment \/ FinishPass

Next ==
  \/ EditESC \/ EditESM \/ Drift \/ SetProfile \/ SetEnvironment
  \/ Reload \/ Work
  \/ FailStep \/ Crash

\* The kubelet starts the operator; its watcher and its worker run.
Spec == Init /\ [][Next]_vars
FairSpec == Spec /\ WF_vars(Reload) /\ WF_vars(Work)

-----------------------------------------------------------------------------
(* Properties.                                                               *)

Settled == process.running /\ process.initial = cluster /\ pass.pc = "idle" /\ ~queued
SettledWell == Settled /\ outcome = "ok"

Enabled == ToSet(createOrApplyDeployments(esc))

\* What the program makes of a command line: the last argument with the flag.
ValueOf(args, flag) ==
  LET same == {i \in DOMAIN args : args[i][1] = flag} IN
  IF same = {} THEN "" ELSE args[CHOOSE i \in same : \A j \in same : j <= i][2]

Flags(args) == {args[i][1] : i \in DOMAIN args}

\* When the controller has settled, every flag of an enabled component has the value that the
\* last of asset, ESC, ESM and TLS profile, then OPERAND_*_ARGS, then advancedOverrides gives
\* it, is given once, and none but theirs is left over; the subcommand stays in front.
ArgumentsEffective ==
  SettledWell => \A c \in Enabled :
    LET args == dep[c].args
        base == ContainerArgs(c, esc, esm)
        env == parseOperandArgsEnv(environment.args[c])
        patch == esc.config[c].patch.args IN
    /\ Flags(args) = Flags(base) \cup Flags(env) \cup (Flags(patch) \ {""})
    /\ \A f \in Flags(args) :
         /\ Cardinality({i \in DOMAIN args : args[i][1] = f}) = 1
         /\ ValueOf(args, f) = CASE f = "" -> ValueOf(base, f)
                                 [] f # "" /\ f \in Flags(patch) -> ValueOf(patch, f)
                                 [] f \in Flags(env) \ Flags(patch) -> ValueOf(env, f)
                                 [] OTHER -> ValueOf(base, f)
    /\ c \in {"webhook", "cert-controller"} => args[1][1] = ""

\* A value as the user wrote it, or as the server completed it.
Completed(stored, written) ==
  stored = written \/ (written = "field" /\ stored = "field/v1")

\* When the controller has settled, the enabled components have exactly the environment that is
\* asked for: what users ask for, the variables of the proxy where there is one, the one of the
\* trust bundle; and nothing that was asked for earlier, or that somebody else has set, is left.
\* It says nothing of a variable of the proxy that the user's overrideEnv sets as well.
EnvironmentEffective ==
  SettledWell => \A c \in Enabled :
    LET env == dep[c].env
        user == esc.config[c].env IN
    /\ Completed(env["USER"], user["USER"])
    /\ \A v \in Proxied : user[v] = "" => env[v] = ProxyEnv(esc.proxy)[v]
    /\ (dep[c].volumes["trusted-ca"] = NoVolume) = (esc.proxy = "none")
    /\ (env["SSL_CERT_DIR"] # "") = (c = "core" /\ esc.bundle # "")

\* When the controller has settled, every field is what advancedOverrides, or else the ESC, or
\* else the ESM, asks for: a removed setting is taken back, a deleted field is gone, and what
\* somebody else set is undone.
PlacementEffective ==
  SettledWell => \A c \in Enabled, f \in AnyField :
    LET patch == esc.config[c].patch.fields[f]
        below == IF f \in Field THEN Chosen(f, esc, esm) ELSE {} IN
    /\ patch = Keep => dep[c].fields[f] = below
    /\ patch = Null => dep[c].fields[f] = {}
    /\ patch \notin {Keep, Null} => /\ patch \subseteq dep[c].fields[f]
                                    /\ dep[c].fields[f] \subseteq patch \cup below

\* Left alone, the operator comes to run with the cluster's profile and adherence policy, and
\* the enabled components get its TLS arguments, unless it cannot be resolved or the pass fails.
ProfileFollowed ==
  <>[](\/ ~Resolves(cluster)
       \/ process.initial = cluster
          /\ \/ outcome # "ok"
             \/ \A c \in Enabled : Flags(operandTLSArgs(cluster)) \subseteq Flags(dep[c].args))

\* Left alone, the controller comes to rest, although the server completes what it writes,
\* unless a placement is invalid: that is tried again for ever.
ComesToRest ==
  <>[](\/ ~Resolves(cluster) \/ Settled
       \/ \E f \in Field : "invalid" \in Chosen(f, esc, esm))

\* The key of trustedCABundle "is the specific key in the ConfigMap to be utilized": when the
\* controller has settled, the controller's Deployment mounts it.
BundleKeyMounted ==
  SettledWell /\ esc.bundle # "" => dep["core"].volumes["user-ca"][2] = esc.bundle
=============================================================================
