--------------------------- MODULE NetworkPolicies ---------------------------
(***************************************************************************)
(* The network policies of the operand: the static ones of the enabled     *)
(* components, the egress policy for the proxy, the ones that users list   *)
(* in the ExternalSecretsConfig (ESC), and the cleanup, done once, of the  *)
(* policies that earlier versions left under names without a prefix.       *)
(*                                                                         *)
(* The policies are read through a cache that only shows those labelled    *)
(* app=external-secrets; users and other controllers may relabel, change   *)
(* and delete them at any point of a pass.  That the cache may also lag    *)
(* behind the server is left to the other modules.                         *)
(***************************************************************************)
EXTENDS Integers, Sequences

CONSTANTS
  Entries,       \* entries that users may add to networkPolicies: name and component
  Rules,         \* egress rules of an entry
  Proxies,       \* proxy settings that users choose from, some of ProxyConfig
  OLM,           \* the proxy settings in the operator's environment
  MaxChanges,    \* bound on what users and other controllers do
  MaxFailures    \* bound on failed API calls and operator restarts

\* The URL of a proxy, by what becomes of it: not set; without a port, with a scheme that has
\* a default port or one that has none; with a port; not a valid URL.
URL == {"", "http", "https", "socks", "port", "invalid"}
ProxyConfig == [http : URL, https : URL, noProxy : BOOLEAN,
                provisioning : {"", "Managed", "Unmanaged"}]
NoProxy == [http |-> "", https |-> "", noProxy |-> FALSE, provisioning |-> ""]

Entry == [name : STRING, component : {"core", "bitwarden"}]

ASSUME ConstantsAssumption ==
  /\ Entries \subseteq Entry /\ Rules \subseteq STRING /\ Rules # {}
  /\ Proxies \subseteq ProxyConfig /\ OLM \in ProxyConfig
  /\ OLM.http # "invalid" /\ OLM.https # "invalid"
  /\ MaxChanges \in Nat /\ MaxFailures \in Nat

VARIABLES
  esc,       \* the ESC: enabled features, listed entries, proxy, cleanup annotation
  esmProxy,  \* globalConfig.proxy of the ExternalSecretsManager
  np,        \* the network policies on the server
  queued,    \* the workqueue holds the (only) reconcile request
  pass,      \* the Reconcile call under way
  outcome,   \* how the last pass ended
  changes, failures

vars == <<esc, esmProxy, np, queued, pass, outcome, changes, failures>>
inputs == <<esmProxy, changes>>

\* "base" stands for the policies that every configuration has.
Statics == {"base", "cert-controller", "bitwarden"}
CustomNames == {e.name : e \in Entries}

\* Names of policies: prefix and rest.
System(n) == <<"eso-sys-", n>>
User(n) == <<"eso-user-", n>>
Unprefixed(n) == <<"", n>>
Egress == System("allow-proxy-egress")

Names == {System(n) : n \in Statics} \cup {Egress} \cup {User(n) : n \in CustomNames}
           \cup {Unprefixed(n) : n \in Statics \cup CustomNames}

\* What a specification consists of: the asset, the component and rule of an entry, the ports
\* of the proxy, or what somebody else has made.
Piece == {"asset", "core", "bitwarden", "80", "443", "8080", "users", "drift"} \cup Rules

\* visible: labelled app=external-secrets; owned: the labels managed-by and part-of.
Policy == [exists : BOOLEAN, visible : BOOLEAN, owned : BOOLEAN, spec : SUBSET Piece]
NoPolicy == [exists |-> FALSE, visible |-> FALSE, owned |-> FALSE, spec |-> {}]

\* A policy as the operator makes it.
Made(spec) == [exists |-> TRUE, visible |-> TRUE, owned |-> TRUE, spec |-> spec]

\* The rule of every listed entry, in the order of the list.
ESC == [certManager : BOOLEAN, bitwarden : BOOLEAN, custom : Seq(Entries),
        rule : [Entries -> Rules], proxy : ProxyConfig, cleaned : BOOLEAN]

Outcome == {"ok", "fatal", "user", "retry"}

\* What is left to apply, with its specification, and to delete.
Pass == [pc : {"idle", "static", "custom", "delete"},
         esc : ESC, proxy : ProxyConfig, todo : Seq(Names \X SUBSET Piece),
         doomed : SUBSET Names]

TypeOK ==
  /\ esc \in ESC /\ esmProxy \in ProxyConfig
  /\ np \in [Names -> Policy]
  /\ queued \in BOOLEAN
  /\ pass \in Pass
  /\ outcome \in Outcome
  /\ changes \in Nat /\ failures \in Nat

-----------------------------------------------------------------------------
(* What is asked for.                                                        *)

\* staticNetworkPolicyAssetConfigs
Enabled(e, n) ==
  CASE n = "cert-controller" -> ~e.certManager
    [] n = "bitwarden" -> e.bitwarden
    [] OTHER -> TRUE

staticNetworkPolicyAssetConfigs(e) ==
  LET static(n) == IF Enabled(e, n) THEN <<<<System(n), {"asset"}>>>> ELSE <<>> IN
  static("base") \o static("cert-controller") \o static("bitwarden")

\* buildNetworkPolicyFromConfig
CustomPolicies(e) ==
  [i \in DOMAIN e.custom |-> <<User(e.custom[i].name), {e.custom[i].component,
                                                       e.rule[e.custom[i]]}>>]

\* legacyOperatorNetworkPolicyNames
legacyOperatorNetworkPolicyNames(e) ==
  {Unprefixed(n) : n \in {m \in Statics : Enabled(e, m)}}
    \cup {Unprefixed(e.custom[i].name) : i \in DOMAIN e.custom}

\* The next source replaces the whole of a configuration without an HTTP proxy.
mergeProxyConfigFields_Whole(into, from) == IF into.http = "" THEN from ELSE into

\* What is not set is taken from the next source.
mergeProxyConfigFields(into, from) ==
  [http |-> IF into.http = "" THEN from.http ELSE into.http,
   https |-> IF into.https = "" THEN from.https ELSE into.https,
   noProxy |-> into.noProxy \/ from.noProxy,
   provisioning |-> IF into.provisioning = "" THEN from.provisioning
                    ELSE into.provisioning]

\* ESC, then ExternalSecretsManager, then the environment.
resolveProxyConfiguration ==
  mergeProxyConfigFields(mergeProxyConfigFields(esc.proxy, esmProxy), OLM)

validateProxy(proxy) == proxy.http # "invalid" /\ proxy.https # "invalid"

hasProxyEndpointURLs(proxy) == proxy.http # "" \/ proxy.https # ""

\* reconcileProxyEgressPolicy; nobody having said otherwise, the policy is managed.
ShouldExist(proxy) == hasProxyEndpointURLs(proxy) /\ proxy.provisioning # "Unmanaged"

extractProxyPorts(proxy) ==
  LET ports == [u \in URL |-> CASE u = "http" -> {"80"}
                                [] u = "https" -> {"443"}
                                [] u = "port" -> {"8080"}
                                [] OTHER -> {}] IN
  ports[proxy.https] \cup ports[proxy.http]

\* buildProxyEgressNetworkPolicy returns nil where no port can be derived, and its caller
\* goes on with it.
NilPolicy(proxy) == ShouldExist(proxy) /\ extractProxyPorts(proxy) = {}

-----------------------------------------------------------------------------
(* Users and other controllers.                                              *)

Idle == [pc |-> "idle", proxy |-> NoProxy, todo |-> <<>>, doomed |-> {},
         esc |-> [certManager |-> FALSE, bitwarden |-> FALSE, custom |-> <<>>,
                  rule |-> [e \in Entries |-> CHOOSE r \in Rules : TRUE],
                  proxy |-> NoProxy, cleaned |-> FALSE]]

\* A new installation, or one that is upgraded from a version without prefixes and lists an
\* entry.
Init ==
  /\ \/ esc = Idle.esc /\ np = [n \in Names |-> NoPolicy]
     \/ \E e \in Entries :
          /\ esc = [Idle.esc EXCEPT !.custom = <<e>>]
          /\ np = [n \in Names |-> IF n[1] = "" /\ n[2] \in Statics \cup {e.name}
                                   THEN Made({"asset"}) ELSE NoPolicy]
  /\ esmProxy = NoProxy
  /\ queued = TRUE
  /\ pass = Idle
  /\ outcome = "ok"
  /\ changes = 0 /\ failures = 0

Change == changes < MaxChanges /\ changes' = changes + 1

\* Entries of networkPolicies cannot be removed, and certManager cannot be disabled.
EditESC ==
  /\ Change
  /\ \/ esc' = [esc EXCEPT !.certManager = TRUE]
     \/ esc' = [esc EXCEPT !.bitwarden = ~@]
     \/ \E p \in Proxies : esc' = [esc EXCEPT !.proxy = p]
     \/ \E e \in Entries :
          /\ \A i \in DOMAIN esc.custom : esc.custom[i] # e
          /\ esc' = [esc EXCEPT !.custom = Append(@, e)]
     \/ \E i \in DOMAIN esc.custom, r \in Rules :
          esc' = [esc EXCEPT !.rule[esc.custom[i]] = r]
  /\ esc' # esc
  /\ queued' = TRUE
  /\ UNCHANGED <<esmProxy, np, pass, outcome, failures>>

EditESM ==
  /\ Change
  /\ esmProxy' \in Proxies \ {esmProxy}
  /\ queued' = TRUE
  /\ UNCHANGED <<esc, np, pass, outcome, failures>>

\* A write that changes nothing raises an event as well.
StoreAll_Always(new) == np' = new /\ queued' = TRUE

\* Events of policies that are, or were, visible get through, the controller's own writes
\* included.
StoreAll(new) ==
  /\ np' = new
  /\ queued' = (queued \/ \E n \in Names : new[n] # np[n] /\ (np[n].visible \/ new[n].visible))

Store(n, policy) == StoreAll([np EXCEPT ![n] = policy])

\* A policy is relabelled, changed or deleted, or one is created by a user.
Drift ==
  /\ Change
  /\ \E n \in Names :
       \/ /\ np[n].exists
          /\ \E new \in {NoPolicy, [np[n] EXCEPT !.visible = FALSE],
                         [np[n] EXCEPT !.owned = FALSE], [np[n] EXCEPT !.spec = {"drift"}]} :
               new # np[n] /\ Store(n, new)
       \/ /\ ~np[n].exists /\ n[1] = ""
          /\ Store(n, [Made({"users"}) EXCEPT !.owned = FALSE])
  /\ UNCHANGED <<esc, esmProxy, pass, outcome, failures>>

-----------------------------------------------------------------------------
(* The pass: createOrApplyNetworkPolicies.                                   *)

\* A failed step is recorded under the name of its error.
EndPass_Raw(o) ==
  /\ pass' = Idle /\ outcome' = IF o = "retry" THEN "MultipleInstanceError" ELSE o

EndPass(o) ==
  /\ pass' = Idle /\ outcome' = o

\* An invalid proxy is the user's to change; the request is not repeated.
Reconcile ==
  LET proxy == resolveProxyConfiguration IN
  /\ pass.pc = "idle" /\ queued
  /\ queued' = FALSE
  /\ IF validateProxy(proxy)
     THEN /\ pass' = [pc |-> "static", esc |-> esc, proxy |-> proxy, doomed |-> {},
                      todo |-> staticNetworkPolicyAssetConfigs(esc)]
          /\ UNCHANGED outcome
     ELSE EndPass("user")
  /\ UNCHANGED <<esc, np, inputs, failures>>

\* A policy that the cache does not show is taken to be absent.
Applied_NoFallback(n, spec) ==
  IF np[n].exists /\ ~np[n].visible THEN np[n] ELSE Made(spec)

\* Create where the cache shows none, then, where there is one after all, or where it
\* differs, an update: one way or the other the policy is what it should be, unless somebody
\* else acts in between (LosePolicy).
Applied(n, spec) == Made(spec)

\* createOrApplyNetworkPolicyFromAsset and createOrApplyCustomNetworkPolicy.
ApplyPolicy ==
  /\ pass.pc \in {"static", "custom"} /\ pass.todo # <<>>
  /\ Store(Head(pass.todo)[1], Applied(Head(pass.todo)[1], Head(pass.todo)[2]))
  /\ pass' = [pass EXCEPT !.todo = Tail(@)]
  /\ UNCHANGED <<esc, inputs, outcome, failures>>

\* Only policies that the cache shows are removed.
EgressPolicy(proxy) ==
  CASE ShouldExist(proxy) -> Applied(Egress, extractProxyPorts(proxy))
    [] ~ShouldExist(proxy) /\ np[Egress].visible -> NoPolicy
    [] OTHER -> np[Egress]

\* The panic on nil is recovered, and the request repeated, by controller-runtime; no
\* status is written.
reconcileProxyEgressPolicy ==
  /\ pass.pc = "static" /\ pass.todo = <<>>
  /\ \/ /\ NilPolicy(pass.proxy)
        /\ EndPass("retry") /\ queued' = TRUE
        /\ UNCHANGED np
     \/ /\ ~NilPolicy(pass.proxy)
        /\ Store(Egress, EgressPolicy(pass.proxy))
        /\ pass' = [pass EXCEPT !.pc = "custom", !.todo = CustomPolicies(pass.esc)]
        /\ UNCHANGED outcome
  /\ UNCHANGED <<esc, inputs, failures>>

\* What the pass is about to write or, without a specification, to delete.
Target ==
  IF pass.todo # <<>> THEN Head(pass.todo)
  ELSE <<Egress, IF ShouldExist(pass.proxy) THEN extractProxyPorts(pass.proxy) ELSE {}>>

\* UpdateWithRetry reads the policy once more.  Between the first read, or Create, and the
\* write somebody relabels or deletes the policy that was there, and the call fails.
LosePolicy ==
  LET n == Target[1] IN
  /\ Change
  /\ pass.pc = "static" \/ (pass.pc = "custom" /\ pass.todo # <<>>)
  /\ np[n].exists /\ np[n] # Made(Target[2])
  /\ \/ np' = [np EXCEPT ![n] = NoPolicy]
     \/ Target[2] # {} /\ np[n].visible /\ np' = [np EXCEPT ![n].visible = FALSE]
  /\ EndPass("retry") /\ queued' = TRUE
  /\ UNCHANGED <<esc, esmProxy, failures>>

\* What the list, by labels, shows of the legacy names.
Listed(e) == {n \in legacyOperatorNetworkPolicyNames(e) : np[n].visible /\ np[n].owned}

\* cleanupMigratedNetworkPolicies, unless it was done before.
ListLegacyPolicies ==
  /\ pass.pc = "custom" /\ pass.todo = <<>>
  /\ IF pass.esc.cleaned THEN EndPass("ok")
     ELSE pass' = [pass EXCEPT !.pc = "delete", !.doomed = Listed(pass.esc)]
          /\ UNCHANGED outcome
  /\ UNCHANGED <<esc, np, inputs, queued, failures>>

\* It does not matter that the policy is gone already.
DeleteLegacyPolicy ==
  /\ pass.pc = "delete"
  /\ \E n \in pass.doomed :
       /\ Store(n, NoPolicy)
       /\ pass' = [pass EXCEPT !.doomed = @ \ {n}]
  /\ UNCHANGED <<esc, inputs, outcome, failures>>

\* The annotation is written first.
markCleanupDone_Early ==
  /\ pass.pc = "delete"
  /\ esc' = [esc EXCEPT !.cleaned = TRUE]
  /\ IF pass.doomed = {} THEN EndPass("ok") ELSE UNCHANGED <<pass, outcome>>
  /\ UNCHANGED <<np, inputs, queued, failures>>

markCleanupDone ==
  /\ pass.pc = "delete" /\ pass.doomed = {}
  /\ esc' = [esc EXCEPT !.cleaned = TRUE]
  /\ EndPass("ok")
  /\ UNCHANGED <<np, inputs, queued, failures>>

\* FromClientError: the request is repeated, unless the error is irrecoverable.
FailStep ==
  /\ failures < MaxFailures /\ failures' = failures + 1
  /\ pass.pc # "idle"
  /\ \/ EndPass("retry") /\ queued' = TRUE
     \/ EndPass("fatal") /\ UNCHANGED queued
  /\ UNCHANGED <<esc, np, inputs>>

Restart ==
  /\ failures < MaxFailures /\ failures' = failures + 1
  /\ pass' = Idle /\ queued' = TRUE
  /\ UNCHANGED <<esc, np, inputs, outcome>>

PassStep ==
  \/ ApplyPolicy \/ reconcileProxyEgressPolicy
  \/ ListLegacyPolicies \/ DeleteLegacyPolicy \/ markCleanupDone

Next ==
  \/ EditESC \/ EditESM \/ Drift \/ LosePolicy
  \/ Reconcile \/ PassStep
  \/ FailStep \/ Restart

\* The worker takes requests off the queue and runs its pass.
Spec == Init /\ [][Next]_vars
FairSpec == Spec /\ WF_vars(Reconcile \/ PassStep)

-----------------------------------------------------------------------------
(* Properties.                                                               *)

\* The first of the sources that sets a field, the reference for the merged configuration.
FirstSet(a, b, c, unset) ==
  LET values == <<a, b, c>>
      set == {i \in DOMAIN values : values[i] # unset} IN
  IF set = {} THEN unset ELSE values[CHOOSE i \in set : \A j \in set : i <= j]

Effective ==
  [http |-> FirstSet(esc.proxy.http, esmProxy.http, OLM.http, ""),
   https |-> FirstSet(esc.proxy.https, esmProxy.https, OLM.https, ""),
   noProxy |-> FirstSet(esc.proxy.noProxy, esmProxy.noProxy, OLM.noProxy, FALSE),
   provisioning |-> FirstSet(esc.proxy.provisioning, esmProxy.provisioning,
                               OLM.provisioning, "")]

\* Nothing to do, after a pass that found nothing wrong.
Settled == pass.pc = "idle" /\ ~queued
SettledWell == Settled /\ outcome = "ok"

\* When the controller has settled, the policies of the enabled components and of the
\* listed entries are in place as asked for, whatever was done to them in the meantime.
PoliciesInPlace ==
  SettledWell =>
    /\ \A n \in Statics : Enabled(esc, n) => np[System(n)] = Made({"asset"})
    /\ \A i \in DOMAIN esc.custom :
         np[User(esc.custom[i].name)] = Made({esc.custom[i].component, esc.rule[esc.custom[i]]})

\* And the egress policy opens the ports of the proxy that is effective, field by field, if
\* it is to be managed, and is gone otherwise, as far as the cache can show it.
EgressInPlace ==
  SettledWell =>
    IF ShouldExist(Effective)
    THEN np[Egress] = Made(extractProxyPorts(Effective)) /\ np[Egress].spec # {}
    ELSE ~np[Egress].visible

\* The cleanup is recorded as done only when nothing is left to be cleaned up under the
\* names that the ESC of the pass accounts for, although deletions fail half way, passes
\* start over and other policies come and go.
DoneMeansClean ==
  [][esc'.cleaned /\ ~esc.cleaned => Listed(pass.esc) = {}]_vars

\* The API takes entries of one name for different components.
NameClash ==
  \E i, j \in DOMAIN esc.custom : i # j /\ esc.custom[i].name = esc.custom[j].name

\* Woken by its own writes, the controller comes to rest once it is left alone, although
\* writes were lost to others.  Excepted are two states in which it never does: the egress
\* policy cannot be made, or two entries take turns at one policy.
ComesToRest == <>[](Settled \/ NilPolicy(Effective) \/ NameClash)
=============================================================================
