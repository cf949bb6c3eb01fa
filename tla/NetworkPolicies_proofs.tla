----------------------- MODULE NetworkPolicies_proofs ------------------------
(***************************************************************************)
(* Proofs about NetworkPolicies, for every set of entries, rules and       *)
(* proxies and every bound.                                                *)
(***************************************************************************)
EXTENDS NetworkPolicies, TLAPS

-----------------------------------------------------------------------------
(* Type correctness.                                                         *)

Wish == Names \X SUBSET Piece

LEMMA NamesType ==
  /\ \A n \in Statics : System(n) \in Names /\ Unprefixed(n) \in Names
  /\ \A n \in CustomNames : User(n) \in Names /\ Unprefixed(n) \in Names
  /\ Egress \in Names
BY DEF Names

LEMMA MadeType == ASSUME NEW spec \in SUBSET Piece PROVE Made(spec) \in Policy
BY DEF Made, Policy

LEMMA NoPolicyType == NoPolicy \in Policy
BY DEF NoPolicy, Policy

LEMMA NoProxyType == NoProxy \in ProxyConfig
BY DEF NoProxy, ProxyConfig, URL

LEMMA PassType ==
  ASSUME NEW pc \in {"idle", "static", "custom", "delete"}, NEW e \in ESC,
         NEW proxy \in ProxyConfig, NEW todo \in Seq(Wish), NEW doomed \in SUBSET Names
  PROVE  [pc |-> pc, esc |-> e, proxy |-> proxy, todo |-> todo, doomed |-> doomed] \in Pass
BY DEF Pass, Wish

LEMMA IdleType == Idle \in Pass
<1> DEFINE e == [certManager |-> FALSE, bitwarden |-> FALSE, custom |-> <<>>,
                 rule |-> [x \in Entries |-> CHOOSE r \in Rules : TRUE],
                 proxy |-> NoProxy, cleaned |-> FALSE]
<1>1. [x \in Entries |-> CHOOSE r \in Rules : TRUE] \in [Entries -> Rules]
  BY ConstantsAssumption
<1>2. e \in ESC
  BY <1>1, NoProxyType DEF ESC
<1>3. Idle = [pc |-> "idle", esc |-> e, proxy |-> NoProxy, todo |-> <<>>, doomed |-> {}]
  BY DEF Idle
<1>4. <<>> \in Seq(Wish) /\ {} \in SUBSET Names
  OBVIOUS
<1> HIDE DEF e
<1> QED BY <1>2, <1>3, <1>4, NoProxyType, PassType

LEMMA IdleFields == /\ Idle.pc = "idle" /\ Idle.doomed = {} /\ Idle.todo = <<>>
                    /\ Idle.esc \in ESC /\ Idle.esc.cleaned = FALSE
<1>1. Idle.esc \in ESC
  BY IdleType DEF Pass
<1> QED BY <1>1 DEF Idle

LEMMA MergeType ==
  ASSUME NEW into \in ProxyConfig, NEW from \in ProxyConfig
  PROVE  mergeProxyConfigFields(into, from) \in ProxyConfig
BY DEF mergeProxyConfigFields, ProxyConfig

LEMMA ResolvedType == TypeOK => resolveProxyConfiguration \in ProxyConfig
BY MergeType, ConstantsAssumption DEF TypeOK, ESC, resolveProxyConfiguration

LEMMA PortsType ==
  ASSUME NEW proxy \in ProxyConfig PROVE extractProxyPorts(proxy) \in SUBSET {"80", "443", "8080"}
BY DEF extractProxyPorts, ProxyConfig

LEMMA StaticType ==
  ASSUME NEW e \in ESC PROVE staticNetworkPolicyAssetConfigs(e) \in Seq(Wish)
<1> DEFINE static(n) == IF Enabled(e, n) THEN <<<<System(n), {"asset"}>>>> ELSE <<>>
<1>1. ASSUME NEW n \in Statics PROVE static(n) \in Seq(Wish)
  <2>0. {"asset"} \in SUBSET Piece
    BY DEF Piece
  <2>1. <<System(n), {"asset"}>> \in Wish
    BY <2>0, NamesType DEF Wish
  <2> QED BY <2>1
<1>2. static("base") \in Seq(Wish) /\ static("cert-controller") \in Seq(Wish)
        /\ static("bitwarden") \in Seq(Wish)
  BY <1>1 DEF Statics
<1>3. staticNetworkPolicyAssetConfigs(e)
        = static("base") \o static("cert-controller") \o static("bitwarden")
  BY DEF staticNetworkPolicyAssetConfigs
<1> HIDE DEF static
<1> QED BY <1>2, <1>3

LEMMA CustomType ==
  ASSUME NEW e \in ESC
  PROVE  /\ CustomPolicies(e) \in Seq(Wish)
         /\ DOMAIN CustomPolicies(e) = DOMAIN e.custom
<1>1. e.custom \in Seq(Entries) /\ e.rule \in [Entries -> Rules]
  BY DEF ESC
<1>2. ASSUME NEW i \in DOMAIN e.custom
      PROVE  <<User(e.custom[i].name), {e.custom[i].component, e.rule[e.custom[i]]}>> \in Wish
  <2>1. e.custom[i] \in Entries
    BY <1>1
  <2>2. User(e.custom[i].name) \in Names
    BY <2>1, NamesType DEF CustomNames
  <2>3. e.custom[i].component \in {"core", "bitwarden"}
    BY <2>1, ConstantsAssumption DEF Entry
  <2>4. e.rule[e.custom[i]] \in Rules
    BY <1>1, <2>1
  <2>5. {e.custom[i].component, e.rule[e.custom[i]]} \in SUBSET Piece
    BY <2>3, <2>4 DEF Piece
  <2> QED BY <2>2, <2>5 DEF Wish
<1>3. DOMAIN e.custom = 1 .. Len(e.custom) /\ Len(e.custom) \in Nat
  BY <1>1
<1> QED BY <1>2, <1>3 DEF CustomPolicies

LEMMA PassFields ==
  TypeOK => /\ pass.esc \in ESC /\ pass.proxy \in ProxyConfig
            /\ pass.todo \in Seq(Wish) /\ pass.doomed \in SUBSET Names
            /\ pass.pc \in {"idle", "static", "custom", "delete"}
BY DEF TypeOK, Pass, Wish

LEMMA StoreType ==
  ASSUME TypeOK, NEW new \in [Names -> Policy], StoreAll(new)
  PROVE  np' \in [Names -> Policy] /\ queued' \in BOOLEAN
<1>1. np' \in [Names -> Policy]
  BY DEF StoreAll
<1>2. queued' \in BOOLEAN
  BY Zenon DEF StoreAll, TypeOK
<1> QED BY <1>1, <1>2

LEMMA StoreOneType ==
  ASSUME TypeOK, NEW n \in Names, NEW policy \in Policy, Store(n, policy)
  PROVE  np' \in [Names -> Policy] /\ queued' \in BOOLEAN
<1>1. [np EXCEPT ![n] = policy] \in [Names -> Policy]
  BY DEF TypeOK
<1> QED BY <1>1, StoreType DEF Store

LEMMA EgressType ==
  ASSUME TypeOK, NEW proxy \in ProxyConfig PROVE EgressPolicy(proxy) \in Policy
<1>1. Made(extractProxyPorts(proxy)) \in Policy
  BY PortsType, MadeType DEF Piece
<1>2. np[Egress] \in Policy
  BY NamesType DEF TypeOK
<1> QED BY <1>1, <1>2, NoPolicyType DEF EgressPolicy, Applied

LEMMA LegacyType == ASSUME NEW e \in ESC PROVE legacyOperatorNetworkPolicyNames(e) \in SUBSET Names
<1>1. \A i \in DOMAIN e.custom : e.custom[i].name \in CustomNames
  <2>1. e.custom \in Seq(Entries)
    BY DEF ESC
  <2> QED BY <2>1 DEF CustomNames
<1> QED BY <1>1, NamesType DEF legacyOperatorNetworkPolicyNames

LEMMA TypeInit == Init => TypeOK
<1> SUFFICES ASSUME Init PROVE TypeOK
  OBVIOUS
<1>1. pass \in Pass /\ outcome \in Outcome /\ queued \in BOOLEAN
        /\ changes \in Nat /\ failures \in Nat
  BY IdleType DEF Init, Outcome
<1>2. esc \in ESC
  <2>1. ASSUME NEW e \in Entries PROVE [Idle.esc EXCEPT !.custom = <<e>>] \in ESC
    <3>1. <<e>> \in Seq(Entries)
      OBVIOUS
    <3> QED BY <3>1, IdleFields DEF ESC
  <2> QED BY <2>1, IdleFields DEF Init
<1>3. esmProxy \in ProxyConfig
  BY NoProxyType DEF Init
<1>4. np \in [Names -> Policy]
  <2>1. Made({"asset"}) \in Policy
    BY MadeType DEF Piece
  <2>2. CASE np = [n \in Names |-> NoPolicy]
    BY <2>2, NoPolicyType
  <2>3. CASE \E e \in Entries :
               np = [n \in Names |-> IF n[1] = "" /\ n[2] \in Statics \cup {e.name}
                                     THEN Made({"asset"}) ELSE NoPolicy]
    BY <2>1, <2>3, NoPolicyType
  <2> QED BY <2>2, <2>3 DEF Init
<1> QED BY <1>1, <1>2, <1>3, <1>4 DEF TypeOK

LEMMA EditType == ASSUME TypeOK, EditESC PROVE esc' \in ESC
<1>1. CASE esc' = [esc EXCEPT !.certManager = TRUE]
  BY <1>1 DEF TypeOK, ESC
<1>2. CASE esc' = [esc EXCEPT !.bitwarden = ~@]
  BY <1>2 DEF TypeOK, ESC
<1>3. CASE \E p \in Proxies : esc' = [esc EXCEPT !.proxy = p]
  BY <1>3, ConstantsAssumption DEF TypeOK, ESC
<1>4. CASE \E e \in Entries : esc' = [esc EXCEPT !.custom = Append(@, e)]
  <2>1. PICK e \in Entries : esc' = [esc EXCEPT !.custom = Append(@, e)]
    BY <1>4
  <2>2. Append(esc.custom, e) \in Seq(Entries)
    BY DEF TypeOK, ESC
  <2> QED BY <2>1, <2>2 DEF TypeOK, ESC
<1>5. CASE \E i \in DOMAIN esc.custom, r \in Rules :
             esc' = [esc EXCEPT !.rule[esc.custom[i]] = r]
  <2>1. PICK i \in DOMAIN esc.custom, r \in Rules : esc' = [esc EXCEPT !.rule[esc.custom[i]] = r]
    BY <1>5
  <2>2. [esc.rule EXCEPT ![esc.custom[i]] = r] \in [Entries -> Rules]
    BY DEF TypeOK, ESC
  <2>3. esc' = [esc EXCEPT !.rule = [esc.rule EXCEPT ![esc.custom[i]] = r]]
    BY <2>1
  <2> QED BY <2>2, <2>3 DEF TypeOK, ESC
<1> QED BY <1>1, <1>2, <1>3, <1>4, <1>5 DEF EditESC

LEMMA DriftType == ASSUME TypeOK, Drift PROVE np' \in [Names -> Policy] /\ queued' \in BOOLEAN
<1>1. PICK n \in Names :
        \/ \E new \in {NoPolicy, [np[n] EXCEPT !.visible = FALSE],
                       [np[n] EXCEPT !.owned = FALSE], [np[n] EXCEPT !.spec = {"drift"}]} :
             Store(n, new)
        \/ Store(n, [Made({"users"}) EXCEPT !.owned = FALSE])
  BY DEF Drift
<1>2. np[n] \in Policy
  BY DEF TypeOK
<1>3. {NoPolicy, [np[n] EXCEPT !.visible = FALSE], [np[n] EXCEPT !.owned = FALSE],
       [np[n] EXCEPT !.spec = {"drift"}]} \subseteq Policy
  BY <1>2, NoPolicyType DEF Policy, Piece
<1>4. [Made({"users"}) EXCEPT !.owned = FALSE] \in Policy
  BY DEF Made, Policy, Piece
<1> QED BY <1>1, <1>3, <1>4, StoreOneType

LEMMA ApplyType ==
  ASSUME TypeOK, pass.todo # <<>>
  PROVE  /\ Head(pass.todo) = <<Head(pass.todo)[1], Head(pass.todo)[2]>>
         /\ Head(pass.todo)[1] \in Names /\ Head(pass.todo)[2] \in SUBSET Piece
         /\ Tail(pass.todo) \in Seq(Wish)
<1>1. Head(pass.todo) \in Wish /\ Tail(pass.todo) \in Seq(Wish)
  BY PassFields
<1> QED BY <1>1 DEF Wish

\* A policy that is lost to somebody else ends the pass.
LEMMA LoseEffect ==
  ASSUME TypeOK, LosePolicy
  PROVE  /\ pass' = Idle /\ outcome' = "retry" /\ queued' = TRUE
         /\ np' \in [Names -> Policy]
         /\ changes' = changes + 1 /\ UNCHANGED <<esc, esmProxy, failures>>
<1>1. /\ pass' = Idle /\ outcome' = "retry" /\ queued' = TRUE
      /\ changes' = changes + 1 /\ UNCHANGED <<esc, esmProxy, failures>>
  BY DEF LosePolicy, EndPass, Change
<1>2. Target[1] \in Names
  <2>1. CASE pass.todo # <<>>
    BY <2>1, ApplyType DEF Target
  <2>2. CASE pass.todo = <<>>
    BY <2>2, NamesType DEF Target
  <2> QED BY <2>1, <2>2
<1>3. /\ np \in [Names -> Policy]
      /\ \/ np' = [np EXCEPT ![Target[1]] = NoPolicy]
         \/ np' = [np EXCEPT ![Target[1]].visible = FALSE]
  BY DEF TypeOK, LosePolicy
<1>4. np' \in [Names -> Policy]
  <2>1. [np[Target[1]] EXCEPT !.visible = FALSE] \in Policy
    BY <1>2, <1>3 DEF Policy
  <2> QED BY <1>2, <1>3, <2>1, NoPolicyType
<1> QED BY <1>1, <1>4

LEMMA TypeStep == TypeOK /\ [Next]_vars => TypeOK'
<1> SUFFICES ASSUME TypeOK, [Next]_vars PROVE TypeOK'
  OBVIOUS
<1>0. pass \in Pass /\ queued \in BOOLEAN /\ outcome \in Outcome /\ esc \in ESC
        /\ np \in [Names -> Policy] /\ changes \in Nat /\ failures \in Nat
        /\ esmProxy \in ProxyConfig
  BY DEF TypeOK
<1>1. CASE EditESC
  BY <1>0, <1>1, EditType DEF EditESC, Change, TypeOK
<1>2. CASE EditESM
  BY <1>0, <1>2, ConstantsAssumption DEF EditESM, Change, TypeOK
<1>3. CASE Drift
  <2>1. UNCHANGED <<esc, esmProxy, pass, outcome, failures>> /\ changes' = changes + 1
    BY <1>3, Zenon DEF Drift, Change
  <2>2. np' \in [Names -> Policy] /\ queued' \in BOOLEAN
    BY <1>3, DriftType
  <2> QED BY <1>0, <2>1, <2>2 DEF TypeOK
<1>4. CASE Reconcile
  <2>1. [pc |-> "static", esc |-> esc, proxy |-> resolveProxyConfiguration,
         todo |-> staticNetworkPolicyAssetConfigs(esc), doomed |-> {}] \in Pass
    BY <1>0, ResolvedType, StaticType, PassType
  <2>2. pass' \in Pass /\ outcome' \in Outcome
    BY <1>0, <1>4, <2>1, IdleType DEF Reconcile, EndPass, Outcome
  <2> QED BY <1>0, <1>4, <2>2 DEF Reconcile, inputs, TypeOK
<1>5. CASE ApplyPolicy
  <2>1. np' \in [Names -> Policy] /\ queued' \in BOOLEAN
    BY <1>5, ApplyType, MadeType, StoreOneType DEF ApplyPolicy, Applied
  <2>2. [pass EXCEPT !.todo = Tail(pass.todo)] \in Pass
    BY <1>0, <1>5, ApplyType DEF ApplyPolicy, Pass, Wish
  <2> QED BY <1>0, <1>5, <2>1, <2>2 DEF ApplyPolicy, inputs, TypeOK
<1>6. CASE reconcileProxyEgressPolicy
  <2>1. np' \in [Names -> Policy] /\ queued' \in BOOLEAN
    BY <1>0, <1>6, PassFields, NamesType, EgressType, StoreOneType
    DEF reconcileProxyEgressPolicy
  <2>2. [pass EXCEPT !.pc = "custom", !.todo = CustomPolicies(pass.esc)] \in Pass
    BY <1>0, PassFields, CustomType DEF Pass, Wish
  <2>3. pass' \in Pass /\ outcome' \in Outcome
    BY <1>0, <1>6, <2>2, IdleType DEF reconcileProxyEgressPolicy, EndPass, Outcome
  <2> QED BY <1>0, <1>6, <2>1, <2>3 DEF reconcileProxyEgressPolicy, inputs, TypeOK
<1>7. CASE ListLegacyPolicies
  <2>1. Listed(pass.esc) \in SUBSET Names
    BY PassFields, LegacyType DEF Listed
  <2>2. [pass EXCEPT !.pc = "delete", !.doomed = Listed(pass.esc)] \in Pass
    BY <1>0, <2>1 DEF Pass
  <2>3. pass' \in Pass /\ outcome' \in Outcome
    BY <1>0, <1>7, <2>2, IdleType DEF ListLegacyPolicies, EndPass, Outcome
  <2> QED BY <1>0, <1>7, <2>3 DEF ListLegacyPolicies, inputs, TypeOK
<1>8. CASE DeleteLegacyPolicy
  <2>1. PICK n \in pass.doomed : Store(n, NoPolicy) /\ pass' = [pass EXCEPT !.doomed = @ \ {n}]
    BY <1>8 DEF DeleteLegacyPolicy
  <2>2. np' \in [Names -> Policy] /\ queued' \in BOOLEAN
    BY <2>1, PassFields, NoPolicyType, StoreOneType
  <2>3. pass' \in Pass
    BY <1>0, <2>1 DEF Pass
  <2> QED BY <1>0, <1>8, <2>2, <2>3 DEF DeleteLegacyPolicy, inputs, TypeOK
<1>9. CASE markCleanupDone
  BY <1>0, <1>9, IdleType DEF markCleanupDone, EndPass, Outcome, inputs, ESC, TypeOK
<1>10. CASE FailStep
  <2>1. pass' = Idle /\ outcome' \in Outcome /\ queued' \in {TRUE, queued}
    BY <1>10 DEF FailStep, EndPass, Outcome
  <2>2. UNCHANGED <<esc, np, esmProxy, changes>> /\ failures' = failures + 1
    BY <1>10 DEF FailStep, inputs
  <2>3. queued' \in BOOLEAN
    BY <1>0, <2>1, Zenon
  <2> QED BY <1>0, <2>1, <2>2, <2>3, IdleType DEF TypeOK
<1>11. CASE Restart
  BY <1>0, <1>11, IdleType DEF Restart, inputs, TypeOK
<1>12. CASE UNCHANGED vars
  BY <1>12 DEF vars, TypeOK
<1>13. CASE LosePolicy
  <2>1. outcome' \in Outcome /\ queued' \in BOOLEAN /\ pass' \in Pass
    BY <1>13, LoseEffect, IdleType DEF Outcome
  <2>2. /\ np' \in [Names -> Policy] /\ changes' \in Nat
        /\ UNCHANGED <<esc, esmProxy, failures>>
    BY <1>0, <1>13, LoseEffect
  <2> QED BY <1>0, <2>1, <2>2 DEF TypeOK
<1> QED
  BY <1>1, <1>2, <1>3, <1>4, <1>5, <1>6, <1>7, <1>8, <1>9, <1>10, <1>11, <1>12, <1>13
  DEF Next, PassStep

\* Policies, proxies and passes have the fields and values that their definitions give them,
\* at every point of the execution of createOrApplyNetworkPolicies.
THEOREM TypeCorrect == Spec => []TypeOK
BY TypeInit, TypeStep, PTL DEF Spec

-----------------------------------------------------------------------------
(* What a pass applies.                                                      *)

Elements(s) == {s[i] : i \in DOMAIN s}

StaticWishes(e) == {<<System(n), {"asset"}>> : n \in {m \in Statics : Enabled(e, m)}}
CustomWishes(e) == Elements(CustomPolicies(e))
Wishes(e) == StaticWishes(e) \cup CustomWishes(e)

LEMMA ConcatElements ==
  ASSUME NEW S, NEW s \in Seq(S), NEW t \in Seq(S)
  PROVE  Elements(s \o t) = Elements(s) \cup Elements(t)
<1>1. /\ DOMAIN s = 1 .. Len(s) /\ DOMAIN t = 1 .. Len(t) /\ Len(s) \in Nat /\ Len(t) \in Nat
      /\ DOMAIN (s \o t) = 1 .. Len(s) + Len(t)
  OBVIOUS
<1>2. ASSUME NEW i \in DOMAIN s PROVE s[i] \in Elements(s \o t)
  <2>1. i \in DOMAIN (s \o t) /\ (s \o t)[i] = s[i]
    BY <1>1
  <2> QED BY <2>1 DEF Elements
<1>3. ASSUME NEW i \in DOMAIN t PROVE t[i] \in Elements(s \o t)
  <2>1. Len(s) + i \in DOMAIN (s \o t) /\ (s \o t)[Len(s) + i] = t[i]
    BY <1>1
  <2> QED BY <2>1 DEF Elements
<1>4. ASSUME NEW i \in DOMAIN (s \o t) PROVE (s \o t)[i] \in Elements(s) \cup Elements(t)
  <2>1. CASE i <= Len(s)
    BY <1>1, <2>1 DEF Elements
  <2>2. CASE i > Len(s)
    <3>1. i - Len(s) \in DOMAIN t /\ (s \o t)[i] = t[i - Len(s)]
      BY <1>1, <2>2
    <3> QED BY <3>1 DEF Elements
  <2> QED BY <1>1, <2>1, <2>2
<1> QED BY <1>2, <1>3, <1>4 DEF Elements

LEMMA StaticElements ==
  ASSUME NEW e \in ESC
  PROVE  Elements(staticNetworkPolicyAssetConfigs(e)) = StaticWishes(e)
<1> DEFINE static(n) == IF Enabled(e, n) THEN <<<<System(n), {"asset"}>>>> ELSE <<>>
<1>1. ASSUME NEW n \in Statics
      PROVE  /\ static(n) \in Seq(Wish)
             /\ Elements(static(n)) = IF Enabled(e, n) THEN {<<System(n), {"asset"}>>} ELSE {}
  <2>1. <<System(n), {"asset"}>> \in Wish
    BY NamesType DEF Wish, Piece
  <2>2. Elements(<<<<System(n), {"asset"}>>>>) = {<<System(n), {"asset"}>>}
    BY DEF Elements
  <2>3. Elements(<<>>) = {}
    BY DEF Elements
  <2>4. <<<<System(n), {"asset"}>>>> \in Seq(Wish) /\ <<>> \in Seq(Wish)
    BY <2>1
  <2>5. CASE Enabled(e, n)
    BY <2>2, <2>4, <2>5
  <2>6. CASE ~Enabled(e, n)
    BY <2>3, <2>4, <2>6
  <2> QED BY <2>5, <2>6
<1>2. staticNetworkPolicyAssetConfigs(e)
        = static("base") \o static("cert-controller") \o static("bitwarden")
  BY DEF staticNetworkPolicyAssetConfigs
<1>3. "base" \in Statics /\ "cert-controller" \in Statics /\ "bitwarden" \in Statics
  BY DEF Statics
<1> HIDE DEF static
<1>4. static("base") \in Seq(Wish) /\ static("cert-controller") \in Seq(Wish)
        /\ static("bitwarden") \in Seq(Wish)
  BY <1>1, <1>3
<1>5. static("base") \o static("cert-controller") \in Seq(Wish)
  BY <1>4
<1>6. Elements(staticNetworkPolicyAssetConfigs(e))
        = Elements(static("base")) \cup Elements(static("cert-controller"))
            \cup Elements(static("bitwarden"))
  <2>1. Elements(static("base") \o static("cert-controller"))
          = Elements(static("base")) \cup Elements(static("cert-controller"))
    BY <1>4, ConcatElements
  <2>2. Elements(static("base") \o static("cert-controller") \o static("bitwarden"))
          = Elements(static("base") \o static("cert-controller"))
              \cup Elements(static("bitwarden"))
    BY <1>4, <1>5, ConcatElements
  <2> QED BY <1>2, <2>1, <2>2
<1> QED BY <1>1, <1>3, <1>6 DEF StaticWishes, Statics

LEMMA HeadAndTail ==
  ASSUME NEW S, NEW s \in Seq(S), s # <<>>
  PROVE  /\ Elements(s) = {Head(s)} \cup Elements(Tail(s))
         /\ Tail(s) \in Seq(S)
<1>1. /\ DOMAIN s = 1 .. Len(s) /\ Len(s) \in Nat /\ Len(s) # 0
      /\ Tail(s) \in Seq(S) /\ DOMAIN Tail(s) = 1 .. Len(s) - 1
      /\ \A i \in 1 .. Len(s) - 1 : Tail(s)[i] = s[i + 1]
      /\ Head(s) = s[1]
  OBVIOUS
<1>2. ASSUME NEW i \in DOMAIN s PROVE s[i] \in {Head(s)} \cup Elements(Tail(s))
  <2>1. CASE i = 1
    BY <1>1, <2>1
  <2>2. CASE i # 1
    <3>1. i - 1 \in DOMAIN Tail(s) /\ Tail(s)[i - 1] = s[i]
      BY <1>1, <2>2
    <3> QED BY <3>1 DEF Elements
  <2> QED BY <2>1, <2>2
<1>3. ASSUME NEW i \in DOMAIN Tail(s) PROVE Tail(s)[i] \in Elements(s)
  <2>1. i + 1 \in DOMAIN s /\ Tail(s)[i] = s[i + 1]
    BY <1>1
  <2> QED BY <2>1 DEF Elements
<1>4. Head(s) \in Elements(s)
  BY <1>1 DEF Elements
<1> QED BY <1>1, <1>2, <1>3, <1>4 DEF Elements

-----------------------------------------------------------------------------
(* The cleanup.                                                              *)

\* What is left of the listed policies is still to be deleted.
CleanupInv == pass.pc = "delete" => Listed(pass.esc) \subseteq pass.doomed

\* What a step that is not the operator's does to a policy.
LEMMA DriftEffect ==
  ASSUME TypeOK, Drift
  PROVE  /\ pass' = pass /\ esc' = esc
         /\ \A n \in Names : np'[n].visible /\ np'[n].owned => np[n].visible /\ np[n].owned
<1>1. PICK n \in Names :
        \/ \E new \in {NoPolicy, [np[n] EXCEPT !.visible = FALSE],
                       [np[n] EXCEPT !.owned = FALSE], [np[n] EXCEPT !.spec = {"drift"}]} :
             np' = [np EXCEPT ![n] = new]
        \/ np' = [np EXCEPT ![n] = [Made({"users"}) EXCEPT !.owned = FALSE]]
  BY DEF Drift, Store, StoreAll
<1>2. np \in [Names -> Policy] /\ np[n] \in Policy
  BY DEF TypeOK
<1>3. \A m \in Names : m # n => np'[m] = np[m]
  BY <1>1, <1>2
<1>4. np'[n] \in {NoPolicy, [np[n] EXCEPT !.visible = FALSE], [np[n] EXCEPT !.owned = FALSE],
                  [np[n] EXCEPT !.spec = {"drift"}], [Made({"users"}) EXCEPT !.owned = FALSE]}
  BY <1>1, <1>2
<1>5. np'[n].visible /\ np'[n].owned => np[n].visible /\ np[n].owned
  BY <1>2, <1>4 DEF NoPolicy, Made, Policy
<1>6. pass' = pass /\ esc' = esc
  BY DEF Drift
<1> QED BY <1>3, <1>5, <1>6

LEMMA StoreEffect ==
  ASSUME TypeOK, NEW n \in Names, NEW policy, Store(n, policy)
  PROVE  np'[n] = policy /\ \A m \in Names : m # n => np'[m] = np[m]
BY DEF TypeOK, Store, StoreAll

LEMMA CleanupStep == TypeOK /\ CleanupInv /\ [Next]_vars => CleanupInv'
<1> SUFFICES ASSUME TypeOK, CleanupInv, [Next]_vars, pass'.pc = "delete"
             PROVE  Listed(pass.esc)' \subseteq pass'.doomed
  BY DEF CleanupInv
<1>0. pass \in Pass /\ pass.doomed \in SUBSET Names
        /\ legacyOperatorNetworkPolicyNames(pass.esc) \in SUBSET Names
  BY PassFields, LegacyType DEF TypeOK
<1>1. CASE UNCHANGED <<np, pass>>
  BY <1>1 DEF CleanupInv, Listed
<1>2. CASE Drift
  BY <1>0, <1>2, DriftEffect DEF CleanupInv, Listed
<1>3. CASE Reconcile
  BY <1>3, IdleFields DEF Reconcile, EndPass
<1>4. CASE ApplyPolicy
  BY <1>0, <1>4 DEF ApplyPolicy, Pass
<1>5. CASE reconcileProxyEgressPolicy
  BY <1>0, <1>5, IdleFields DEF reconcileProxyEgressPolicy, EndPass, Pass
<1>6. CASE ListLegacyPolicies
  <2>1. pass' = [pass EXCEPT !.pc = "delete", !.doomed = Listed(pass.esc)] /\ np' = np
    BY <1>6, IdleFields DEF ListLegacyPolicies, EndPass
  <2>2. pass'.esc = pass.esc /\ pass'.doomed = Listed(pass.esc)
    BY <1>0, <2>1 DEF Pass
  <2> QED BY <2>1, <2>2 DEF Listed
<1>7. CASE DeleteLegacyPolicy
  <2>1. PICK n \in pass.doomed : Store(n, NoPolicy) /\ pass' = [pass EXCEPT !.doomed = @ \ {n}]
    BY <1>7 DEF DeleteLegacyPolicy
  <2>2. pass'.esc = pass.esc /\ pass'.doomed = pass.doomed \ {n} /\ pass.pc = "delete"
    BY <1>0, <1>7, <2>1 DEF DeleteLegacyPolicy, Pass
  <2>3. ~np'[n].visible /\ \A m \in Names : m # n => np'[m] = np[m]
    BY <1>0, <2>1, StoreEffect DEF NoPolicy
  <2> QED BY <1>0, <2>2, <2>3 DEF CleanupInv, Listed
<1>8. CASE markCleanupDone \/ FailStep \/ Restart
  BY <1>8, IdleFields DEF markCleanupDone, FailStep, Restart, EndPass
<1>9. CASE EditESC \/ EditESM \/ UNCHANGED vars
  BY <1>1, <1>9 DEF EditESC, EditESM, vars
<1>10. CASE LosePolicy
  BY <1>10, IdleFields, LoseEffect
<1> QED BY <1>2, <1>3, <1>4, <1>5, <1>6, <1>7, <1>8, <1>9, <1>10 DEF Next, PassStep

LEMMA CleanedByPass ==
  ASSUME TypeOK, [Next]_vars, esc'.cleaned, ~esc.cleaned PROVE markCleanupDone
<1>1. CASE EditESC
  BY <1>1 DEF EditESC, TypeOK, ESC
<1>2. CASE esc' = esc
  BY <1>2
<1> QED
  BY <1>1, <1>2 DEF Next, PassStep, EditESM, Drift, LosePolicy, Reconcile, ApplyPolicy,
     reconcileProxyEgressPolicy, ListLegacyPolicies, DeleteLegacyPolicy, FailStep, Restart, vars

\* The annotation that stops the cleanup is written only when the cache shows no legacy policy
\* any more under the names of the pass's ESC: markCleanupDone comes after all deletions, and
\* a failure or restart between two of them starts with a new list.
THEOREM CleanupComplete == Spec => DoneMeansClean
<1>1. Init => CleanupInv
  BY IdleFields DEF Init, CleanupInv
<1>2. ASSUME TypeOK, CleanupInv, [Next]_vars
      PROVE  [esc'.cleaned /\ ~esc.cleaned => Listed(pass.esc) = {}]_vars
  BY <1>2, CleanedByPass DEF CleanupInv, markCleanupDone
<1> QED BY <1>1, <1>2, CleanupStep, TypeCorrect, PTL DEF Spec, DoneMeansClean

-----------------------------------------------------------------------------
(* What is asked for is in place.                                            *)

Granted(policies, w) == policies[w[1]] = Made(w[2])

\* What the pass has yet to apply.
Outstanding(p) ==
  (IF p.pc \in {"static", "custom"} THEN Elements(p.todo) ELSE {})
    \cup (IF p.pc = "static" THEN CustomWishes(p.esc) ELSE {})

EgressRight(policy, proxy) ==
  IF ShouldExist(proxy)
  THEN policy = Made(extractProxyPorts(proxy)) /\ extractProxyPorts(proxy) # {}
  ELSE ~policy.visible

\* With nothing on the queue, nobody has changed anything visible since the pass began, so
\* what is asked for is either in place or still ahead of it.
InPlaceInv ==
  ~queued =>
    /\ pass.pc # "idle" => pass.proxy = resolveProxyConfiguration
    /\ (pass.pc # "idle" \/ outcome = "ok") =>
          \A w \in Wishes(esc) : Granted(np, w) \/ w \in Outstanding(pass)
    /\ (pass.pc \in {"custom", "delete"} \/ (pass.pc = "idle" /\ outcome = "ok")) =>
          EgressRight(np[Egress], resolveProxyConfiguration)

\* A step that leaves the queue empty leaves alone what is visible.
LEMMA QuietStore ==
  ASSUME TypeOK, NEW n \in Names, NEW policy \in Policy, Store(n, policy), ~queued'
  PROVE  /\ ~queued
         /\ \A m \in Names : np[m].visible \/ np'[m].visible => np'[m] = np[m]
<1> DEFINE new == [np EXCEPT ![n] = policy]
<1>1. np' = new /\ new \in [Names -> Policy]
  BY DEF Store, StoreAll, TypeOK
<1>2. queued' = (queued \/ \E m \in Names : new[m] # np[m] /\ (np[m].visible \/ new[m].visible))
  BY DEF Store, StoreAll
<1> HIDE DEF new
<1> QED BY <1>1, <1>2

LEMMA WishNames == ASSUME NEW e \in ESC, NEW w \in Wishes(e) PROVE w[1] \in Names
<1>1. CASE w \in StaticWishes(e)
  BY <1>1, NamesType DEF StaticWishes
<1>2. CASE w \in CustomWishes(e)
  <2>1. CustomPolicies(e) \in Seq(Wish)
    BY CustomType
  <2>2. w \in Wish
    BY <1>2, <2>1 DEF CustomWishes, Elements
  <2> QED BY <2>2 DEF Wish
<1> QED BY <1>1, <1>2 DEF Wishes

LEMMA GrantedQuiet ==
  ASSUME NEW e \in ESC, NEW w \in Wishes(e), NEW old, NEW new,
         \A m \in Names : old[m].visible \/ new[m].visible => new[m] = old[m],
         Granted(old, w)
  PROVE  Granted(new, w)
<1>1. old[w[1]].visible
  BY DEF Granted, Made
<1> QED BY <1>1, WishNames DEF Granted

LEMMA EgressQuiet ==
  ASSUME NEW old, NEW new, NEW proxy, old.visible \/ new.visible => new = old,
         EgressRight(old, proxy)
  PROVE  EgressRight(new, proxy)
<1>1. Made(extractProxyPorts(proxy)).visible
  BY DEF Made
<1> QED BY <1>1 DEF EgressRight

\* What is asked for does not depend on the cleanup annotation.
LEMMA WishesSame ==
  ASSUME TypeOK, UNCHANGED esmProxy, esc' \in {esc, [esc EXCEPT !.cleaned = TRUE]}
  PROVE  Wishes(esc)' = Wishes(esc) /\ resolveProxyConfiguration' = resolveProxyConfiguration
<1>1. /\ esc'.certManager = esc.certManager /\ esc'.bitwarden = esc.bitwarden
      /\ esc'.custom = esc.custom /\ esc'.rule = esc.rule /\ esc'.proxy = esc.proxy
  BY DEF TypeOK, ESC
<1>2. resolveProxyConfiguration' = resolveProxyConfiguration
  BY <1>1 DEF resolveProxyConfiguration
<1>3. StaticWishes(esc)' = StaticWishes(esc)
  BY <1>1 DEF StaticWishes, Enabled
<1>4. CustomWishes(esc)' = CustomWishes(esc)
  BY <1>1 DEF CustomWishes, CustomPolicies
<1> QED BY <1>2, <1>3, <1>4 DEF Wishes

\* A step within a pass, or outside of it, that leaves alone what is visible: the wishes that
\* were ahead of the pass are granted or still ahead.
LEMMA QuietStep ==
  ASSUME TypeOK, InPlaceInv, ~queued, UNCHANGED esmProxy,
         esc' \in {esc, [esc EXCEPT !.cleaned = TRUE]},
         \A m \in Names : np[m].visible \/ np'[m].visible => np'[m] = np[m],
         pass.pc # "idle" \/ outcome = "ok",
         \A w \in Outstanding(pass) : Granted(np', w) \/ w \in Outstanding(pass')
  PROVE  \A w \in Wishes(esc)' : Granted(np', w) \/ w \in Outstanding(pass')
<1>1. Wishes(esc)' = Wishes(esc) /\ esc \in ESC
  BY WishesSame DEF TypeOK
<1>2. SUFFICES ASSUME NEW w \in Wishes(esc)
               PROVE  Granted(np', w) \/ w \in Outstanding(pass')
  BY <1>1
<1>3. Granted(np, w) => Granted(np', w)
  BY <1>1, GrantedQuiet
<1> QED BY <1>3 DEF InPlaceInv

LEMMA EgressStep ==
  ASSUME TypeOK, InPlaceInv, ~queued, UNCHANGED esmProxy,
         esc' \in {esc, [esc EXCEPT !.cleaned = TRUE]},
         \A m \in Names : np[m].visible \/ np'[m].visible => np'[m] = np[m],
         pass.pc \in {"custom", "delete"} \/ (pass.pc = "idle" /\ outcome = "ok")
  PROVE  EgressRight(np'[Egress], resolveProxyConfiguration')
<1>1. EgressRight(np[Egress], resolveProxyConfiguration)
  BY DEF InPlaceInv
<1>2. EgressRight(np'[Egress], resolveProxyConfiguration)
  BY <1>1, NamesType, EgressQuiet
<1> QED BY <1>2, WishesSame

LEMMA InPlaceOutside ==
  ASSUME TypeOK, InPlaceInv,
         \/ Drift \/ LosePolicy \/ EditESC \/ EditESM \/ FailStep \/ Restart
         \/ UNCHANGED vars
  PROVE  InPlaceInv'
<1> SUFFICES ASSUME ~queued' PROVE InPlaceInv'
  BY DEF InPlaceInv
<1>1. CASE LosePolicy \/ EditESC \/ EditESM \/ Restart
  BY <1>1 DEF LosePolicy, EditESC, EditESM, Restart
<1>2. CASE FailStep
  <2>1. pass'.pc = "idle" /\ outcome' # "ok"
    BY <1>2, IdleFields DEF FailStep, EndPass
  <2> QED BY <2>1 DEF InPlaceInv
<1>3. CASE UNCHANGED vars
  BY <1>3 DEF vars, InPlaceInv, resolveProxyConfiguration
<1>4. CASE Drift
  <2>1. PICK n \in Names :
          \/ \E new \in {NoPolicy, [np[n] EXCEPT !.visible = FALSE],
                         [np[n] EXCEPT !.owned = FALSE], [np[n] EXCEPT !.spec = {"drift"}]} :
               Store(n, new)
          \/ Store(n, [Made({"users"}) EXCEPT !.owned = FALSE])
    BY <1>4 DEF Drift
  <2>2. np[n] \in Policy
    BY DEF TypeOK
  <2>3. {NoPolicy, [np[n] EXCEPT !.visible = FALSE], [np[n] EXCEPT !.owned = FALSE],
         [np[n] EXCEPT !.spec = {"drift"}], [Made({"users"}) EXCEPT !.owned = FALSE]}
           \subseteq Policy
    BY <2>2, NoPolicyType DEF Policy, Piece, Made
  <2>4. ~queued /\ \A m \in Names : np[m].visible \/ np'[m].visible => np'[m] = np[m]
    BY <2>1, <2>3, QuietStore
  <2>5. esc' = esc /\ esmProxy' = esmProxy /\ pass' = pass /\ outcome' = outcome
    BY <1>4, Zenon DEF Drift
  <2>6. resolveProxyConfiguration' = resolveProxyConfiguration
    BY <2>5, WishesSame
  <2>7. (pass.pc # "idle" \/ outcome = "ok") =>
          \A w \in Wishes(esc)' : Granted(np', w) \/ w \in Outstanding(pass')
    BY <2>4, <2>5, QuietStep
  <2>8. (pass.pc \in {"custom", "delete"} \/ (pass.pc = "idle" /\ outcome = "ok")) =>
          EgressRight(np'[Egress], resolveProxyConfiguration')
    BY <2>4, <2>5, EgressStep
  <2> QED BY <2>4, <2>5, <2>6, <2>7, <2>8 DEF InPlaceInv
<1> QED BY <1>1, <1>2, <1>3, <1>4

LEMMA InPlaceApply == ASSUME TypeOK, InPlaceInv, ApplyPolicy PROVE InPlaceInv'
<1> SUFFICES ASSUME ~queued' PROVE InPlaceInv'
  BY DEF InPlaceInv
<1> DEFINE h == Head(pass.todo)
<1>1. /\ pass.pc \in {"static", "custom"} /\ pass.todo # <<>>
      /\ Store(h[1], Made(h[2])) /\ pass' = [pass EXCEPT !.todo = Tail(@)]
      /\ UNCHANGED <<esc, esmProxy, outcome>>
  BY DEF ApplyPolicy, Applied, inputs
<1>2. h[1] \in Names /\ Made(h[2]) \in Policy
  BY <1>1, ApplyType, MadeType
<1>3. Elements(pass.todo) = {h} \cup Elements(Tail(pass.todo))
  BY <1>1, PassFields, HeadAndTail
<1> HIDE DEF h
<1>4. ~queued /\ \A m \in Names : np[m].visible \/ np'[m].visible => np'[m] = np[m]
  BY <1>1, <1>2, QuietStore
<1>5. Granted(np', h)
  BY <1>1, <1>2, StoreEffect DEF Granted
<1>6. /\ pass'.pc = pass.pc /\ pass'.todo = Tail(pass.todo) /\ pass'.esc = pass.esc
      /\ pass'.proxy = pass.proxy
  BY <1>1 DEF TypeOK, Pass
<1>7. \A w \in Outstanding(pass) : Granted(np', w) \/ w \in Outstanding(pass')
  BY <1>3, <1>5, <1>6 DEF Outstanding
<1>8. \A w \in Wishes(esc)' : Granted(np', w) \/ w \in Outstanding(pass')
  BY <1>1, <1>4, <1>7, QuietStep
<1>9. pass.pc = "custom" => EgressRight(np'[Egress], resolveProxyConfiguration')
  BY <1>1, <1>4, EgressStep
<1>10. pass'.proxy = resolveProxyConfiguration'
  BY <1>1, <1>4, <1>6, WishesSame DEF InPlaceInv
<1> QED BY <1>1, <1>6, <1>8, <1>9, <1>10 DEF InPlaceInv

LEMMA InPlaceEgress == ASSUME TypeOK, InPlaceInv, reconcileProxyEgressPolicy PROVE InPlaceInv'
<1> SUFFICES ASSUME ~queued' PROVE InPlaceInv'
  BY DEF InPlaceInv
<1>1. /\ pass.pc = "static" /\ pass.todo = <<>> /\ ~NilPolicy(pass.proxy)
      /\ Store(Egress, EgressPolicy(pass.proxy))
      /\ pass' = [pass EXCEPT !.pc = "custom", !.todo = CustomPolicies(pass.esc)]
      /\ UNCHANGED <<esc, esmProxy, outcome>>
  BY DEF reconcileProxyEgressPolicy, inputs
<1>2. EgressPolicy(pass.proxy) \in Policy /\ Egress \in Names
  BY PassFields, EgressType, NamesType
<1>3. ~queued /\ \A m \in Names : np[m].visible \/ np'[m].visible => np'[m] = np[m]
  BY <1>1, <1>2, QuietStore
<1>4. /\ pass'.pc = "custom" /\ pass'.todo = CustomPolicies(pass.esc) /\ pass'.esc = pass.esc
      /\ pass'.proxy = pass.proxy
  BY <1>1 DEF TypeOK, Pass
<1>5. \A w \in Outstanding(pass) : w \in Outstanding(pass')
  BY <1>1, <1>4 DEF Outstanding, CustomWishes, Elements
<1>6. \A w \in Wishes(esc)' : Granted(np', w) \/ w \in Outstanding(pass')
  BY <1>1, <1>3, <1>5, QuietStep
<1>7. pass.proxy = resolveProxyConfiguration /\ resolveProxyConfiguration' = resolveProxyConfiguration
  BY <1>1, <1>3, WishesSame DEF InPlaceInv
<1>8. EgressRight(np'[Egress], pass.proxy)
  <2>1. np'[Egress] = EgressPolicy(pass.proxy)
    BY <1>1, <1>2, StoreEffect
  <2>2. ~NoPolicy.visible
    BY DEF NoPolicy
  <2> QED BY <1>1, <2>1, <2>2 DEF EgressRight, EgressPolicy, Applied, NilPolicy
<1> QED BY <1>4, <1>6, <1>7, <1>8 DEF InPlaceInv

LEMMA InPlaceReconcile == ASSUME TypeOK, Reconcile PROVE InPlaceInv'
<1>1. esc' = esc /\ esmProxy' = esmProxy
  BY DEF Reconcile, inputs
<1>2. Wishes(esc)' = Wishes(esc) /\ resolveProxyConfiguration' = resolveProxyConfiguration
  BY <1>1, WishesSame
<1>3. CASE pass' = Idle /\ outcome' = "user"
  BY <1>3, IdleFields DEF InPlaceInv
<1>4. CASE pass' = [pc |-> "static", esc |-> esc, proxy |-> resolveProxyConfiguration,
                    doomed |-> {}, todo |-> staticNetworkPolicyAssetConfigs(esc)]
  <2>1. /\ pass'.pc = "static" /\ pass'.esc = esc /\ pass'.proxy = resolveProxyConfiguration
        /\ pass'.todo = staticNetworkPolicyAssetConfigs(esc)
    BY <1>4
  <2>2. Elements(pass'.todo) = StaticWishes(esc)
    BY <2>1, StaticElements DEF TypeOK
  <2>3. \A w \in Wishes(esc) : w \in Outstanding(pass')
    BY <2>1, <2>2 DEF Outstanding, Wishes
  <2> QED BY <1>2, <2>1, <2>3 DEF InPlaceInv
<1> QED BY <1>3, <1>4 DEF Reconcile, EndPass

LEMMA InPlaceCleanup ==
  ASSUME TypeOK, InPlaceInv, ListLegacyPolicies \/ DeleteLegacyPolicy \/ markCleanupDone
  PROVE  InPlaceInv'
<1> SUFFICES ASSUME ~queued' PROVE InPlaceInv'
  BY DEF InPlaceInv
<1>1. pass.pc \in {"custom", "delete"} /\ (pass.pc = "custom" => pass.todo = <<>>)
  BY DEF ListLegacyPolicies, DeleteLegacyPolicy, markCleanupDone
<1>2. Outstanding(pass) = {}
  BY <1>1 DEF Outstanding, Elements
<1>3. /\ UNCHANGED esmProxy /\ esc' \in {esc, [esc EXCEPT !.cleaned = TRUE]}
      /\ \/ pass'.pc = "idle" /\ outcome' = "ok"
         \/ pass'.pc = "delete" /\ pass'.proxy = pass.proxy
  BY IdleFields DEF ListLegacyPolicies, DeleteLegacyPolicy, markCleanupDone, EndPass, inputs,
     TypeOK, Pass
<1>4. ~queued /\ \A m \in Names : np[m].visible \/ np'[m].visible => np'[m] = np[m]
  <2>1. CASE UNCHANGED <<np, queued>>
    BY <2>1
  <2>2. CASE DeleteLegacyPolicy
    BY <2>2, PassFields, NoPolicyType, QuietStore DEF DeleteLegacyPolicy
  <2> QED BY <2>1, <2>2 DEF ListLegacyPolicies, markCleanupDone
<1>5. \A w \in Wishes(esc)' : Granted(np', w) \/ w \in Outstanding(pass')
  BY <1>1, <1>2, <1>3, <1>4, QuietStep
<1>6. EgressRight(np'[Egress], resolveProxyConfiguration')
  BY <1>1, <1>3, <1>4, EgressStep
<1>7. pass.proxy = resolveProxyConfiguration'
  BY <1>1, <1>3, <1>4, WishesSame DEF InPlaceInv
<1> QED BY <1>3, <1>5, <1>6, <1>7 DEF InPlaceInv

LEMMA InPlaceInvariant == Spec => []InPlaceInv
<1>1. Init => InPlaceInv
  BY DEF Init, InPlaceInv
<1>2. TypeOK /\ InPlaceInv /\ [Next]_vars => InPlaceInv'
  BY InPlaceOutside, InPlaceApply, InPlaceEgress, InPlaceReconcile, InPlaceCleanup, Zenon
  DEF Next, PassStep
<1> QED BY <1>1, <1>2, TypeCorrect, PTL DEF Spec

LEMMA SettledState ==
  ASSUME InPlaceInv, SettledWell
  PROVE  /\ \A w \in Wishes(esc) : Granted(np, w)
         /\ EgressRight(np[Egress], resolveProxyConfiguration)
BY DEF InPlaceInv, SettledWell, Settled, Outstanding

\* When the controller has settled, createOrApplyNetworkPolicies has put in place every policy
\* of the enabled components and of the listed entries, for any set of entries and rules.
THEOREM PoliciesApplied == Spec => []PoliciesInPlace
<1>1. ASSUME TypeOK, InPlaceInv PROVE PoliciesInPlace
  <2> SUFFICES ASSUME SettledWell PROVE PoliciesInPlace
    BY DEF PoliciesInPlace
  <2>1. \A w \in Wishes(esc) : Granted(np, w)
    BY <1>1, SettledState
  <2>2. ASSUME NEW n \in Statics, Enabled(esc, n) PROVE np[System(n)] = Made({"asset"})
    <3>1. <<System(n), {"asset"}>> \in Wishes(esc)
      BY <2>2 DEF Wishes, StaticWishes
    <3> QED BY <2>1, <3>1 DEF Granted
  <2>3. ASSUME NEW i \in DOMAIN esc.custom
        PROVE  np[User(esc.custom[i].name)]
                 = Made({esc.custom[i].component, esc.rule[esc.custom[i]]})
    <3>1. CustomPolicies(esc)[i]
            = <<User(esc.custom[i].name), {esc.custom[i].component, esc.rule[esc.custom[i]]}>>
      BY DEF CustomPolicies
    <3>2. CustomPolicies(esc)[i] \in Wishes(esc)
      BY <1>1, CustomType DEF Wishes, CustomWishes, Elements, TypeOK
    <3> QED BY <2>1, <3>1, <3>2 DEF Granted
  <2> QED BY <2>2, <2>3 DEF PoliciesInPlace
<1> QED BY <1>1, InPlaceInvariant, TypeCorrect, PTL

LEMMA FirstOfThree ==
  ASSUME NEW a, NEW b, NEW c, NEW unset
  PROVE  FirstSet(a, b, c, unset)
           = IF a # unset THEN a ELSE IF b # unset THEN b ELSE c
<1> DEFINE values == <<a, b, c>>
           set == {i \in DOMAIN values : values[i] # unset}
<1>1. DOMAIN values = {1, 2, 3} /\ values[1] = a /\ values[2] = b /\ values[3] = c
  OBVIOUS
<1>2. FirstSet(a, b, c, unset)
        = IF set = {} THEN unset ELSE values[CHOOSE i \in set : \A j \in set : i <= j]
  BY DEF FirstSet
<1> HIDE DEF values
<1>3. CASE a # unset
  <2>1. 1 \in set /\ \A i \in set : 1 <= i /\ (i <= 1 => i = 1)
    BY <1>1, <1>3
  <2>2. (CHOOSE i \in set : \A j \in set : i <= j) = 1
    BY <2>1
  <2> QED BY <1>1, <1>2, <1>3, <2>1, <2>2 DEF values
<1>4. CASE a = unset /\ b # unset
  <2>1. 2 \in set /\ \A i \in set : 2 <= i /\ (i <= 2 => i = 2)
    BY <1>1, <1>4
  <2>2. (CHOOSE i \in set : \A j \in set : i <= j) = 2
    BY <2>1
  <2> QED BY <1>1, <1>2, <1>4, <2>1, <2>2 DEF values
<1>5. CASE a = unset /\ b = unset /\ c # unset
  <2>1. 3 \in set /\ \A i \in set : i = 3
    BY <1>1, <1>5
  <2>2. (CHOOSE i \in set : \A j \in set : i <= j) = 3
    BY <2>1
  <2> QED BY <1>1, <1>2, <1>5, <2>1, <2>2 DEF values
<1>6. CASE a = unset /\ b = unset /\ c = unset
  <2>1. set = {}
    BY <1>1, <1>6
  <2> QED BY <1>2, <1>6, <2>1 DEF values
<1> QED BY <1>3, <1>4, <1>5, <1>6

\* When the controller has settled, the egress policy opens the ports of the proxy that ESC,
\* ESM and the environment make up field by field, or is gone, as far as the cache can show
\* it: resolveProxyConfiguration merges as the reference says, and the policy follows it.
THEOREM EgressFollowsProxy == Spec => []EgressInPlace
<1> DEFINE first(a, b) == IF a = "" THEN b ELSE a
<1>a. ASSUME NEW a, NEW b, NEW c PROVE FirstSet(a, b, c, "") = first(first(a, b), c)
  <2>1. CASE a # ""
    BY <2>1, FirstOfThree
  <2>2. CASE a = "" /\ b # ""
    BY <2>2, FirstOfThree
  <2>3. CASE a = "" /\ b = ""
    BY <2>3, FirstOfThree
  <2> QED BY <2>1, <2>2, <2>3
<1>b. \A into, from :
        /\ mergeProxyConfigFields(into, from).http = first(into.http, from.http)
        /\ mergeProxyConfigFields(into, from).https = first(into.https, from.https)
        /\ mergeProxyConfigFields(into, from).provisioning
             = first(into.provisioning, from.provisioning)
  BY DEF mergeProxyConfigFields
<1>1. /\ Effective.http = resolveProxyConfiguration.http
      /\ Effective.https = resolveProxyConfiguration.https
      /\ Effective.provisioning = resolveProxyConfiguration.provisioning
  <2>1. /\ Effective.http = FirstSet(esc.proxy.http, esmProxy.http, OLM.http, "")
        /\ Effective.https = FirstSet(esc.proxy.https, esmProxy.https, OLM.https, "")
        /\ Effective.provisioning
             = FirstSet(esc.proxy.provisioning, esmProxy.provisioning, OLM.provisioning, "")
    BY DEF Effective
  <2>2. /\ resolveProxyConfiguration.http
             = first(first(esc.proxy.http, esmProxy.http), OLM.http)
        /\ resolveProxyConfiguration.https
             = first(first(esc.proxy.https, esmProxy.https), OLM.https)
        /\ resolveProxyConfiguration.provisioning
             = first(first(esc.proxy.provisioning, esmProxy.provisioning), OLM.provisioning)
    <3> HIDE DEF first
    <3> QED BY <1>b DEF resolveProxyConfiguration
  <2>3. /\ Effective.http = first(first(esc.proxy.http, esmProxy.http), OLM.http)
        /\ Effective.https = first(first(esc.proxy.https, esmProxy.https), OLM.https)
        /\ Effective.provisioning
             = first(first(esc.proxy.provisioning, esmProxy.provisioning), OLM.provisioning)
    <3>1. FirstSet(esc.proxy.http, esmProxy.http, OLM.http, "")
            = first(first(esc.proxy.http, esmProxy.http), OLM.http)
      BY <1>a
    <3>2. FirstSet(esc.proxy.https, esmProxy.https, OLM.https, "")
            = first(first(esc.proxy.https, esmProxy.https), OLM.https)
      BY <1>a
    <3>3. FirstSet(esc.proxy.provisioning, esmProxy.provisioning, OLM.provisioning, "")
            = first(first(esc.proxy.provisioning, esmProxy.provisioning), OLM.provisioning)
      BY <1>a
    <3> QED BY <2>1, <3>1, <3>2, <3>3, Zenon
  <2> QED BY <2>2, <2>3, Zenon
<1>2. /\ ShouldExist(Effective) = ShouldExist(resolveProxyConfiguration)
      /\ extractProxyPorts(Effective) = extractProxyPorts(resolveProxyConfiguration)
  BY <1>1 DEF ShouldExist, hasProxyEndpointURLs, extractProxyPorts
<1>3. ASSUME InPlaceInv PROVE EgressInPlace
  <2> SUFFICES ASSUME SettledWell PROVE EgressInPlace
    BY DEF EgressInPlace
  <2>1. EgressRight(np[Egress], resolveProxyConfiguration)
    BY <1>3, SettledState
  <2>2. \A ports : Made(ports).spec = ports
    BY DEF Made
  <2> QED BY <1>2, <2>1, <2>2 DEF EgressInPlace, EgressRight
<1> QED BY <1>3, InPlaceInvariant, PTL
=============================================================================
