------------------------ MODULE ESCReconciler_proofs -------------------------
(***************************************************************************)
(* Proofs about ESCReconciler, for every set of configurations and every   *)
(* bound, with caches that lag behind the server: types, the finalizer     *)
(* protocol and the truth of the status.                                   *)
(***************************************************************************)
EXTENDS ESCReconciler, TLAPS

-----------------------------------------------------------------------------
(* Type correctness.                                                         *)

LEMMA NewESCType ==
  ASSUME NEW u \in Nat, NEW c \in Config, NEW f \in BOOLEAN
  PROVE  NewESC(u, c, f) \in ESC
BY DEF NewESC, ESC, Unset, Status

LEMMA NoConfigMapType == NoConfigMap \in ConfigMap
BY DEF NoConfigMap, ConfigMap, Data

LEMMA IdleType == Idle \in Pass
<1>1. NewESC(0, "plain", FALSE) \in ESC
  BY NewESCType DEF Config
<1> QED
  BY <1>1, NoConfigMapType DEF Idle, Pass, Outcome

LEMMA FailPassType ==
  ASSUME TypeOK, NEW o \in Outcome PROVE FailPass(o) \in Pass
BY NoConfigMapType DEF TypeOK, FailPass, Pass

LEMMA StoreESCType ==
  ASSUME TypeOK, NEW new \in ESC, StoreESC(new)
  PROVE  esc' \in ESC /\ events' \subseteq {"esc", "esm", "cm"}
BY DEF StoreESC, TypeOK

LEMMA StoreConfigMapType ==
  ASSUME TypeOK, NEW new \in ConfigMap, StoreConfigMap(new)
  PROVE  cm' \in ConfigMap /\ events' \subseteq {"esc", "esm", "cm"}
BY DEF StoreConfigMap, TypeOK

LEMMA ReleasedType ==
  ASSUME NEW e \in ESC PROVE Released(e) \in ESC
BY DEF Released, ESC

LEMMA ESCFields ==
  ASSUME NEW e \in ESC
  PROVE  /\ \A x \in Config : [e EXCEPT !.config = x] \in ESC
         /\ \A x \in Nat : [e EXCEPT !.gen = x] \in ESC
         /\ \A x \in BOOLEAN : [e EXCEPT !.finalizer = x] \in ESC
         /\ \A x \in BOOLEAN : [e EXCEPT !.cleaned = x] \in ESC
         /\ \A x \in BOOLEAN : [e EXCEPT !.processed = x] \in ESC
         /\ \A x \in Status : [e EXCEPT !.status = x] \in ESC
         /\ \A x \in BOOLEAN : [e EXCEPT !.foreign = x] \in ESC
         /\ \A x \in {"live", "deleting", "gone"} : [e EXCEPT !.phase = x] \in ESC
BY Zenon DEF ESC

LEMMA UpdatedType ==
  ASSUME TypeOK, NEW copy \in ESC PROVE Updated(copy) \in ESC
<1> DEFINE g == IF copy.config # esc.config THEN esc.gen + 1 ELSE esc.gen
           e1 == [esc EXCEPT !.config = copy.config]
           e2 == [e1 EXCEPT !.finalizer = copy.finalizer]
           e3 == [e2 EXCEPT !.cleaned = copy.cleaned]
           e4 == [e3 EXCEPT !.processed = copy.processed]
           e5 == [e4 EXCEPT !.gen = g]
<1>1. g \in Nat
  BY DEF TypeOK, ESC
<1>2. /\ copy.config \in Config /\ copy.finalizer \in BOOLEAN
      /\ copy.cleaned \in BOOLEAN /\ copy.processed \in BOOLEAN
  BY Zenon DEF ESC
<1>3. Updated(copy) =
        [esc EXCEPT !.config = copy.config, !.finalizer = copy.finalizer,
                    !.cleaned = copy.cleaned, !.processed = copy.processed, !.gen = g]
  BY DEF Updated
<1> HIDE DEF g
<1>4. e1 \in ESC
  BY <1>2, ESCFields DEF TypeOK
<1>5. e2 \in ESC
  BY <1>2, <1>4, ESCFields
<1>6. e3 \in ESC
  BY <1>2, <1>5, ESCFields
<1>7. e4 \in ESC
  BY <1>2, <1>6, ESCFields
<1>8. e5 \in ESC
  BY <1>1, <1>7, ESCFields
<1> QED
  BY <1>3, <1>8

LEMMA ChangeType ==
  ASSUME TypeOK, Change PROVE changes' \in Nat
BY DEF TypeOK, Change

LEMMA FaultType ==
  ASSUME TypeOK, Fault PROVE faults' \in Nat
BY DEF TypeOK, Fault

LEMMA ReadType ==
  ASSUME TypeOK, NEW copy, NEW object, Read(copy, object) \/ UNCHANGED faults
  PROVE  faults' \in Nat
BY FaultType DEF TypeOK, Read

LEMMA FetchedType ==
  ASSUME TypeOK PROVE getWithCacheFallback \in ConfigMap
BY DEF getWithCacheFallback, TypeOK

LEMMA TypeInit == Init => TypeOK
<1> SUFFICES ASSUME Init PROVE TypeOK
  OBVIOUS
<1>1. PICK c \in Configs, f \in {FALSE, Foreign} : esc = NewESC(1, c, f)
  BY Zenon DEF Init
<1>2. c \in Config /\ f \in BOOLEAN
  BY ConstantsAssumption
<1>3. esc \in ESC
  BY <1>1, <1>2, NewESCType
<1>4. [NoConfigMap EXCEPT !.exists = TRUE, !.data = "invalid"] \in ConfigMap
  BY DEF NoConfigMap, ConfigMap, Data
<1>5. cm \in ConfigMap
  BY <1>4, NoConfigMapType, Zenon DEF Init
<1>6. deployed \in Deployment
  BY Zenon DEF Init, Deployment
<1>7. events \subseteq {"esc", "esm", "cm"} /\ changes \in Nat /\ faults \in Nat
  BY DEF Init
<1> QED
  BY <1>3, <1>5, <1>6, <1>7, IdleType, Zenon DEF Init, TypeOK

\* What users and other controllers do.
LEMMA TypeOutside ==
  ASSUME TypeOK,
         \/ EditESC \/ DeleteESC \/ CreateESC \/ ReleaseForeign
         \/ ChangeReferences \/ EditConfigMap
  PROVE  TypeOK'
<1>0. esc \in ESC /\ esc.gen + 1 \in Nat /\ esc.uid + 1 \in Nat
  BY DEF TypeOK, ESC
<1>1. CASE EditESC
  <2>1. ASSUME NEW c \in Configs
        PROVE  [esc EXCEPT !.config = c, !.gen = @ + 1] \in ESC
    <3> DEFINE e1 == [esc EXCEPT !.config = c]
    <3>1. e1 \in ESC /\ e1.gen = esc.gen
      BY <1>0, ESCFields, ConstantsAssumption DEF ESC
    <3>2. [e1 EXCEPT !.gen = esc.gen + 1] \in ESC
      BY <1>0, <3>1, ESCFields
    <3> QED
      BY <3>1, <3>2
  <2>2. esc' \in ESC /\ events' \subseteq {"esc", "esm", "cm"}
    BY <1>1, <2>1, StoreESCType DEF EditESC
  <2>3. changes' \in Nat
    BY <1>1, Zenon, ChangeType DEF EditESC
  <2> QED
    BY <1>1, <2>2, <2>3, Zenon DEF EditESC, TypeOK
<1>2. CASE DeleteESC
  <2>1. [esc EXCEPT !.gen = @ + 1,
           !.phase = IF esc.finalizer \/ esc.foreign THEN "deleting" ELSE "gone"] \in ESC
    <3> DEFINE e1 == [esc EXCEPT !.gen = esc.gen + 1]
    <3>1. e1 \in ESC
      BY <1>0, ESCFields
    <3> QED
      BY <3>1, ESCFields
  <2>2. esc' \in ESC /\ events' \subseteq {"esc", "esm", "cm"}
    BY <1>2, <2>1, StoreESCType DEF DeleteESC
  <2>3. changes' \in Nat
    BY <1>2, Zenon, ChangeType DEF DeleteESC
  <2> QED
    BY <1>2, <2>2, <2>3, Zenon DEF DeleteESC, TypeOK
<1>3. CASE CreateESC
  <2>1. \A c \in Configs : NewESC(esc.uid + 1, c, FALSE) \in ESC
    BY <1>0, NewESCType, ConstantsAssumption
  <2>2. esc' \in ESC /\ events' \subseteq {"esc", "esm", "cm"}
    BY <1>3, <2>1, StoreESCType DEF CreateESC
  <2>3. changes' \in Nat
    BY <1>3, Zenon, ChangeType DEF CreateESC
  <2> QED
    BY <1>3, <2>2, <2>3, Zenon DEF CreateESC, TypeOK
<1>4. CASE ReleaseForeign
  <2>1. Released([esc EXCEPT !.foreign = FALSE]) \in ESC
    BY <1>0, ReleasedType, ESCFields
  <2>2. esc' \in ESC /\ events' \subseteq {"esc", "esm", "cm"}
    BY <1>4, <2>1, StoreESCType DEF ReleaseForeign
  <2> QED
    BY <1>4, <2>2, Zenon DEF ReleaseForeign, world, TypeOK
<1>5. CASE ChangeReferences
  <2>1. changes' \in Nat
    BY <1>5, Zenon, ChangeType DEF ChangeReferences
  <2>2. /\ refExists' \in BOOLEAN /\ esmBad' \in BOOLEAN
        /\ events' \subseteq {"esc", "esm", "cm"}
    BY <1>5 DEF ChangeReferences, TypeOK
  <2> QED
    BY <1>5, <2>1, <2>2, Zenon DEF ChangeReferences, TypeOK
<1>6. CASE EditConfigMap
  <2>1. /\ \A d \in Data :
              [cm EXCEPT !.exists = TRUE, !.data = d] \in ConfigMap
        /\ [cm EXCEPT !.labelled = FALSE] \in ConfigMap
    BY DEF TypeOK, ConfigMap, Data
  <2>2. \E new \in ConfigMap : StoreConfigMap(new)
    BY <1>6, <2>1, NoConfigMapType DEF EditConfigMap
  <2>3. cm' \in ConfigMap /\ events' \subseteq {"esc", "esm", "cm"}
    BY <2>2, StoreConfigMapType
  <2>4. changes' \in Nat
    BY <1>6, Zenon, ChangeType DEF EditConfigMap
  <2> QED
    BY <1>6, <2>3, <2>4, Zenon DEF EditConfigMap, TypeOK
<1> QED
  BY <1>1, <1>2, <1>3, <1>4, <1>5, <1>6

LEMMA TypeSync ==
  ASSUME TypeOK, SyncESC \/ SyncConfigMap \/ SyncESM
  PROVE  TypeOK'
<1>1. /\ events' \subseteq {"esc", "esm", "cm"} /\ queued' \in BOOLEAN
      /\ escView' \in ESC /\ cmView' \in ConfigMap
  BY DEF TypeOK, SyncESC, SyncConfigMap, SyncESM
<1> QED
  BY <1>1, Zenon DEF TypeOK, SyncESC, SyncConfigMap, SyncESM, world

LEMMA PassFields ==
  ASSUME NEW p \in Pass
  PROVE  /\ \A x \in Installing \cup {"idle", "cleanup", "finalizer", "refetch", "status"} :
              [p EXCEPT !.pc = x] \in Pass
         /\ \A x \in ESC : [p EXCEPT !.esc = x] \in Pass
         /\ \A x \in ConfigMap : [p EXCEPT !.cm = x] \in Pass
         /\ \A x \in Nat : [p EXCEPT !.gen = x] \in Pass
         /\ \A x \in Outcome : [p EXCEPT !.outcome = x] \in Pass
         /\ p.esc \in ESC /\ p.cm \in ConfigMap /\ p.gen \in Nat /\ p.outcome \in Outcome
BY Zenon DEF Pass

\* The steps of a call, up to the end of the finalizer protocol.
LEMMA TypeProtocol ==
  ASSUME TypeOK, Reconcile \/ RemoveFinalizer \/ AddFinalizer \/ RefetchESC
  PROVE  TypeOK'
<1>0. /\ esc \in ESC /\ escView \in ESC /\ pass \in Pass /\ pass.esc \in ESC
      /\ escView.gen \in Nat
  BY PassFields DEF TypeOK, ESC
<1>1. CASE Reconcile
  <2> DEFINE p1 == [Idle EXCEPT !.pc = FirstStep(escView)]
             p2 == [p1 EXCEPT !.esc = escView]
             p3 == [p2 EXCEPT !.gen = escView.gen]
  <2>1. FirstStep(escView) \in {"cleanup", "finalizer"}
    BY DEF FirstStep
  <2>2. p1 \in Pass
    BY <2>1, IdleType, PassFields
  <2>3. p2 \in Pass
    BY <1>0, <2>2, PassFields
  <2>4. p3 \in Pass
    BY <1>0, <2>3, PassFields
  <2>5. pass' \in Pass
    BY <1>1, <2>4, IdleType, Zenon DEF Reconcile
  <2>6. faults' \in Nat
    BY <1>1, ReadType, Zenon DEF Reconcile
  <2> QED
    BY <1>1, <2>5, <2>6, Zenon DEF Reconcile, TypeOK, world
<1>2. CASE RemoveFinalizer
  <2> DEFINE copy == [pass.esc EXCEPT !.finalizer = FALSE]
             p1 == [pass EXCEPT !.pc = "finalizer"]
  <2>1. copy \in ESC /\ p1 \in Pass
    BY <1>0, ESCFields, PassFields
  <2>2. p1.esc = pass.esc
    BY <1>0 DEF Pass
  <2>3. [p1 EXCEPT !.esc = copy] \in Pass
    BY <2>1, PassFields
  <2>4. [pass EXCEPT !.pc = "finalizer", !.esc.finalizer = FALSE] \in Pass
    BY <2>2, <2>3
  <2>5. Released(Updated(copy)) \in ESC
    BY <2>1, ReleasedType, UpdatedType
  <2>6. StoreESC(Released(Updated(copy))) =>
          esc' \in ESC /\ events' \subseteq {"esc", "esm", "cm"}
    BY <2>5, StoreESCType
  <2>7. pass' \in Pass /\ queued' \in BOOLEAN
    BY <1>2, <2>1, <2>4, IdleType, Zenon DEF RemoveFinalizer, ReturnError, TypeOK
  <2>8. esc' \in ESC /\ events' \subseteq {"esc", "esm", "cm"}
    BY <1>2, <2>6, Zenon DEF RemoveFinalizer, TypeOK
  <2>9. faults' \in Nat
    BY <1>2, ReadType, Zenon DEF RemoveFinalizer
  <2> QED
    BY <1>2, <2>7, <2>8, <2>9, Zenon DEF RemoveFinalizer, TypeOK, world
<1>3. CASE AddFinalizer
  <2> DEFINE copy == [pass.esc EXCEPT !.finalizer = TRUE]
  <2>1. copy \in ESC
    BY <1>0, ESCFields
  <2>2. [pass EXCEPT !.pc = "validate"] \in Pass /\ [pass EXCEPT !.pc = "refetch"] \in Pass
    BY <1>0, PassFields DEF Installing
  <2>3. StoreESC(Updated(copy)) => esc' \in ESC /\ events' \subseteq {"esc", "esm", "cm"}
    BY <2>1, UpdatedType, StoreESCType
  <2>4. pass' \in Pass /\ queued' \in BOOLEAN
    BY <1>3, <2>2, IdleType, Zenon DEF AddFinalizer, ReturnError, TypeOK
  <2>5. esc' \in ESC /\ events' \subseteq {"esc", "esm", "cm"}
    BY <1>3, <2>3, Zenon DEF AddFinalizer, TypeOK
  <2>6. faults' \in Nat
    BY <1>3, ReadType, Zenon DEF AddFinalizer
  <2> QED
    BY <1>3, <2>4, <2>5, <2>6, Zenon DEF AddFinalizer, TypeOK, world
<1>4. CASE RefetchESC
  <2> DEFINE p1 == [pass EXCEPT !.pc = "validate"]
             p2 == [p1 EXCEPT !.esc = escView]
  <2>1. p1 \in Pass
    BY <1>0, PassFields DEF Installing
  <2>2. p2 \in Pass
    BY <1>0, <2>1, PassFields
  <2>3. [p2 EXCEPT !.gen = escView.gen] \in Pass
    BY <1>0, <2>2, PassFields
  <2>4. pass' \in Pass /\ queued' \in BOOLEAN
    BY <1>4, <2>3, IdleType, Zenon DEF RefetchESC, ReturnError, TypeOK
  <2>5. faults' \in Nat
    BY <1>4, ReadType, Zenon DEF RefetchESC
  <2> QED
    BY <1>4, <2>4, <2>5, Zenon DEF RefetchESC, TypeOK, world
<1> QED
  BY <1>1, <1>2, <1>3, <1>4

\* The install steps and the end of a call.
LEMMA TypeInstall ==
  ASSUME TypeOK,
         \/ validateExternalSecretsConfig \/ InstallResources
         \/ FetchBundle \/ updateWatchLabel \/ DeployController \/ FinishInstall
         \/ UpdateStatus \/ FailStep \/ Restart
  PROVE  TypeOK'
<1>0. esc \in ESC /\ pass \in Pass /\ pass.esc \in ESC /\ cm \in ConfigMap
  BY PassFields DEF TypeOK
<1>a. \A o \in Outcome : FailPass(o) \in Pass
  BY FailPassType
<1>b. \A x \in Installing : [pass EXCEPT !.pc = x] \in Pass
  BY <1>0, PassFields
<1>1. CASE validateExternalSecretsConfig
  <2>1. pass' \in Pass
    BY <1>1, <1>a, <1>b DEF validateExternalSecretsConfig, Outcome, Installing
  <2> QED
    BY <1>1, <2>1, Zenon DEF validateExternalSecretsConfig, TypeOK, world
<1>2. CASE InstallResources
  <2> DEFINE copy == IF pass.esc.cleaned THEN pass.esc ELSE [esc EXCEPT !.cleaned = TRUE]
             p1 == [pass EXCEPT !.pc = "bundle"]
  <2>1. copy \in ESC
    BY <1>0, ESCFields
  <2> HIDE DEF copy
  <2>2. /\ [FailPass("retry") EXCEPT !.esc = copy] \in Pass
        /\ [FailPass("notFound") EXCEPT !.esc = copy] \in Pass
        /\ [FailPass("user") EXCEPT !.esc = copy] \in Pass
    BY <1>a, <2>1, PassFields DEF Outcome
  <2>3. p1 \in Pass
    BY <1>b DEF Installing
  <2>4. [p1 EXCEPT !.esc = copy] \in Pass
    BY <2>1, <2>3, PassFields
  <2>5. \/ pass' = [FailPass("retry") EXCEPT !.esc = copy]
        \/ pass' = [FailPass("notFound") EXCEPT !.esc = copy]
        \/ pass' = [FailPass("user") EXCEPT !.esc = copy]
        \/ pass' = [p1 EXCEPT !.esc = copy]
    BY <1>2 DEF InstallResources, CertificatesOutcome, markCleanupDone, copy
  <2>6. pass' \in Pass
    BY <2>2, <2>4, <2>5
  <2>7. esc' \in ESC
    BY <1>0, <1>2, <2>1 DEF InstallResources, markCleanupDone, copy
  <2> QED
    BY <1>2, <2>6, <2>7, Zenon DEF InstallResources, TypeOK, world
<1>3. CASE FetchBundle
  <2> DEFINE p1 == [pass EXCEPT !.cm = getWithCacheFallback]
  <2>1. p1 \in Pass
    BY <1>0, FetchedType, PassFields
  <2>2. \A x \in Installing : [p1 EXCEPT !.pc = x] \in Pass
    BY <2>1, PassFields
  <2>3. pass' \in Pass
    BY <1>3, <1>b, <2>2, Zenon DEF FetchBundle, Installing
  <2>4. now' \in BOOLEAN
    BY <1>3, Zenon DEF FetchBundle, TypeOK
  <2>5. faults' \in Nat
    BY <1>3, ReadType, Zenon DEF FetchBundle
  <2> QED
    BY <1>3, <2>3, <2>4, <2>5, Zenon DEF FetchBundle, TypeOK, world
<1>4. CASE updateWatchLabel
  <2>1. pass' \in Pass
    BY <1>4, <1>a, <1>b, Zenon DEF updateWatchLabel, Installing, Outcome
  <2>2. [cm EXCEPT !.labelled = TRUE] \in ConfigMap
    BY <1>0 DEF ConfigMap
  <2>3. StoreConfigMap([cm EXCEPT !.labelled = TRUE]) =>
          cm' \in ConfigMap /\ events' \subseteq {"esc", "esm", "cm"}
    BY <2>2, StoreConfigMapType
  <2>4. cm' \in ConfigMap /\ events' \subseteq {"esc", "esm", "cm"}
    BY <1>4, <2>3, Zenon DEF updateWatchLabel, TypeOK
  <2>5. faults' \in Nat
    BY <1>4, ReadType, Zenon DEF updateWatchLabel
  <2> QED
    BY <1>4, <2>1, <2>4, <2>5, Zenon DEF updateWatchLabel, TypeOK, world
<1>5. CASE DeployController
  <2> DEFINE p1 == [pass EXCEPT !.pc = "finish"]
  <2>1. [p1 EXCEPT !.cm = NoConfigMap] \in Pass
    BY <1>b, NoConfigMapType, PassFields DEF Installing
  <2>2. pass' \in Pass
    BY <1>5, <1>a, <2>1 DEF DeployController, Outcome
  <2>3. deployed' \in Deployment
    BY <1>5 DEF DeployController, Deployment, TypeOK
  <2>4. now' \in BOOLEAN /\ announced' \in BOOLEAN
    BY <1>5 DEF DeployController, TypeOK
  <2> QED
    BY <1>5, <2>2, <2>3, <2>4, Zenon DEF DeployController, TypeOK, world
<1>6. CASE FinishInstall
  <2> DEFINE copy == IF pass.esc.processed THEN pass.esc ELSE esc'
             p1 == [pass EXCEPT !.pc = "status"]
             p2 == [p1 EXCEPT !.outcome = "ok"]
             p3 == [p2 EXCEPT !.esc = copy]
  <2>1. esc' \in ESC
    BY <1>0, <1>6, ESCFields DEF FinishInstall
  <2>2. copy \in ESC
    BY <1>0, <2>1
  <2> HIDE DEF copy
  <2>3. p2 \in Pass
    BY <1>0, PassFields DEF Outcome
  <2>4. p3 \in Pass
    BY <2>2, <2>3, PassFields
  <2>5. pass' = p3
    BY <1>6, Zenon DEF FinishInstall, copy
  <2> QED
    BY <1>6, <2>1, <2>4, <2>5, Zenon DEF FinishInstall, TypeOK, world
<1>7. CASE UpdateStatus
  <2>1. [outcome |-> pass.outcome, gen |-> pass.gen] \in Status
    BY <1>0, PassFields DEF Status
  <2>2. [esc EXCEPT !.status = [outcome |-> pass.outcome, gen |-> pass.gen]] \in ESC
    BY <1>0, <2>1, ESCFields
  <2>3. esc' \in ESC /\ pass' \in Pass
    BY <1>0, <1>7, <2>2, IdleType, Zenon DEF UpdateStatus, ReturnError
  <2>4. queued' \in BOOLEAN /\ announced' \in BOOLEAN /\ skipped' \in BOOLEAN
    BY <1>7 DEF UpdateStatus, ReturnError, TypeOK, RequeuesAfter
  <2>5. faults' \in Nat
    BY <1>7, ReadType, Zenon DEF UpdateStatus
  <2> QED
    BY <1>7, <2>3, <2>4, <2>5, Zenon DEF UpdateStatus, TypeOK, world
<1>8. CASE FailStep
  <2>1. pass' \in Pass /\ queued' \in BOOLEAN
    BY <1>8, <1>a, IdleType, Zenon DEF FailStep, ReturnError, TypeOK, Outcome
  <2>2. faults' \in Nat
    BY <1>8, FaultType, Zenon DEF FailStep
  <2> QED
    BY <1>8, <2>1, <2>2, Zenon DEF FailStep, TypeOK, world
<1>9. CASE Restart
  <2>1. faults' \in Nat /\ events' \subseteq {"esc", "esm", "cm"}
    BY <1>9, FaultType DEF Restart, TypeOK
  <2> QED
    BY <1>9, <2>1, IdleType, Zenon DEF Restart, TypeOK, world
<1> QED
  BY <1>1, <1>2, <1>3, <1>4, <1>5, <1>6, <1>7, <1>8, <1>9

LEMMA TypeStep == TypeOK /\ [Next]_vars => TypeOK'
<1> SUFFICES ASSUME TypeOK, [Next]_vars PROVE TypeOK'
  OBVIOUS
<1>1. CASE Next
  BY <1>1, TypeOutside, TypeSync, TypeProtocol, TypeInstall, Zenon DEF Next, PassStep
<1>2. CASE UNCHANGED vars
  BY <1>2, Zenon DEF TypeOK, vars
<1> QED
  BY <1>1, <1>2

\* Every reachable state is well typed: a call never leaves its program, works on an ESC
\* and a ConfigMap, and ends with one of the classified outcomes.
THEOREM TypeCorrect == Spec => []TypeOK
BY TypeInit, TypeStep, PTL DEF Spec

-----------------------------------------------------------------------------
(* The finalizer protocol.                                                   *)

\* The steps that change neither the ESC, its cached copy nor the call under way.
LEMMA QuietSteps ==
  ASSUME ChangeReferences \/ EditConfigMap \/ SyncConfigMap \/ SyncESM
  PROVE  UNCHANGED <<esc, escView, pass>>
BY DEF ChangeReferences, EditConfigMap, SyncConfigMap, SyncESM

\* What users and other controllers do to the ESC loses no finalizer of the operator's.
LEMMA OutsideSteps ==
  ASSUME TypeOK, FinalizerInv, EditESC \/ DeleteESC \/ CreateESC \/ ReleaseForeign
  PROVE  FinalizerInv'
<1> USE DEF FinalizerInv, NotAhead, Held, Installing
<1>0. esc \in ESC /\ escView \in ESC /\ pass.esc \in ESC
  BY DEF TypeOK, Pass
<1>1. /\ esc \in ESC /\ escView \in ESC /\ pass.esc \in ESC
      /\ escView' = escView /\ pass' = pass
  BY <1>0 DEF EditESC, DeleteESC, CreateESC, ReleaseForeign
<1>2. CASE EditESC
  <2>1. PICK c \in Configs : esc' = [esc EXCEPT !.config = c, !.gen = @ + 1]
    BY <1>2 DEF EditESC, StoreESC
  <2> QED BY <1>1, <1>2, <2>1 DEF EditESC, ESC
<1>3. CASE DeleteESC
  BY <1>1, <1>3 DEF DeleteESC, StoreESC, ESC
<1>4. CASE CreateESC
  <2>1. PICK c \in Configs : esc' = NewESC(esc.uid + 1, c, FALSE)
    BY <1>4 DEF CreateESC, StoreESC
  <2>2. esc.phase = "gone"
    BY <1>4 DEF CreateESC
  <2>3. esc'.uid = esc.uid + 1 /\ esc'.phase = "live"
    BY <2>1 DEF NewESC
  <2> QED BY <1>1, <2>2, <2>3 DEF ESC
<1>5. CASE ReleaseForeign
  BY <1>1, <1>5 DEF ReleaseForeign, StoreESC, Released, ESC
<1> QED BY <1>2, <1>3, <1>4, <1>5

\* The controller's own steps: the finalizer is added before a pass goes on, and removed
\* only from an ESC that the call has seen deleting.
LEMMA CallSteps ==
  ASSUME TypeOK, FinalizerInv,
         Reconcile \/ RemoveFinalizer \/ AddFinalizer \/ RefetchESC \/ SyncESC
  PROVE  FinalizerInv'
<1> USE DEF FinalizerInv, NotAhead, Held, Installing
<1>0. esc \in ESC /\ escView \in ESC /\ pass \in Pass /\ pass.esc \in ESC
  BY PassFields DEF TypeOK
<1>1. CASE Reconcile
  <2>1. esc' = esc /\ escView' = escView
    BY <1>1 DEF Reconcile
  <2>2. CASE escView.phase = "gone"
    <3>1. pass'.pc = "idle"
      BY <1>1, <2>2 DEF Reconcile, Idle
    <3> QED
      BY <2>1, <3>1
  <2>3. CASE escView.phase # "gone"
    <3>1. pass'.pc = FirstStep(escView) /\ pass'.esc = escView
      BY <1>1, <2>3 DEF Reconcile, Idle
    <3> QED
      BY <1>0, <2>1, <2>3, <3>1 DEF FirstStep, ESC
  <2> QED
    BY <2>2, <2>3
<1>2. CASE RemoveFinalizer
  <2>1. escView' = escView /\ pass.pc = "cleanup"
    BY <1>2 DEF RemoveFinalizer
  <2>2. CASE /\ pass.esc.finalizer /\ CanUpdate
             /\ StoreESC(Released(Updated([pass.esc EXCEPT !.finalizer = FALSE])))
             /\ pass' = [pass EXCEPT !.pc = "finalizer", !.esc.finalizer = FALSE]
    <3>1. esc.phase = "deleting" /\ escView = esc
      BY <1>0, <2>1, <2>2 DEF CanUpdate, ESC
    <3>2. esc'.uid = esc.uid /\ esc'.phase # "live"
      BY <1>0, <2>2, <3>1 DEF StoreESC, Released, Updated, ESC
    <3>3. /\ pass'.pc = "finalizer" /\ ~pass'.esc.finalizer
          /\ pass'.esc.uid = pass.esc.uid /\ pass'.esc.phase = pass.esc.phase
      BY <1>0, <2>2 DEF Pass, ESC
    <3> QED
      BY <2>1, <3>1, <3>2, <3>3
  <2>3. CASE ReturnError /\ esc' = esc
    BY <2>1, <2>3 DEF ReturnError, Idle
  <2>4. CASE ~pass.esc.finalizer /\ pass' = [pass EXCEPT !.pc = "finalizer"] /\ esc' = esc
    BY <1>0, <2>1, <2>4 DEF Pass
  <2> QED
    BY <1>2, <2>2, <2>3, <2>4, Zenon DEF RemoveFinalizer
<1>3. CASE AddFinalizer
  <2>1. escView' = escView /\ pass.pc = "finalizer"
    BY <1>3 DEF AddFinalizer
  <2>2. CASE pass.esc.finalizer /\ pass' = [pass EXCEPT !.pc = "validate"] /\ esc' = esc
    BY <1>0, <2>1, <2>2 DEF Pass
  <2>3. CASE /\ CanUpdate /\ esc.phase = "live"
             /\ StoreESC(Updated([pass.esc EXCEPT !.finalizer = TRUE]))
             /\ pass' = [pass EXCEPT !.pc = "refetch"]
    <3>1. escView = esc
      BY <2>3 DEF CanUpdate
    <3>2. esc'.uid = esc.uid /\ esc'.phase = "live" /\ esc'.finalizer
      BY <1>0, <2>3 DEF StoreESC, Updated, ESC
    <3>3. pass'.pc = "refetch" /\ pass'.esc = pass.esc
      BY <1>0, <2>3 DEF Pass
    <3> QED
      BY <2>1, <2>3, <3>1, <3>2, <3>3
  <2>4. CASE ReturnError /\ esc' = esc
    BY <2>1, <2>4 DEF ReturnError, Idle
  <2> QED
    <3>1. \/ pass.esc.finalizer /\ pass' = [pass EXCEPT !.pc = "validate"] /\ esc' = esc
          \/ /\ CanUpdate /\ esc.phase = "live"
             /\ StoreESC(Updated([pass.esc EXCEPT !.finalizer = TRUE]))
             /\ pass' = [pass EXCEPT !.pc = "refetch"]
          \/ ReturnError /\ esc' = esc
      BY <1>3 DEF AddFinalizer
    <3> QED
      BY <2>2, <2>3, <2>4, <3>1, Zenon
<1>4. CASE RefetchESC
  <2>1. esc' = esc /\ escView' = escView /\ pass.pc = "refetch"
    BY <1>4 DEF RefetchESC
  <2>2. CASE pass' = Idle
    BY <2>1, <2>2 DEF Idle
  <2>3. CASE pass' = [pass EXCEPT !.pc = "validate", !.esc = escView, !.gen = escView.gen]
    <3>1. pass'.pc = "validate" /\ pass'.esc = escView
      BY <1>0, <2>3, Zenon DEF Pass
    <3> QED
      BY <2>1, <3>1
  <2> QED
    BY <1>4, <2>2, <2>3, Zenon DEF RefetchESC, ReturnError
<1>5. CASE SyncESC
  <2>1. escView' = esc /\ esc' = esc /\ pass' = pass
    BY <1>5 DEF SyncESC
  <2> QED
    BY <1>0, <2>1 DEF ESC
<1> QED
  BY <1>1, <1>2, <1>3, <1>4, <1>5

\* A step that keeps the ESC's uid, phase and finalizer, and whose call stays among the
\* install steps, or leaves them, with a copy no newer than the server's.
LEMMA WithinPass ==
  ASSUME TypeOK, FinalizerInv, pass.pc # "idle", escView' = escView,
         esc'.uid = esc.uid, esc'.phase = esc.phase, esc'.finalizer = esc.finalizer,
         \/ pass'.pc = "idle"
         \/ /\ pass'.pc = "status" \/ (pass.pc \in Installing /\ pass'.pc \in Installing)
            /\ \/ pass'.esc = pass.esc
               \/ pass'.esc.uid = esc.uid /\ pass'.esc.phase = esc.phase
  PROVE  FinalizerInv'
<1>1. esc.uid \in Nat
  BY DEF TypeOK, ESC
<1> QED
  BY <1>1 DEF FinalizerInv, NotAhead, Held, Installing

LEMMA FailPassFields ==
  ASSUME TypeOK, NEW o \in Outcome, NEW copy
  PROVE  /\ FailPass(o).pc = "status" /\ FailPass(o).esc = pass.esc
         /\ [FailPass(o) EXCEPT !.esc = copy].pc = "status"
         /\ [FailPass(o) EXCEPT !.esc = copy].esc = copy
BY DEF TypeOK, FailPass, Pass

\* The install steps keep the ESC's uid, phase and finalizer, and move within the pass.
LEMMA InstallSteps ==
  ASSUME TypeOK, FinalizerInv,
         \/ validateExternalSecretsConfig \/ InstallResources
         \/ FetchBundle \/ updateWatchLabel \/ DeployController \/ FinishInstall
         \/ UpdateStatus \/ FailStep
  PROVE  FinalizerInv'
<1>0. esc \in ESC /\ pass \in Pass /\ pass.esc \in ESC
  BY PassFields DEF TypeOK
<1>a. \A o \in Outcome : FailPass(o).pc = "status" /\ FailPass(o).esc = pass.esc
  BY FailPassFields
<1>b. {"ok", "fatal", "user", "notFound", "retry"} \subseteq Outcome
  BY DEF Outcome
<1>c. Idle.pc = "idle"
  BY DEF Idle
<1>1. CASE validateExternalSecretsConfig
  <2>1. esc' = esc /\ escView' = escView /\ pass.pc = "validate"
    BY <1>1 DEF validateExternalSecretsConfig
  <2>2. \/ pass' = FailPass("fatal") \/ pass' = FailPass("user")
        \/ pass' = [pass EXCEPT !.pc = "install"]
    BY <1>1 DEF validateExternalSecretsConfig
  <2>3. pass'.pc \in {"status", "install"} /\ pass'.esc = pass.esc
    BY <1>0, <1>a, <1>b, <2>2 DEF Pass
  <2> QED
    BY <2>1, <2>3, WithinPass DEF Installing
<1>2. CASE InstallResources
  <2> DEFINE copy == IF pass.esc.cleaned THEN pass.esc ELSE [esc EXCEPT !.cleaned = TRUE]
  <2>1. escView' = escView /\ pass.pc = "install"
    BY <1>2 DEF InstallResources
  <2>2. esc' = IF pass.esc.cleaned THEN esc ELSE [esc EXCEPT !.cleaned = TRUE]
    BY <1>2 DEF InstallResources, markCleanupDone
  <2>3. esc'.uid = esc.uid /\ esc'.phase = esc.phase /\ esc'.finalizer = esc.finalizer
    BY <1>0, <2>2 DEF ESC
  <2>4. copy = pass.esc \/ (copy.uid = esc.uid /\ copy.phase = esc.phase)
    BY <1>0 DEF ESC
  <2>5. \/ pass' = [FailPass("retry") EXCEPT !.esc = copy]
        \/ pass' = [FailPass("notFound") EXCEPT !.esc = copy]
        \/ pass' = [FailPass("user") EXCEPT !.esc = copy]
        \/ pass' = [pass EXCEPT !.pc = "bundle", !.esc = copy]
    BY <1>2 DEF InstallResources, CertificatesOutcome, markCleanupDone
  <2> HIDE DEF copy
  <2>6. [pass EXCEPT !.pc = "bundle", !.esc = copy].pc = "bundle"
        /\ [pass EXCEPT !.pc = "bundle", !.esc = copy].esc = copy
    BY <1>0 DEF Pass
  <2>7. \A o \in {"retry", "notFound", "user"} :
          [FailPass(o) EXCEPT !.esc = copy].pc = "status"
          /\ [FailPass(o) EXCEPT !.esc = copy].esc = copy
    BY FailPassFields, <1>b
  <2>8. pass'.pc \in {"status", "bundle"} /\ pass'.esc = copy
    BY <2>5, <2>6, <2>7
  <2> QED
    BY <2>1, <2>3, <2>4, <2>8, WithinPass DEF Installing
<1>3. CASE FetchBundle
  <2>1. esc' = esc /\ escView' = escView /\ pass.pc = "bundle"
    BY <1>3 DEF FetchBundle
  <2>2. pass'.pc \in {"label", "deploy"} /\ pass'.esc = pass.esc
    BY <1>0, <1>3 DEF FetchBundle, Pass
  <2> QED
    BY <2>1, <2>2, WithinPass DEF Installing
<1>4. CASE updateWatchLabel
  <2>1. esc' = esc /\ escView' = escView /\ pass.pc = "label"
    BY <1>4 DEF updateWatchLabel
  <2>2. pass' = FailPass("retry") \/ pass' = [pass EXCEPT !.pc = "deploy"]
    BY <1>4 DEF updateWatchLabel
  <2>3. pass'.pc \in {"status", "deploy"} /\ pass'.esc = pass.esc
    BY <1>0, <1>a, <1>b, <2>2 DEF Pass
  <2> QED
    BY <2>1, <2>3, WithinPass DEF Installing
<1>5. CASE DeployController
  <2>1. esc' = esc /\ escView' = escView /\ pass.pc = "deploy"
    BY <1>5 DEF DeployController
  <2>2. \/ pass' = FailPass("notFound") \/ pass' = FailPass("user")
        \/ pass' = [pass EXCEPT !.pc = "finish", !.cm = NoConfigMap]
    BY <1>5 DEF DeployController
  <2>3. [pass EXCEPT !.pc = "finish", !.cm = NoConfigMap].pc = "finish"
        /\ [pass EXCEPT !.pc = "finish", !.cm = NoConfigMap].esc = pass.esc
    BY <1>0, Zenon DEF Pass
  <2>4. pass'.pc \in {"status", "finish"} /\ pass'.esc = pass.esc
    BY <1>a, <1>b, <2>2, <2>3
  <2> QED
    BY <2>1, <2>4, WithinPass DEF Installing
<1>6. CASE FinishInstall
  <2>1. escView' = escView /\ pass.pc = "finish" /\ esc' = [esc EXCEPT !.processed = TRUE]
    BY <1>6 DEF FinishInstall
  <2>2. esc'.uid = esc.uid /\ esc'.phase = esc.phase /\ esc'.finalizer = esc.finalizer
    BY <1>0, <2>1 DEF ESC
  <2>3. pass'.pc = "status" /\ (pass'.esc = pass.esc \/ pass'.esc = esc')
    BY <1>0, <1>6 DEF FinishInstall, Pass
  <2> QED
    BY <2>1, <2>2, <2>3, WithinPass
<1>7. CASE UpdateStatus
  <2>1. escView' = escView /\ pass.pc = "status" /\ pass'.pc = "idle"
    BY <1>7, <1>c DEF UpdateStatus, ReturnError
  <2>2. \/ esc' = esc
        \/ esc' = [esc EXCEPT !.status = [outcome |-> pass.outcome, gen |-> pass.gen]]
    BY <1>7 DEF UpdateStatus
  <2>3. esc'.uid = esc.uid /\ esc'.phase = esc.phase /\ esc'.finalizer = esc.finalizer
    BY <1>0, <2>2 DEF ESC
  <2> QED
    BY <2>1, <2>3, WithinPass
<1>8. CASE FailStep
  <2>1. esc' = esc /\ escView' = escView /\ pass.pc # "idle"
    BY <1>8 DEF FailStep, Installing
  <2>2. pass' = Idle \/ pass' = FailPass("retry") \/ pass' = FailPass("fatal")
    BY <1>8 DEF FailStep, ReturnError
  <2>3. pass'.pc = "idle" \/ (pass'.pc = "status" /\ pass'.esc = pass.esc)
    BY <1>a, <1>b, <1>c, <2>2
  <2> QED
    BY <2>1, <2>3, WithinPass
<1> QED
  BY <1>1, <1>2, <1>3, <1>4, <1>5, <1>6, <1>7, <1>8

LEMMA FinalizerInit == Init => FinalizerInv
<1> SUFFICES ASSUME Init PROVE FinalizerInv
  OBVIOUS
<1>1. PICK c \in Configs, f \in {FALSE, Foreign} : esc = NewESC(1, c, f)
  BY DEF Init
<1>2. escView = esc /\ pass.pc = "idle"
  BY DEF Init, Idle
<1>3. esc.uid = 1 /\ esc.phase = "live" /\ esc.finalizer = FALSE
  BY <1>1 DEF NewESC
<1> QED
  BY <1>2, <1>3 DEF FinalizerInv, NotAhead, Held, Installing

LEMMA FinalizerStep == TypeOK /\ FinalizerInv /\ [Next]_vars => FinalizerInv'
<1> SUFFICES ASSUME TypeOK, FinalizerInv, [Next]_vars PROVE FinalizerInv'
  OBVIOUS
<1>1. CASE ChangeReferences \/ EditConfigMap \/ SyncConfigMap \/ SyncESM \/ UNCHANGED vars
  <2>1. UNCHANGED <<esc, escView, pass>>
    BY <1>1, QuietSteps DEF vars
  <2> QED
    BY <2>1 DEF FinalizerInv, NotAhead, Held
<1>2. CASE Restart
  <2>1. pass'.pc = "idle" /\ escView' = esc /\ esc' = esc
    BY <1>2 DEF Restart, Idle
  <2>2. esc.uid \in Nat /\ esc.phase \in {"live", "deleting", "gone"}
    BY DEF TypeOK, ESC
  <2> QED
    BY <2>1, <2>2 DEF FinalizerInv, NotAhead, Held, Installing
<1> QED
  BY <1>1, <1>2, OutsideSteps, CallSteps, InstallSteps, Zenon DEF Next, PassStep

-----------------------------------------------------------------------------
(* GuardedObject is implemented.                                             *)

\* The stage, case by case, before and after a step.
LEMMA StageCases ==
  ASSUME esc \in ESC, esc' \in ESC
  PROVE  /\ esc.phase = "gone" => Stage = "absent"
         /\ esc.phase = "live" /\ esc.finalizer => Stage = "held"
         /\ esc.phase = "live" /\ ~esc.finalizer => Stage = "new"
         /\ esc.phase = "deleting" /\ esc.finalizer => Stage = "closing"
         /\ esc.phase = "deleting" /\ ~esc.finalizer => Stage = "released"
         /\ esc'.phase = "gone" => Stage' = "absent"
         /\ esc'.phase = "live" /\ esc'.finalizer => Stage' = "held"
         /\ esc'.phase = "live" /\ ~esc'.finalizer => Stage' = "new"
         /\ esc'.phase = "deleting" /\ esc'.finalizer => Stage' = "closing"
         /\ esc'.phase = "deleting" /\ ~esc'.finalizer => Stage' = "released"
BY DEF Stage, ESC

\* What a step is to GuardedObject.
GuardedStep == [Guarded!Next]_(Guarded!vars)

\* A step that keeps phase and finalizer begins or ends the work, or does neither: the
\* invariant, after the step, has the finalizer in place when work begins.
LEMMA SameStage ==
  ASSUME TypeOK, TypeOK', FinalizerInv',
         esc'.phase = esc.phase, esc'.finalizer = esc.finalizer
  PROVE  GuardedStep
<1>1. esc \in ESC /\ esc' \in ESC
  BY DEF TypeOK
<1>2. Stage' = Stage
  BY DEF Stage
<1>3. CASE (pass.pc \in Installing) = (pass'.pc \in Installing)
  BY <1>2, <1>3 DEF GuardedStep, Guarded!vars, Installing
<1>4. CASE pass.pc \notin Installing /\ pass'.pc \in Installing
  <2>1. esc'.finalizer /\ esc'.phase # "gone"
    BY <1>4 DEF FinalizerInv, Held
  <2>2. Stage \in {"held", "closing"}
    BY <1>1, <2>1, StageCases DEF ESC
  <2> QED
    BY <1>2, <1>4, <2>2
    DEF GuardedStep, Guarded!Next, Guarded!Begin, Guarded!Kept, Installing
<1>5. CASE pass.pc \in Installing /\ pass'.pc \notin Installing
  BY <1>2, <1>5 DEF GuardedStep, Guarded!Next, Guarded!End, Installing
<1> QED
  BY <1>3, <1>4, <1>5

\* Users and other controllers.
LEMMA GuardedOutside ==
  ASSUME TypeOK, TypeOK', FinalizerInv',
         EditESC \/ DeleteESC \/ CreateESC \/ ReleaseForeign
  PROVE  GuardedStep
<1>0. esc \in ESC /\ esc' \in ESC /\ pass' = pass
  BY DEF TypeOK, EditESC, DeleteESC, CreateESC, ReleaseForeign
<1>1. CASE EditESC
  <2>1. PICK c \in Configs : esc' = [esc EXCEPT !.config = c, !.gen = @ + 1]
    BY <1>1 DEF EditESC, StoreESC
  <2>2. esc'.phase = esc.phase /\ esc'.finalizer = esc.finalizer
    BY <1>0, <2>1 DEF ESC
  <2> QED BY <2>2, SameStage
<1>2. CASE DeleteESC
  <2>1. /\ esc.phase = "live" /\ esc'.finalizer = esc.finalizer
        /\ esc'.phase \in {"deleting", "gone"}
        /\ esc.finalizer => esc'.phase = "deleting"
    BY <1>0, <1>2 DEF DeleteESC, StoreESC, ESC
  <2>2. \/ Stage = "new" /\ Stage' \in {"absent", "released"}
        \/ Stage = "held" /\ Stage' = "closing"
    BY <1>0, <2>1, StageCases DEF ESC
  <2> QED BY <1>0, <2>2 DEF GuardedStep, Guarded!Next, Guarded!Delete
<1>3. CASE CreateESC
  <2>1. PICK c \in Configs : esc' = NewESC(esc.uid + 1, c, FALSE)
    BY <1>3 DEF CreateESC, StoreESC
  <2>2. esc.phase = "gone" /\ esc'.phase = "live" /\ ~esc'.finalizer
    BY <1>3, <2>1 DEF CreateESC, NewESC
  <2>3. Stage = "absent" /\ Stage' = "new"
    BY <1>0, <2>2, StageCases
  <2> QED BY <1>0, <2>3 DEF GuardedStep, Guarded!Next, Guarded!Create
<1>4. CASE ReleaseForeign
  <2>1. esc' = Released([esc EXCEPT !.foreign = FALSE])
    BY <1>4 DEF ReleaseForeign, StoreESC
  <2>2. /\ esc'.finalizer = esc.finalizer
        /\ \/ esc'.phase = esc.phase
           \/ esc.phase = "deleting" /\ ~esc.finalizer /\ esc'.phase = "gone"
    BY <1>0, <2>1 DEF Released, ESC
  <2>3. CASE esc'.phase = esc.phase
    BY <2>2, <2>3, SameStage
  <2>4. CASE esc.phase = "deleting" /\ ~esc.finalizer /\ esc'.phase = "gone"
    <3>1. Stage = "released" /\ Stage' = "absent"
      BY <1>0, <2>4, StageCases
    <3> QED BY <1>0, <3>1 DEF GuardedStep, Guarded!Next, Guarded!Remove
  <2> QED BY <2>2, <2>3, <2>4
<1> QED BY <1>1, <1>2, <1>3, <1>4

\* cleanUp, as the invariant has it, meets a deleting ESC and AddFinalizer a live one.
LEMMA GuardedProtocol ==
  ASSUME TypeOK, TypeOK', FinalizerInv, FinalizerInv', RemoveFinalizer \/ AddFinalizer
  PROVE  GuardedStep
<1>0. esc \in ESC /\ esc' \in ESC /\ pass \in Pass /\ pass.esc \in ESC
  BY PassFields DEF TypeOK
<1>1. CASE esc' = esc
  BY <1>1, SameStage
<1>2. CASE RemoveFinalizer /\ esc' # esc
  <2>1. /\ pass.pc = "cleanup" /\ CanUpdate
        /\ StoreESC(Released(Updated([pass.esc EXCEPT !.finalizer = FALSE])))
        /\ pass' = [pass EXCEPT !.pc = "finalizer", !.esc.finalizer = FALSE]
    BY <1>2, Zenon DEF RemoveFinalizer
  <2>2. esc.phase = "deleting"
    BY <1>0, <2>1 DEF CanUpdate, ESC, FinalizerInv, NotAhead
  <2>3. ~esc'.finalizer /\ esc'.phase \in {"deleting", "gone"}
    BY <1>0, <2>1, <2>2 DEF StoreESC, Released, Updated, ESC
  <2>4. pass.pc \notin Installing /\ pass'.pc \notin Installing
    BY <1>0, <2>1 DEF Installing, Pass
  <2>5. Stage \in {"closing", "released"} /\ Stage' \in {"absent", "released"}
    BY <1>0, <2>2, <2>3, StageCases DEF ESC
  <2> QED
    BY <2>4, <2>5 DEF GuardedStep, Guarded!Next, Guarded!Release, Guarded!Remove, Guarded!vars
<1>3. CASE AddFinalizer /\ esc' # esc
  <2>1. /\ pass.pc = "finalizer" /\ esc.phase = "live"
        /\ StoreESC(Updated([pass.esc EXCEPT !.finalizer = TRUE]))
        /\ pass' = [pass EXCEPT !.pc = "refetch"]
    BY <1>3, Zenon DEF AddFinalizer
  <2>2. esc'.finalizer /\ esc'.phase = "live"
    BY <1>0, <2>1 DEF StoreESC, Updated, ESC
  <2>3. pass.pc \notin Installing /\ pass'.pc \notin Installing
    BY <1>0, <2>1 DEF Installing, Pass
  <2>4. Stage \in {"new", "held"} /\ Stage' = "held"
    BY <1>0, <2>1, <2>2, StageCases DEF ESC
  <2> QED
    BY <2>3, <2>4 DEF GuardedStep, Guarded!Next, Guarded!Hold, Guarded!vars
<1> QED BY <1>1, <1>2, <1>3

\* The other steps write the ESC without touching its finalizer.
LEMMA GuardedRest ==
  ASSUME TypeOK, TypeOK', FinalizerInv, FinalizerInv',
         \/ ChangeReferences \/ EditConfigMap \/ SyncConfigMap \/ SyncESM \/ UNCHANGED vars
         \/ Restart \/ Reconcile \/ RefetchESC \/ SyncESC
         \/ validateExternalSecretsConfig \/ InstallResources
         \/ FetchBundle \/ updateWatchLabel \/ DeployController \/ FinishInstall
         \/ UpdateStatus \/ FailStep
  PROVE  GuardedStep
<1>1. \/ esc' = esc \/ esc' = [esc EXCEPT !.cleaned = TRUE]
      \/ esc' = [esc EXCEPT !.processed = TRUE]
      \/ esc' = [esc EXCEPT !.status = [outcome |-> pass.outcome, gen |-> pass.gen]]
  <2>1. CASE ChangeReferences \/ EditConfigMap \/ SyncConfigMap \/ SyncESM \/ UNCHANGED vars
    BY <2>1, QuietSteps DEF vars
  <2>2. CASE Restart \/ Reconcile \/ RefetchESC \/ SyncESC
    BY <2>2 DEF Restart, Reconcile, RefetchESC, SyncESC
  <2>3. CASE validateExternalSecretsConfig \/ FetchBundle \/ updateWatchLabel
             \/ DeployController \/ FailStep
    BY <2>3, Zenon DEF validateExternalSecretsConfig, FetchBundle, updateWatchLabel,
                       DeployController, FailStep
  <2>4. CASE InstallResources \/ FinishInstall \/ UpdateStatus
    BY <2>4 DEF InstallResources, markCleanupDone, FinishInstall, UpdateStatus
  <2> QED BY <2>1, <2>2, <2>3, <2>4
<1>2. esc \in ESC
  BY DEF TypeOK
<1>3. esc'.phase = esc.phase /\ esc'.finalizer = esc.finalizer
  BY <1>1, <1>2 DEF ESC
<1> QED BY <1>3, SameStage

\* The ESC controller implements GuardedObject: however stale the cached copies are that
\* Reconcile, AddFinalizer and cleanUp read and whoever edits, deletes and recreates the
\* ESC meanwhile, it is on the server, held by the operator's finalizer, while a pass
\* installs the operand, no deleting ESC gets the finalizer, and only cleanUp takes it away.
THEOREM FinalizerRefinement == Spec => FinalizerGuards
<1>1. Init => Guarded!Init
  <2> SUFFICES ASSUME Init PROVE Guarded!Init
    OBVIOUS
  <2>1. PICK c \in Configs, f \in {FALSE, Foreign} : esc = NewESC(1, c, f)
    BY DEF Init
  <2>2. esc.phase = "live" /\ esc.finalizer = FALSE /\ pass.pc = "idle"
    BY <2>1 DEF NewESC, Init, Idle
  <2> QED BY <2>2 DEF Guarded!Init, Stage, Installing
<1>2. TypeOK /\ TypeOK' /\ FinalizerInv /\ FinalizerInv' /\ [Next]_vars
        => [Guarded!Next]_(Guarded!vars)
  BY GuardedOutside, GuardedProtocol, GuardedRest, Zenon DEF Next, PassStep, GuardedStep
<1> QED
  BY <1>1, <1>2, TypeInit, TypeStep, FinalizerInit, FinalizerStep, PTL
  DEF Spec, FinalizerGuards, Guarded!Spec
-----------------------------------------------------------------------------
(* The truth of the status.                                                  *)

Quiet == ~queued /\ events = {}

\* What the call has read is what the server has, as far as the generation covers it.
Fresh ==
  /\ pass.esc.uid = esc.uid /\ pass.esc.phase = esc.phase
  /\ pass.esc.config = esc.config /\ pass.gen = esc.gen

Validated == esc.config \notin {"noCertManager", "badProxy"} /\ ~esmBad
Certified == esc.config # "badCert"

\* A bundle that is in use is watched.
BundleWatched == esc.config = "bundle" => cm.labelled /\ BundleUsable

\* What an outcome says of the configuration, with the watches that will report the end of it.
OutcomeTrue(o) ==
  /\ o = "ok" => Validated /\ Certified /\ BundleWatched /\ DeployedAsAsked
  /\ o = "user" => \/ esc.config \in {"badProxy", "badCert"} \/ esmBad
                   \/ /\ esc.config = "bundle" /\ cm.labelled /\ ~BundleUsable
                      /\ cm.data = "invalid" => announced

\* Where a cache lags on what the watches report, an event is on its way.
ViewsFollow ==
  /\ "esc" \notin events =>
       /\ escView.uid = esc.uid /\ escView.phase = esc.phase
       /\ escView.config = esc.config /\ escView.gen = esc.gen
  /\ "cm" \notin events => cmView = cm \/ (~cmView.labelled /\ ~cm.labelled)

\* What holds of the call whether or not anything is on its way to the controller: the once
\* gate is open unless there was a warning.
CallKnows ==
  /\ now => announced
  /\ pass.pc = "status" /\ pass.outcome = "ok" => ~now

\* What holds, step by step, while nothing is on its way: what the pass has established
\* still is so, and a ConfigMap is labelled by this controller only.
QuietKnows ==
  /\ pass.pc # "idle" => Fresh
  /\ pass.pc \in Installing \ {"validate"} => Validated
  /\ pass.pc \in Installing \ {"validate", "install"} => Certified
  /\ pass.pc = "label" => IF pass.cm.labelled THEN pass.cm = cm ELSE ~cm.labelled
  /\ pass.pc = "deploy" /\ esc.config = "bundle" /\ pass.cm.exists => pass.cm = cm /\ cm.labelled
  /\ pass.pc = "finish" => BundleWatched /\ DeployedAsAsked
  /\ pass.pc = "status" => OutcomeTrue(pass.outcome)
  /\ pass.pc = "idle" /\ esc.phase = "live" =>
       skipped \/ (esc.status.gen = esc.gen /\ OutcomeTrue(esc.status.outcome))

StatusInv == CallKnows /\ (Quiet => QuietKnows)

LEMMA ViewsInit == Init => ViewsFollow
BY DEF Init, ViewsFollow

\* A write that raises no event changes nothing that the watches report.
LEMMA ViewsESC ==
  ASSUME ViewsFollow, NEW new, StoreESC(new), UNCHANGED <<escView, cm, cmView>>,
         new.config = esc.config \/ new.gen # esc.gen \/ new.uid # esc.uid
  PROVE  ViewsFollow'
BY DEF ViewsFollow, StoreESC

LEMMA ViewsSame ==
  ASSUME ViewsFollow, UNCHANGED <<escView, cm, cmView, events>>,
         /\ esc'.uid = esc.uid /\ esc'.phase = esc.phase
         /\ esc'.config = esc.config /\ esc'.gen = esc.gen
  PROVE  ViewsFollow'
BY DEF ViewsFollow

LEMMA ViewsConfigMap ==
  ASSUME ViewsFollow, NEW new, StoreConfigMap(new), UNCHANGED <<esc, escView, cmView>>,
         new.labelled \in BOOLEAN
  PROVE  ViewsFollow'
BY DEF ViewsFollow, StoreConfigMap

LEMMA ViewsStep == TypeOK /\ ViewsFollow /\ [Next]_vars => ViewsFollow'
<1> SUFFICES ASSUME TypeOK, ViewsFollow, [Next]_vars PROVE ViewsFollow'
  OBVIOUS
<1>0. esc \in ESC /\ pass \in Pass /\ pass.esc \in ESC /\ cm \in ConfigMap
      /\ esc.gen \in Nat /\ esc.uid \in Nat
  BY PassFields DEF TypeOK, ESC
<1>1. CASE EditESC
  <2>1. PICK c \in Configs : StoreESC([esc EXCEPT !.config = c, !.gen = @ + 1])
    BY <1>1 DEF EditESC
  <2>2. [esc EXCEPT !.config = c, !.gen = @ + 1].gen # esc.gen
    BY <1>0 DEF ESC
  <2>3. UNCHANGED <<escView, cm, cmView>>
    BY <1>1 DEF EditESC
  <2> QED BY <2>1, <2>2, <2>3, ViewsESC
<1>2. CASE DeleteESC
  <2>1. PICK p \in {"deleting", "gone"} : StoreESC([esc EXCEPT !.gen = @ + 1, !.phase = p])
    BY <1>2 DEF DeleteESC
  <2>2. [esc EXCEPT !.gen = @ + 1, !.phase = p].gen # esc.gen
    BY <1>0 DEF ESC
  <2>3. UNCHANGED <<escView, cm, cmView>>
    BY <1>2 DEF DeleteESC
  <2> QED BY <2>1, <2>2, <2>3, ViewsESC
<1>3. CASE CreateESC
  <2>1. PICK c \in Configs : StoreESC(NewESC(esc.uid + 1, c, FALSE))
    BY <1>3 DEF CreateESC
  <2>2. NewESC(esc.uid + 1, c, FALSE).uid # esc.uid
    BY <1>0 DEF NewESC
  <2>3. UNCHANGED <<escView, cm, cmView>>
    BY <1>3 DEF CreateESC
  <2> QED BY <2>1, <2>2, <2>3, ViewsESC
<1>4. CASE ReleaseForeign
  <2>1. StoreESC(Released([esc EXCEPT !.foreign = FALSE])) /\ UNCHANGED <<escView, cm, cmView>>
    BY <1>4 DEF ReleaseForeign
  <2>2. Released([esc EXCEPT !.foreign = FALSE]).config = esc.config
    BY <1>0 DEF Released, ESC
  <2> QED BY <2>1, <2>2, ViewsESC
<1>5. CASE EditConfigMap
  <2>1. PICK new \in ConfigMap : StoreConfigMap(new)
    <3>1. /\ \A d \in Data : [cm EXCEPT !.exists = TRUE, !.data = d] \in ConfigMap
          /\ [cm EXCEPT !.labelled = FALSE] \in ConfigMap
      BY <1>0 DEF ConfigMap
    <3> QED BY <1>5, <3>1, NoConfigMapType DEF EditConfigMap
  <2>2. UNCHANGED <<esc, escView, cmView>> /\ new.labelled \in BOOLEAN
    BY <1>5 DEF EditConfigMap, ConfigMap
  <2> QED BY <2>1, <2>2, ViewsConfigMap
<1>6. CASE ChangeReferences \/ SyncESC \/ SyncConfigMap \/ SyncESM
  BY <1>6 DEF ChangeReferences, SyncESC, SyncConfigMap, SyncESM, ViewsFollow
<1>7. CASE RemoveFinalizer
  <2>1. CASE UNCHANGED <<esc, events>>
    BY <1>7, <2>1, ViewsSame DEF RemoveFinalizer
  <2>2. CASE StoreESC(Released(Updated([pass.esc EXCEPT !.finalizer = FALSE])))
    <3> DEFINE copy == [pass.esc EXCEPT !.finalizer = FALSE]
               up == Updated(copy)
               new == Released(up)
    <3>1. copy \in ESC
      BY <1>0, ESCFields
    <3> HIDE DEF copy
    <3>2. up.config = esc.config \/ up.gen # esc.gen
      BY <1>0 DEF Updated, ESC
    <3>3. up \in ESC
      BY <3>1, UpdatedType
    <3> HIDE DEF up
    <3>4. new.config = up.config /\ new.gen = up.gen
      BY <3>3 DEF Released, ESC
    <3>5. StoreESC(new)
      BY <2>2 DEF up, copy
    <3> HIDE DEF new
    <3>6. UNCHANGED <<escView, cm, cmView>>
      BY <1>7 DEF RemoveFinalizer
    <3> QED BY <3>2, <3>4, <3>5, <3>6, ViewsESC
  <2> QED BY <1>7, <2>1, <2>2 DEF RemoveFinalizer
<1>8. CASE AddFinalizer
  <2>1. CASE UNCHANGED <<esc, events>>
    BY <1>8, <2>1, ViewsSame DEF AddFinalizer
  <2>2. CASE StoreESC(Updated([pass.esc EXCEPT !.finalizer = TRUE]))
    <3> DEFINE copy == [pass.esc EXCEPT !.finalizer = TRUE]
               up == Updated(copy)
    <3> HIDE DEF copy
    <3>1. up.config = esc.config \/ up.gen # esc.gen
      BY <1>0 DEF Updated, ESC
    <3>2. StoreESC(up)
      BY <2>2 DEF copy
    <3> HIDE DEF up
    <3>3. UNCHANGED <<escView, cm, cmView>>
      BY <1>8 DEF AddFinalizer
    <3> QED BY <3>1, <3>2, <3>3, ViewsESC
  <2> QED BY <1>8, <2>1, <2>2 DEF AddFinalizer
<1>9. CASE updateWatchLabel
  <2>1. UNCHANGED <<esc, escView, cmView>>
    BY <1>9 DEF updateWatchLabel
  <2>2. CASE UNCHANGED <<cm, events>>
    BY <2>1, <2>2, ViewsSame
  <2>3. CASE StoreConfigMap([cm EXCEPT !.labelled = TRUE])
    <3>1. [cm EXCEPT !.labelled = TRUE].labelled \in BOOLEAN
      BY <1>0 DEF ConfigMap
    <3> QED BY <2>1, <2>3, <3>1, ViewsConfigMap
  <2> QED BY <1>9, <2>2, <2>3 DEF updateWatchLabel
<1>10. CASE InstallResources \/ FinishInstall \/ UpdateStatus
  <2>1. UNCHANGED <<escView, cm, cmView, events>>
    BY <1>10 DEF InstallResources, FinishInstall, UpdateStatus
  <2>2. /\ esc'.uid = esc.uid /\ esc'.phase = esc.phase
        /\ esc'.config = esc.config /\ esc'.gen = esc.gen
    BY <1>0, <1>10 DEF InstallResources, markCleanupDone, FinishInstall, UpdateStatus, ESC
  <2> QED BY <2>1, <2>2, ViewsSame
<1>11. CASE \/ Reconcile \/ RefetchESC \/ validateExternalSecretsConfig \/ FetchBundle
            \/ DeployController \/ FailStep \/ UNCHANGED vars
  <2>1. UNCHANGED <<esc, escView, cm, cmView, events>>
    BY <1>11 DEF Reconcile, RefetchESC, validateExternalSecretsConfig, FetchBundle,
       DeployController, FailStep, vars
  <2> QED BY <2>1, ViewsSame
<1>12. CASE Restart
  BY <1>12 DEF Restart, ViewsFollow
<1> QED
  BY <1>1, <1>2, <1>3, <1>4, <1>5, <1>6, <1>7, <1>8, <1>9, <1>10, <1>11, <1>12, Zenon
  DEF Next, PassStep

\* What a call reads of the caches while nothing is on its way.
LEMMA QuietReads ==
  ASSUME TypeOK, ViewsFollow, events = {}
  PROVE  /\ escView.uid = esc.uid /\ escView.phase = esc.phase
         /\ escView.config = esc.config /\ escView.gen = esc.gen
         /\ IF getWithCacheFallback.labelled THEN getWithCacheFallback = cm ELSE ~cm.labelled
BY DEF ViewsFollow, getWithCacheFallback, TypeOK, ConfigMap

LEMMA StatusInit == Init => StatusInv
BY DEF Init, Idle, StatusInv, CallKnows, Quiet

\* Steps outside the call that leave alone, or announce, what the pass depends on.
LEMMA StatusKept ==
  ASSUME StatusInv, UNCHANGED <<cm, pass, now, announced, deployed, skipped>>,
         Quiet' => /\ Quiet /\ esc'.uid = esc.uid /\ esc'.status = esc.status
                   /\ esmBad' = esmBad /\ esc'.phase = esc.phase
                   /\ esc'.config = esc.config /\ esc'.gen = esc.gen
  PROVE  StatusInv'
<1>1. CallKnows'
  BY DEF StatusInv, CallKnows
<1>2. ASSUME Quiet' PROVE QuietKnows'
  <2>1. /\ QuietKnows /\ UNCHANGED <<cm, pass, announced, deployed, skipped, esmBad>>
        /\ esc'.uid = esc.uid /\ esc'.status = esc.status /\ esc'.phase = esc.phase
        /\ esc'.config = esc.config /\ esc'.gen = esc.gen
    BY <1>2 DEF StatusInv
  <2> QED
    BY <2>1 DEF QuietKnows, Fresh, Validated, Certified, BundleWatched, OutcomeTrue,
       BundleUsable, DeployedAsAsked
<1> QED BY <1>1, <1>2 DEF StatusInv

\* What users do to the ESC, and its other finalizers.
LEMMA StatusESC ==
  ASSUME TypeOK, StatusInv, EditESC \/ DeleteESC \/ CreateESC \/ ReleaseForeign
  PROVE  StatusInv'
<1>0. esc \in ESC /\ UNCHANGED <<cm, pass, now, announced, deployed, skipped, queued, esmBad>>
  BY DEF TypeOK, EditESC, DeleteESC, CreateESC, ReleaseForeign, world
<1>1. CASE EditESC
  <2>1. PICK c \in Configs : StoreESC([esc EXCEPT !.config = c, !.gen = @ + 1])
    BY <1>1 DEF EditESC
  <2>2. "esc" \in events'
    BY <1>0, <2>1 DEF StoreESC, ESC
  <2>3. ~Quiet'
    BY <2>2 DEF Quiet
  <2> QED BY <1>0, <2>3, StatusKept
<1>2. CASE DeleteESC
  <2>1. PICK p \in {"deleting", "gone"} : StoreESC([esc EXCEPT !.gen = @ + 1, !.phase = p])
    BY <1>2 DEF DeleteESC
  <2>2. "esc" \in events'
    BY <1>0, <2>1 DEF StoreESC, ESC
  <2>3. ~Quiet'
    BY <2>2 DEF Quiet
  <2> QED BY <1>0, <2>3, StatusKept
<1>3. CASE CreateESC
  <2>1. PICK c \in Configs : StoreESC(NewESC(esc.uid + 1, c, FALSE))
    BY <1>3 DEF CreateESC
  <2>2. "esc" \in events'
    BY <1>0, <2>1 DEF StoreESC, NewESC, ESC
  <2>3. ~Quiet'
    BY <2>2 DEF Quiet
  <2> QED BY <1>0, <2>3, StatusKept
<1>4. CASE ReleaseForeign
  <2> DEFINE new == Released([esc EXCEPT !.foreign = FALSE])
  <2>1. /\ new.uid = esc.uid /\ new.status = esc.status /\ new.config = esc.config
        /\ new.gen = esc.gen
    BY <1>0 DEF Released, ESC
  <2>2. StoreESC(new)
    BY <1>4 DEF ReleaseForeign
  <2> HIDE DEF new
  <2>3. Quiet' => Quiet /\ esc'.phase = esc.phase
    BY <1>0, <2>2 DEF StoreESC, Quiet
  <2>4. esc' = new
    BY <2>2 DEF StoreESC
  <2> QED BY <1>0, <2>1, <2>3, <2>4, StatusKept
<1> QED BY <1>1, <1>2, <1>3, <1>4

\* The references, the ExternalSecretsManager and the informers.
LEMMA StatusOthers ==
  ASSUME TypeOK, StatusInv,
         ChangeReferences \/ SyncESC \/ SyncConfigMap \/ SyncESM \/ UNCHANGED vars
  PROVE  StatusInv'
<1>1. UNCHANGED <<esc, cm, pass, now, announced, deployed, skipped>>
  BY DEF ChangeReferences, SyncESC, SyncConfigMap, SyncESM, vars
<1>2. Quiet' => Quiet /\ esmBad' = esmBad
  BY DEF ChangeReferences, SyncESC, SyncConfigMap, SyncESM, vars, Quiet, world, TypeOK
<1> QED BY <1>1, <1>2, StatusKept

\* The ConfigMap, which is watched only while it is labelled.
LEMMA StatusConfigMap ==
  ASSUME TypeOK, StatusInv, EditConfigMap
  PROVE  StatusInv'
<1>1. UNCHANGED <<esc, esmBad, pass, now, announced, deployed, skipped, queued>>
  BY DEF EditConfigMap
<1>2. PICK new : StoreConfigMap(new) /\ (new.labelled => cm.labelled)
  <2>1. CASE \E d \in Data : StoreConfigMap([cm EXCEPT !.exists = TRUE, !.data = d])
    <3>1. PICK d \in Data : StoreConfigMap([cm EXCEPT !.exists = TRUE, !.data = d])
      BY <2>1
    <3>2. [cm EXCEPT !.exists = TRUE, !.data = d].labelled = cm.labelled
      BY DEF TypeOK, ConfigMap
    <3> QED BY <3>1, <3>2
  <2>2. CASE cm.labelled /\ StoreConfigMap([cm EXCEPT !.labelled = FALSE])
    BY <2>2
  <2>3. CASE StoreConfigMap(NoConfigMap)
    BY <2>3 DEF NoConfigMap
  <2> QED BY <2>1, <2>2, <2>3 DEF EditConfigMap
<1>3. cm'.labelled => cm.labelled
  BY <1>2 DEF StoreConfigMap
<1>4. Quiet' => Quiet /\ ~cm.labelled
  BY <1>1, <1>2 DEF StoreConfigMap, Quiet
<1>5. CallKnows'
  BY <1>1 DEF StatusInv, CallKnows
<1>6. Quiet' => QuietKnows'
  BY <1>1, <1>3, <1>4 DEF StatusInv, QuietKnows, Fresh, Validated, Certified, BundleWatched,
     OutcomeTrue, BundleUsable, DeployedAsAsked
<1> QED BY <1>5, <1>6 DEF StatusInv

\* A call that ends without a word about the ESC is called again.
LEMMA StatusRetried ==
  ASSUME TypeOK, StatusInv, ReturnError \/ Restart,
         UNCHANGED <<announced>>, now' = now \/ now' = FALSE
  PROVE  StatusInv'
<1>0. pass' = Idle /\ queued' = TRUE
  BY DEF ReturnError, Restart
<1>1. pass'.pc = "idle" /\ ~Quiet'
  BY <1>0 DEF Idle, Quiet
<1>2. CallKnows'
  BY <1>1 DEF StatusInv, CallKnows
<1> QED BY <1>1, <1>2 DEF StatusInv

LEMMA StatusReconcile ==
  ASSUME TypeOK, ViewsFollow, StatusInv, Reconcile
  PROVE  StatusInv'
<1>1. UNCHANGED <<esc, cm, esmBad, now, announced, deployed, skipped, events>>
  BY DEF Reconcile, world
<1>2. CASE escView.phase = "gone"
  <2>1. pass'.pc = "idle"
    BY <1>2 DEF Reconcile, Idle
  <2>2. CallKnows'
    BY <1>1, <2>1 DEF StatusInv, CallKnows
  <2>3. Quiet' => esc.phase = "gone"
    BY <1>1, <1>2, QuietReads DEF Quiet
  <2> QED
    BY <1>1, <2>1, <2>2, <2>3 DEF StatusInv, QuietKnows, Installing
<1>3. CASE escView.phase # "gone"
  <2>1. pass'.pc = FirstStep(escView) /\ pass'.esc = escView /\ pass'.gen = escView.gen
    BY <1>1, <1>3 DEF Reconcile, Idle
  <2>2. FirstStep(escView) \in {"cleanup", "finalizer"}
    BY DEF FirstStep
  <2>3. CallKnows'
    BY <1>1, <2>1, <2>2 DEF StatusInv, CallKnows
  <2>4. Quiet' => Fresh'
    BY <1>1, <2>1, QuietReads DEF Quiet, Fresh
  <2> QED
    BY <2>1, <2>2, <2>3, <2>4 DEF StatusInv, QuietKnows, Installing
<1> QED BY <1>2, <1>3

\* A step of the finalizer protocol whose write is announced, or leaves the generation alone.
LEMMA StatusProtocolStep ==
  ASSUME StatusInv, UNCHANGED <<cm, esmBad, now, announced, queued>>, pass.pc # "idle",
         pass'.pc \in {"finalizer", "refetch", "validate"},
         pass'.esc.uid = pass.esc.uid, pass'.esc.phase = pass.esc.phase,
         pass'.esc.config = pass.esc.config, pass'.gen = pass.gen,
         esc'.uid = esc.uid,
         events' = {} => /\ events = {} /\ esc'.phase = esc.phase
                         /\ pass.esc.config = esc.config =>
                              esc'.config = esc.config /\ esc'.gen = esc.gen
  PROVE  StatusInv'
<1>1. CallKnows'
  BY DEF StatusInv, CallKnows
<1>2. Quiet' => Quiet /\ QuietKnows
  BY DEF StatusInv, Quiet
<1>3. Quiet' => Fresh'
  BY <1>2 DEF QuietKnows, Fresh, Quiet
<1> QED BY <1>1, <1>3 DEF StatusInv, QuietKnows, Installing

LEMMA StatusRemove ==
  ASSUME TypeOK, StatusInv, RemoveFinalizer
  PROVE  StatusInv'
<1>0. /\ UNCHANGED <<cm, esmBad, now, announced>> /\ pass.pc = "cleanup"
      /\ esc \in ESC /\ pass \in Pass /\ pass.esc \in ESC
  BY PassFields DEF RemoveFinalizer, world, TypeOK
<1>1. CASE /\ StoreESC(Released(Updated([pass.esc EXCEPT !.finalizer = FALSE])))
           /\ pass' = [pass EXCEPT !.pc = "finalizer", !.esc.finalizer = FALSE]
           /\ UNCHANGED queued
  <2> DEFINE copy == [pass.esc EXCEPT !.finalizer = FALSE]
             up == Updated(copy)
             new == Released(up)
  <2>1. copy.config = pass.esc.config
    BY <1>0 DEF ESC
  <2>a. copy \in ESC
    BY <1>0, ESCFields
  <2> HIDE DEF copy
  <2>2. /\ up.uid = esc.uid /\ up.status = esc.status /\ up.phase = esc.phase
        /\ up.gen = IF pass.esc.config # esc.config THEN esc.gen + 1 ELSE esc.gen
        /\ up.config = pass.esc.config
    BY <1>0, <2>1 DEF Updated, ESC
  <2>b. up \in ESC
    BY <2>a, UpdatedType
  <2> HIDE DEF up
  <2>3. /\ new.uid = up.uid /\ new.status = up.status /\ new.gen = up.gen
        /\ new.config = up.config
    BY <2>b DEF Released, ESC
  <2>4. StoreESC(new)
    BY <1>1 DEF up, copy
  <2> HIDE DEF new
  <2>5. esc' = new /\ (events' = {} => events = {} /\ esc'.phase = esc.phase)
    BY <2>4 DEF StoreESC
  <2>6. /\ pass'.pc = "finalizer" /\ pass'.esc.uid = pass.esc.uid /\ pass'.gen = pass.gen
        /\ pass'.esc.phase = pass.esc.phase /\ pass'.esc.config = pass.esc.config
        /\ pass'.esc.status = pass.esc.status
    BY <1>0, <1>1 DEF Pass, ESC
  <2> QED BY <1>0, <1>1, <2>2, <2>3, <2>5, <2>6, StatusProtocolStep
<1>2. CASE ReturnError
  BY <1>0, <1>2, StatusRetried
<1>3. CASE pass' = [pass EXCEPT !.pc = "finalizer"] /\ UNCHANGED <<esc, events, queued>>
  <2>1. pass'.pc = "finalizer" /\ pass'.esc = pass.esc /\ pass'.gen = pass.gen
    BY <1>0, <1>3 DEF Pass
  <2> QED BY <1>0, <1>3, <2>1, StatusProtocolStep
<1> QED BY <1>1, <1>2, <1>3, Zenon DEF RemoveFinalizer

LEMMA StatusAdd ==
  ASSUME TypeOK, StatusInv, AddFinalizer
  PROVE  StatusInv'
<1>0. /\ UNCHANGED <<cm, esmBad, now, announced>> /\ pass.pc = "finalizer"
      /\ esc \in ESC /\ pass \in Pass /\ pass.esc \in ESC
  BY PassFields DEF AddFinalizer, world, TypeOK
<1>1. CASE /\ StoreESC(Updated([pass.esc EXCEPT !.finalizer = TRUE]))
           /\ pass' = [pass EXCEPT !.pc = "refetch"] /\ UNCHANGED queued
  <2> DEFINE copy == [pass.esc EXCEPT !.finalizer = TRUE]
             up == Updated(copy)
  <2>1. copy.config = pass.esc.config
    BY <1>0 DEF ESC
  <2> HIDE DEF copy
  <2>2. /\ up.uid = esc.uid /\ up.status = esc.status /\ up.phase = esc.phase
        /\ up.gen = IF pass.esc.config # esc.config THEN esc.gen + 1 ELSE esc.gen
        /\ up.config = pass.esc.config
    BY <1>0, <2>1 DEF Updated, ESC
  <2>3. StoreESC(up)
    BY <1>1 DEF copy
  <2> HIDE DEF up
  <2>4. esc' = up /\ (events' = {} => events = {} /\ esc'.phase = esc.phase)
    BY <2>3 DEF StoreESC
  <2>5. pass'.pc = "refetch" /\ pass'.esc = pass.esc /\ pass'.gen = pass.gen
    BY <1>0, <1>1 DEF Pass
  <2> QED BY <1>0, <1>1, <2>2, <2>4, <2>5, StatusProtocolStep
<1>2. CASE ReturnError
  BY <1>0, <1>2, StatusRetried
<1>3. CASE pass' = [pass EXCEPT !.pc = "validate"] /\ UNCHANGED <<esc, events, queued>>
  <2>1. pass'.pc = "validate" /\ pass'.esc = pass.esc /\ pass'.gen = pass.gen
    BY <1>0, <1>3 DEF Pass
  <2> QED BY <1>0, <1>3, <2>1, StatusProtocolStep
<1>4. \/ /\ StoreESC(Updated([pass.esc EXCEPT !.finalizer = TRUE]))
         /\ pass' = [pass EXCEPT !.pc = "refetch"] /\ UNCHANGED queued
      \/ ReturnError
      \/ pass' = [pass EXCEPT !.pc = "validate"] /\ UNCHANGED <<esc, events, queued>>
  BY DEF AddFinalizer
<1> QED BY <1>1, <1>2, <1>3, <1>4, Zenon

LEMMA StatusRefetch ==
  ASSUME TypeOK, ViewsFollow, StatusInv, RefetchESC
  PROVE  StatusInv'
<1>0. /\ UNCHANGED <<esc, cm, esmBad, now, announced, events>> /\ pass.pc = "refetch"
      /\ pass \in Pass
  BY DEF RefetchESC, world, TypeOK
<1>1. CASE ReturnError
  BY <1>0, <1>1, StatusRetried
<1>2. CASE pass' = [pass EXCEPT !.pc = "validate", !.esc = escView, !.gen = escView.gen]
  <2>1. pass'.pc = "validate" /\ pass'.esc = escView /\ pass'.gen = escView.gen
    BY <1>0, <1>2 DEF Pass
  <2>2. CallKnows'
    BY <1>0, <2>1 DEF StatusInv, CallKnows
  <2>3. Quiet' => Fresh'
    BY <1>0, <2>1, QuietReads DEF Quiet, Fresh
  <2> QED
    BY <2>1, <2>2, <2>3 DEF StatusInv, QuietKnows, Installing
<1> QED BY <1>1, <1>2 DEF RefetchESC

\* Validation: what is not reported is in order.
LEMMA StatusValidate ==
  ASSUME TypeOK, StatusInv, validateExternalSecretsConfig
  PROVE  StatusInv'
<1>0. /\ UNCHANGED <<esc, cm, esmBad, now, announced, events, queued>>
      /\ pass.pc = "validate" /\ pass \in Pass
  BY DEF validateExternalSecretsConfig, world, TypeOK
<1>1. /\ pass'.esc = pass.esc /\ pass'.gen = pass.gen
      /\ \/ pass'.pc = "status" /\ pass'.outcome = "fatal"
         \/ pass'.pc = "status" /\ pass'.outcome = "user" /\ ProxyInvalid(pass.esc)
         \/ /\ pass'.pc = "install" /\ ~ProxyInvalid(pass.esc)
            /\ pass.esc.config # "noCertManager"
  BY <1>0 DEF validateExternalSecretsConfig, FailPass, Pass
<1>2. CallKnows'
  BY <1>0, <1>1 DEF StatusInv, CallKnows
<1>3. Quiet' => QuietKnows'
  BY <1>0, <1>1 DEF StatusInv, Quiet, QuietKnows, Fresh, Validated, OutcomeTrue, ProxyInvalid,
     Installing
<1> QED BY <1>2, <1>3 DEF StatusInv

\* The resources before the Deployments; the copy is as fresh after the patch as before.
LEMMA StatusInstall ==
  ASSUME TypeOK, StatusInv, InstallResources
  PROVE  StatusInv'
<1>0. /\ UNCHANGED <<cm, esmBad, now, announced, events, queued>>
      /\ pass.pc = "install" /\ pass \in Pass /\ esc \in ESC /\ pass.esc \in ESC
  BY PassFields DEF InstallResources, world, TypeOK
<1> DEFINE copy == markCleanupDone
<1>1. /\ esc'.uid = esc.uid /\ esc'.phase = esc.phase /\ esc'.config = esc.config
      /\ esc'.gen = esc.gen /\ esc'.status = esc.status
  BY <1>0 DEF InstallResources, markCleanupDone, ESC
<1>2. \/ copy = pass.esc
      \/ /\ copy.uid = esc.uid /\ copy.phase = esc.phase /\ copy.config = esc.config
         /\ copy.status = esc.status
  BY <1>0 DEF markCleanupDone, ESC
<1>3. \/ /\ pass' = [pass EXCEPT !.pc = "bundle", !.esc = copy]
         /\ copy.config # "badCert"
      \/ \E o \in {"retry", "notFound"} : pass' = [FailPass(o) EXCEPT !.esc = copy]
      \/ pass' = [FailPass("user") EXCEPT !.esc = copy] /\ copy.config = "badCert"
  BY DEF InstallResources, CertificatesOutcome
<1> HIDE DEF copy
<1>4. /\ pass'.esc = copy /\ pass'.gen = pass.gen
      /\ \/ pass'.pc = "bundle" /\ copy.config # "badCert"
         \/ pass'.pc = "status" /\ pass'.outcome \in {"retry", "notFound"}
         \/ pass'.pc = "status" /\ pass'.outcome = "user" /\ copy.config = "badCert"
  BY <1>0, <1>3 DEF FailPass, Pass
<1>5. CallKnows'
  BY <1>0, <1>1, <1>2, <1>4 DEF StatusInv, CallKnows
<1>6. Quiet' => QuietKnows'
  BY <1>0, <1>1, <1>2, <1>4 DEF StatusInv, Quiet, QuietKnows, Fresh, Validated, Certified,
     OutcomeTrue, Installing
<1> QED BY <1>5, <1>6 DEF StatusInv

LEMMA StatusFetch ==
  ASSUME TypeOK, ViewsFollow, StatusInv, FetchBundle
  PROVE  StatusInv'
<1>0. /\ UNCHANGED <<esc, cm, esmBad, announced, events, queued>>
      /\ pass.pc = "bundle" /\ pass \in Pass
      /\ now' = now \/ now' = FALSE
  BY DEF FetchBundle, world, TypeOK
<1>1. CASE pass.esc.config = "bundle"
  <2> DEFINE fetched == getWithCacheFallback
  <2>0. Quiet => IF fetched.labelled THEN fetched = cm ELSE ~cm.labelled
    BY QuietReads DEF Quiet
  <2>1. pass' = [pass EXCEPT !.cm = fetched,
                             !.pc = IF fetched.exists THEN "label" ELSE "deploy"]
    BY <1>0, <1>1 DEF FetchBundle
  <2> HIDE DEF fetched
  <2>2. /\ pass'.esc = pass.esc /\ pass'.gen = pass.gen /\ pass'.cm = fetched
        /\ pass'.pc = IF fetched.exists THEN "label" ELSE "deploy"
    BY <1>0, <2>1 DEF Pass
  <2>3. CallKnows'
    BY <1>0, <2>2 DEF StatusInv, CallKnows
  <2>4. Quiet' => QuietKnows'
    BY <1>0, <2>0, <2>2
    DEF StatusInv, Quiet, QuietKnows, Fresh, Validated, Certified, Installing
  <2> QED BY <2>3, <2>4 DEF StatusInv
<1>2. CASE pass.esc.config # "bundle"
  <2>1. pass' = [pass EXCEPT !.pc = "deploy"]
    BY <1>2 DEF FetchBundle
  <2>2. pass'.esc = pass.esc /\ pass'.gen = pass.gen /\ pass'.pc = "deploy"
    BY <1>0, <2>1 DEF Pass
  <2>3. CallKnows'
    BY <1>0, <2>2 DEF StatusInv, CallKnows
  <2>4. Quiet' => QuietKnows'
    BY <1>0, <1>2, <2>2
    DEF StatusInv, Quiet, QuietKnows, Fresh, Validated, Certified, Installing
  <2> QED BY <2>3, <2>4 DEF StatusInv
<1> QED BY <1>1, <1>2

\* A ConfigMap that was not watched when it was read is announced by its label.
LEMMA StatusLabel ==
  ASSUME TypeOK, ViewsFollow, StatusInv, updateWatchLabel
  PROVE  StatusInv'
<1>0. /\ UNCHANGED <<esc, esmBad, now, announced, queued>>
      /\ pass.pc = "label" /\ pass \in Pass /\ cm \in ConfigMap
  BY DEF updateWatchLabel, world, TypeOK
<1>1. CASE /\ getWithCacheFallback.labelled /\ UNCHANGED <<cm, events>>
           /\ pass' = [pass EXCEPT !.pc = "deploy"]
  <2>1. /\ pass'.esc = pass.esc /\ pass'.gen = pass.gen /\ pass'.pc = "deploy"
        /\ pass'.cm = pass.cm
    BY <1>0, <1>1 DEF Pass
  <2>2. CallKnows'
    BY <1>0, <2>1 DEF StatusInv, CallKnows
  <2>3. Quiet' => QuietKnows'
    BY <1>0, <1>1, <2>1, QuietReads
    DEF StatusInv, Quiet, QuietKnows, Fresh, Validated, Certified, Installing
  <2> QED BY <2>2, <2>3 DEF StatusInv
<1>2. CASE /\ StoreConfigMap([cm EXCEPT !.labelled = TRUE])
           /\ pass' = [pass EXCEPT !.pc = "deploy"]
  <2>1. pass'.esc = pass.esc /\ pass'.pc = "deploy"
    BY <1>0, <1>2 DEF Pass
  <2>2. "cm" \in events'
    BY <1>0, <1>2 DEF StoreConfigMap, ConfigMap
  <2>3. ~Quiet'
    BY <2>2 DEF Quiet
  <2>4. CallKnows'
    BY <1>0, <2>1 DEF StatusInv, CallKnows
  <2> QED BY <2>3, <2>4 DEF StatusInv
<1>3. CASE pass' = FailPass("retry") /\ UNCHANGED <<cm, events>>
  <2>1. /\ pass'.esc = pass.esc /\ pass'.gen = pass.gen /\ pass'.pc = "status"
        /\ pass'.outcome = "retry"
    BY <1>0, <1>3 DEF FailPass, Pass
  <2>2. CallKnows'
    BY <1>0, <2>1 DEF StatusInv, CallKnows
  <2>3. Quiet' => QuietKnows'
    BY <1>0, <1>3, <2>1 DEF StatusInv, Quiet, QuietKnows, Fresh, OutcomeTrue, Installing
  <2> QED BY <2>2, <2>3 DEF StatusInv
<1> QED BY <1>0, <1>1, <1>2, <1>3 DEF updateWatchLabel

LEMMA StatusDeploy ==
  ASSUME TypeOK, StatusInv, DeployController
  PROVE  StatusInv'
<1>0. /\ UNCHANGED <<esc, cm, esmBad, events, queued>>
      /\ pass.pc = "deploy" /\ pass \in Pass
      /\ pass.cm.data \in Data
  BY DEF DeployController, world, TypeOK, Pass, ConfigMap
<1>1. /\ pass'.esc = pass.esc /\ pass'.gen = pass.gen
      /\ \/ BundleOutcome = "missing" /\ pass'.pc = "status" /\ pass'.outcome = "notFound"
         \/ /\ BundleOutcome \in {"invalid", "noKey"}
            /\ pass'.pc = "status" /\ pass'.outcome = "user"
         \/ BundleOutcome \notin {"missing", "invalid", "noKey"} /\ pass'.pc = "finish"
  BY <1>0 DEF DeployController, FailPass, Pass
<1>2. (now' => announced') /\ (announced => announced')
      /\ (BundleOutcome = "invalid" => announced')
  BY DEF DeployController, recordTrustedCABundleValidationEvent, StatusInv, CallKnows, TypeOK
<1>3. CallKnows'
  BY <1>0, <1>1, <1>2 DEF StatusInv, CallKnows
<1>4. ASSUME Quiet' PROVE QuietKnows'
  <2>1. Quiet /\ QuietKnows
    BY <1>0, <1>4 DEF Quiet, StatusInv
  <2>2. Fresh' /\ Validated' /\ Certified'
    BY <1>0, <1>1, <2>1 DEF QuietKnows, Fresh, Validated, Certified, Installing
  <2>3. CASE esc.config # "bundle"
    <3>1. BundleOutcome = "none"
      BY <2>1, <2>3, <1>0 DEF BundleOutcome, QuietKnows, Fresh
    <3>2. DeployedAsAsked'
      BY <1>0, <2>3, <3>1 DEF DeployController, DeployedAsAsked
    <3> QED BY <1>0, <1>1, <2>2, <2>3, <3>1, <3>2 DEF QuietKnows, BundleWatched
  <2>4. CASE esc.config = "bundle" /\ ~pass.cm.exists
    <3>1. BundleOutcome = "missing"
      BY <2>1, <2>4, <1>0 DEF BundleOutcome, QuietKnows, Fresh
    <3> QED BY <1>0, <1>1, <2>2, <2>4, <3>1 DEF QuietKnows, OutcomeTrue, Installing
  <2>5. CASE esc.config = "bundle" /\ pass.cm.exists
    <3>1. BundleOutcome = cm.data /\ cm.exists /\ cm.labelled /\ cm.data \in Data
      BY <1>0, <2>1, <2>5 DEF BundleOutcome, QuietKnows, Fresh
    <3>2. BundleOutcome \in {"valid", "cno"} => DeployedAsAsked'
      BY <1>0, <2>5, <3>1 DEF DeployController, DeployedAsAsked
    <3> QED
      BY <1>0, <1>1, <1>2, <2>2, <2>5, <3>1, <3>2
      DEF QuietKnows, OutcomeTrue, BundleWatched, BundleUsable, Installing, Data
  <2> QED BY <2>3, <2>4, <2>5
<1> QED BY <1>3, <1>4 DEF StatusInv

LEMMA StatusFinish ==
  ASSUME TypeOK, StatusInv, FinishInstall
  PROVE  StatusInv'
<1>0. /\ UNCHANGED <<cm, esmBad, announced, deployed, events, queued>> /\ now' = FALSE
      /\ pass.pc = "finish" /\ pass \in Pass /\ esc \in ESC /\ pass.esc \in ESC
  BY PassFields DEF FinishInstall, world, TypeOK
<1>1. /\ esc'.uid = esc.uid /\ esc'.phase = esc.phase /\ esc'.config = esc.config
      /\ esc'.gen = esc.gen /\ esc'.status = esc.status
  BY <1>0 DEF FinishInstall, ESC
<1>2. /\ pass'.pc = "status" /\ pass'.gen = pass.gen /\ pass'.outcome = "ok"
      /\ pass'.esc = pass.esc \/ pass'.esc = esc'
  BY <1>0 DEF FinishInstall, Pass
<1>3. CallKnows'
  BY <1>0, <1>1, <1>2 DEF StatusInv, CallKnows
<1>4. Quiet' => QuietKnows'
  BY <1>0, <1>1, <1>2 DEF StatusInv, Quiet, QuietKnows, Fresh, Validated, Certified,
     OutcomeTrue, BundleWatched, BundleUsable, DeployedAsAsked, Installing
<1> QED BY <1>3, <1>4 DEF StatusInv

\* Conditions that are not written are those that the ESC has, or skipped says so.
LEMMA StatusUpdate ==
  ASSUME TypeOK, StatusInv, UpdateStatus
  PROVE  StatusInv'
<1> DEFINE conditions == [outcome |-> pass.outcome, gen |-> pass.gen]
<1>0. /\ UNCHANGED <<cm, esmBad, now, deployed, events>>
      /\ pass.pc = "status" /\ pass \in Pass /\ esc \in ESC /\ Idle.pc = "idle"
  BY DEF UpdateStatus, world, TypeOK, Idle
<1>1. CASE ReturnError /\ UNCHANGED announced
  BY <1>0, <1>1, StatusRetried
<1>2. CASE /\ pass' = Idle /\ queued' = (queued \/ RequeuesAfter(pass.outcome))
           /\ \/ skipped' = (esc.status # conditions) /\ UNCHANGED <<esc, announced>>
              \/ /\ esc' = [esc EXCEPT !.status = conditions]
                 /\ announced' = (announced /\ pass.outcome # "ok")
  <2>1. /\ esc'.uid = esc.uid /\ esc'.phase = esc.phase /\ esc'.config = esc.config
        /\ esc'.gen = esc.gen
        /\ skipped' \/ esc'.status = conditions
    BY <1>0, <1>2 DEF ESC
  <2>2. (now => announced') /\ (pass.outcome # "ok" => announced' = announced)
    BY <1>0, <1>2 DEF StatusInv, CallKnows, TypeOK
  <2>3. CallKnows'
    BY <1>0, <1>2, <2>2 DEF StatusInv, CallKnows
  <2>4. ASSUME Quiet' PROVE QuietKnows'
    <3>1. Quiet /\ QuietKnows
      BY <1>0, <1>2, <2>4 DEF Quiet, StatusInv, TypeOK
    <3>3. ASSUME ~skipped'
          PROVE  esc'.status.gen = esc'.gen /\ esc'.status.outcome = pass.outcome
      BY <1>0, <2>1, <3>1, <3>3 DEF QuietKnows, Fresh
    <3>4. OutcomeTrue(pass.outcome) /\ pass'.pc = "idle"
      BY <1>0, <1>2, <3>1 DEF QuietKnows
    <3>5. ASSUME ~skipped' PROVE OutcomeTrue(esc.status.outcome)'
      BY <1>0, <2>1, <2>2, <3>3, <3>4, <3>5
      DEF OutcomeTrue, Validated, Certified, BundleWatched, BundleUsable, DeployedAsAsked
    <3> QED BY <3>3, <3>4, <3>5 DEF QuietKnows, Installing
  <2> QED BY <2>3, <2>4 DEF StatusInv
<1> QED BY <1>1, <1>2 DEF UpdateStatus

LEMMA StatusFaults ==
  ASSUME TypeOK, StatusInv, FailStep \/ Restart
  PROVE  StatusInv'
<1>1. CASE Restart
  <2>1. UNCHANGED announced /\ now' = FALSE
    BY <1>1 DEF Restart
  <2> QED BY <1>1, <2>1, StatusRetried
<1>2. CASE FailStep
  <2>0. UNCHANGED <<esc, cm, esmBad, now, announced, events>> /\ pass \in Pass
    BY <1>2 DEF FailStep, world, TypeOK
  <2>1. CASE ReturnError
    BY <2>0, <2>1, StatusRetried
  <2>2. CASE /\ pass.pc \in Installing /\ UNCHANGED queued
             /\ \E o \in {"retry", "fatal"} : pass' = FailPass(o)
    <3>1. /\ pass.pc # "idle" /\ pass'.esc = pass.esc /\ pass'.gen = pass.gen
          /\ pass'.pc = "status" /\ pass'.outcome \in {"retry", "fatal"}
      BY <2>0, <2>2 DEF FailPass, Pass, Installing
    <3>2. CallKnows'
      BY <2>0, <3>1 DEF StatusInv, CallKnows
    <3>3. Quiet' => QuietKnows'
      BY <2>0, <2>2, <3>1 DEF StatusInv, Quiet, QuietKnows, Fresh, OutcomeTrue, Installing
    <3> QED BY <3>2, <3>3 DEF StatusInv
  <2> QED BY <1>2, <2>1, <2>2 DEF FailStep
<1> QED BY <1>1, <1>2

LEMMA StatusStep ==
  TypeOK /\ ViewsFollow /\ StatusInv /\ [Next]_vars => StatusInv'
<1> SUFFICES ASSUME TypeOK, ViewsFollow, StatusInv, [Next]_vars
             PROVE  StatusInv'
  OBVIOUS
<1> QED
  BY StatusESC, StatusOthers, StatusConfigMap, StatusReconcile, StatusRemove, StatusAdd,
     StatusRefetch, StatusValidate, StatusInstall, StatusFetch, StatusLabel, StatusDeploy,
     StatusFinish, StatusUpdate, StatusFaults, Zenon DEF Next, PassStep

\* Reconcile stops retrying when the configuration is wrong and counts on the watches. When
\* it has settled, the status is of the current generation and true and a Ready ESC has its
\* Deployment, for all histories of edits, deletions, failures, restarts and reads of caches
\* that lag, whatever was done to the ConfigMap between the controller's reads and its label
\* patch, unless the last call took the conditions of a stale copy for those of the ESC.
THEOREM StatusTruth == Spec => []StatusTruthful
<1>1. StatusInv => StatusTruthful
  BY DEF StatusInv, Quiet, QuietKnows, OutcomeTrue, Validated, Certified, BundleWatched,
     StatusTruthful, Settled
<1> QED
  BY <1>1, StatusInit, StatusStep, ViewsInit, ViewsStep, TypeInit, TypeStep, PTL DEF Spec

\* The once gate swallows no first warning: an ESC that has settled as misconfigured because
\* of unusable PEM in its bundle had a warning since it was last Ready, with the exception
\* that StatusTruth makes.
THEOREM WarningRecorded == Spec => []BundleProblemAnnounced
<1>1. StatusInv => BundleProblemAnnounced
  BY DEF StatusInv, Quiet, QuietKnows, OutcomeTrue, BundleProblemAnnounced, Settled
<1> QED
  BY <1>1, StatusInit, StatusStep, ViewsInit, ViewsStep, TypeInit, TypeStep, PTL DEF Spec

=============================================================================
