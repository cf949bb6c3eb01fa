------------------------ MODULE ManagerMirror_proofs -------------------------
(***************************************************************************)
(* Proofs about ManagerMirror, for every set of condition types and values *)
(* and all bounds, with informers that lag.                                *)
(***************************************************************************)
EXTENDS ManagerMirror, TLAPS

-----------------------------------------------------------------------------
(* Type correctness.                                                         *)

LEMMA NewESMType ==
  ASSUME NEW u \in Nat PROVE NewESM(u) \in ESM
BY DEF NewESM, ESM, NoMirror, Mirror

LEMMA IdleType == Idle \in Pass
BY NewESMType DEF Idle, Pass

LEMMA ESMFields ==
  ASSUME NEW e \in ESM
  PROVE  /\ \A x \in BOOLEAN : [e EXCEPT !.finalizer = x] \in ESM
         /\ \A x \in {"live", "deleting", "gone"} : [e EXCEPT !.phase = x] \in ESM
         /\ \A x \in Mirror : [e EXCEPT !.mirror = x] \in ESM
         /\ \A x \in {"live", "deleting", "gone"} :
              [e EXCEPT !.finalizer = FALSE, !.phase = x] \in ESM
BY Zenon DEF ESM

LEMMA StoreESMType ==
  ASSUME TypeOK, NEW new \in ESM, StoreESM(new)
  PROVE  esm' \in ESM /\ events' \subseteq {"esm", "esc"}
BY DEF StoreESM, TypeOK

LEMMA StoreESCType ==
  ASSUME TypeOK, NEW new \in ESC, StoreESC(new)
  PROVE  esc' \in ESC /\ events' \subseteq {"esm", "esc"}
BY DEF StoreESC, TypeOK

LEMMA ESCValues == NoESC \in ESC /\ NewESC \in ESC
BY DEF NoESC, NewESC, ESC

\* A condition is set in place or appended.
LEMMA SetConditionType ==
  ASSUME NEW e \in ESC, NEW c \in Condition, NEW t
  PROVE  [e EXCEPT !.conds = IF t \in TypesOf(@)
                             THEN [i \in DOMAIN @ |-> IF @[i].type = t THEN c ELSE @[i]]
                             ELSE Append(@, c)] \in ESC
<1> DEFINE s == e.conds
           set == [i \in DOMAIN s |-> IF s[i].type = t THEN c ELSE s[i]]
           new == IF t \in TypesOf(s) THEN set ELSE Append(s, c)
<1>1. s \in Seq(Condition)
  BY DEF ESC
<1>2. set \in Seq(Condition)
  BY <1>1
<1>3. Append(s, c) \in Seq(Condition)
  BY <1>1
<1>4. new \in Seq(Condition)
  BY <1>2, <1>3
<1> HIDE DEF new
<1>5. [e EXCEPT !.conds = new] \in ESC
  BY <1>4, Zenon DEF ESC
<1> QED
  BY <1>5 DEF new

LEMMA PassFields ==
  ASSUME NEW p \in Pass
  PROVE  /\ p.esm \in ESM
         /\ \A x \in {"remove", "finalizer", "refetch", "read", "status"} :
              [p EXCEPT !.pc = x] \in Pass
         /\ \A x \in {"remove", "finalizer", "refetch", "read", "status"}, e \in ESM :
              [pc |-> x, esm |-> e] \in Pass
BY Zenon DEF Pass, Working

\* What is copied are values of the ESC's conditions or what the mirror had.
LEMMA MirroredType ==
  ASSUME NEW m \in Mirror, NEW s \in Seq(Condition), s # <<>>
  PROVE  Mirrored(m, s) \in Mirror
<1> DEFINE kept == TypesOf(s) \ LostType(m, s)
           value(t) == s[CHOOSE i \in DOMAIN s : s[i].type = t].value
<1>1. \A i \in DOMAIN s : s[i] \in Condition
  OBVIOUS
<1>2. Len(s) \in DOMAIN s
  OBVIOUS
<1>3. s[Len(s)].gen \in Nat /\ m.gen \in Nat
  BY <1>1, <1>2 DEF Condition, Mirror
<1>4. \A t \in kept : value(t) \in Values
  <2> TAKE t \in kept
  <2>1. \E i \in DOMAIN s : s[i].type = t
    BY DEF TypesOf
  <2>2. (CHOOSE i \in DOMAIN s : s[i].type = t) \in DOMAIN s
    BY <2>1
  <2> QED
    BY <1>1, <2>2 DEF Condition
<1>5. [t \in Types |-> IF t \in kept THEN value(t) ELSE m.conds[t]]
        \in [Types -> Values \cup {None}]
  BY <1>4, Zenon DEF Mirror
<1>6. (IF s[Len(s)].type \in kept THEN s[Len(s)].gen ELSE m.gen) \in Nat
  BY <1>3
<1> QED
  BY <1>5, <1>6, Zenon DEF Mirrored, Mirror

LEMMA TypeInit == Init => TypeOK
<1> SUFFICES ASSUME Init PROVE TypeOK
  OBVIOUS
<1>1. NewESM(1) \in ESM
  BY NewESMType
<1> QED
  BY <1>1, ESCValues, IdleType DEF Init, TypeOK

LEMMA ReturnErrorType ==
  ASSUME ReturnError PROVE pass' \in Pass /\ queued' \in BOOLEAN
BY IdleType DEF ReturnError

\* What users and the other controllers do.
LEMMA TypeOutside ==
  ASSUME TypeOK, SetStatusCondition \/ EditESC \/ EditESM
  PROVE  TypeOK'
<1> USE DEF TypeOK
<1>0. changes' \in Nat /\ failures' = failures /\ UNCHANGED <<esmView, escView, queued, pass>>
  BY DEF SetStatusCondition, EditESC, EditESM, Change
<1>1. CASE SetStatusCondition
  <2>1. PICK t \in Types, v \in Values :
          LET c == [type |-> t, value |-> v, gen |-> esc.gen] IN
          StoreESC([esc EXCEPT !.conds =
            IF t \in TypesOf(@)
            THEN [i \in DOMAIN @ |-> IF @[i].type = t THEN c ELSE @[i]]
            ELSE Append(@, c)])
    BY <1>1 DEF SetStatusCondition
  <2>2. [type |-> t, value |-> v, gen |-> esc.gen] \in Condition
    BY DEF Condition, ESC
  <2>3. esc' \in ESC /\ events' \subseteq {"esm", "esc"}
    BY <2>1, <2>2, SetConditionType, StoreESCType
  <2> QED BY <1>0, <1>1, <2>3 DEF SetStatusCondition
<1>2. CASE EditESC
  <2>1. [esc EXCEPT !.gen = @ + 1] \in ESC
    BY DEF ESC
  <2>2. esc' \in ESC /\ events' \subseteq {"esm", "esc"}
    BY <1>2, <2>1, ESCValues, StoreESCType DEF EditESC
  <2> QED BY <1>0, <1>2, <2>2 DEF EditESC
<1>3. CASE EditESM
  <2>1. [esm EXCEPT !.phase = IF esm.finalizer THEN "deleting" ELSE "gone"] \in ESM
    BY ESMFields
  <2>2. NewESM(esm.uid + 1) \in ESM
    BY NewESMType DEF ESM
  <2>3. esm' \in ESM /\ events' \subseteq {"esm", "esc"}
    BY <1>3, <2>1, <2>2, StoreESMType DEF EditESM
  <2> QED BY <1>0, <1>3, <2>3 DEF EditESM
<1> QED BY <1>1, <1>2, <1>3

\* The informers, the start of a call, failures and restarts.
LEMMA TypeDelivery ==
  ASSUME TypeOK, SyncESM \/ SyncESC \/ Reconcile \/ FailStep \/ Restart
  PROVE  TypeOK'
<1> USE DEF TypeOK
<1>1. CASE SyncESM \/ SyncESC
  BY <1>1 DEF SyncESM, SyncESC
<1>2. CASE Reconcile
  <2>1. pass' \in Pass /\ queued' \in BOOLEAN
    BY <1>2, ReturnErrorType, PassFields DEF Reconcile
  <2> QED BY <1>2, <2>1 DEF Reconcile
<1>3. CASE FailStep
  BY <1>3, ReturnErrorType DEF FailStep
<1>4. CASE Restart
  <2>1. NewESM(esm.uid + 1) \in ESM
    BY NewESMType DEF ESM
  <2> QED BY <1>4, <2>1, IdleType DEF Restart
<1> QED BY <1>1, <1>2, <1>3, <1>4

\* The steps of a call.
LEMMA TypePass ==
  ASSUME TypeOK, PassStep
  PROVE  TypeOK'
<1> USE DEF TypeOK
<1>0. pass.esm \in ESM
  BY PassFields
<1>1. CASE RemoveFinalizer
  <2>1. [esm EXCEPT !.finalizer = FALSE, !.phase = "gone"] \in ESM
    BY ESMFields
  <2>2. esm' \in ESM /\ events' \subseteq {"esm", "esc"} /\ pass' \in Pass /\ queued' \in BOOLEAN
    BY <1>1, <2>1, StoreESMType, ReturnErrorType, IdleType DEF RemoveFinalizer
  <2> QED BY <1>1, <2>2 DEF RemoveFinalizer
<1>2. CASE AddFinalizer
  <2>1. [esm EXCEPT !.finalizer = TRUE] \in ESM
    BY ESMFields
  <2>2. esm' \in ESM /\ events' \subseteq {"esm", "esc"} /\ pass' \in Pass /\ queued' \in BOOLEAN
    BY <1>2, <2>1, StoreESMType, ReturnErrorType, PassFields DEF AddFinalizer
  <2> QED BY <1>2, <2>2 DEF AddFinalizer
<1>3. CASE RefetchESM
  <2>1. pass' \in Pass /\ queued' \in BOOLEAN
    BY <1>3, ReturnErrorType, PassFields DEF RefetchESM
  <2> QED BY <1>3, <2>1 DEF RefetchESM
<1>4. CASE processReconcileRequest
  <2> DEFINE m == Mirrored(pass.esm.mirror, escView.conds)
             q == [pass EXCEPT !.pc = "status", !.esm.mirror = m]
  <2>1. pass' = q \/ pass' = Idle
    BY <1>4 DEF processReconcileRequest
  <2>2. CASE StatusUpdated(pass.esm.mirror, escView.conds) /\ pass' = q
    <3>1. escView.conds \in Seq(Condition) /\ escView.conds # <<>>
      BY <2>2 DEF StatusUpdated, ESC
    <3>2. m \in Mirror
      BY <1>0, <3>1, MirroredType DEF ESM
    <3> HIDE DEF m
    <3>3. [pass.esm EXCEPT !.mirror = m] \in ESM
      BY <1>0, <3>2, ESMFields
    <3>4. q \in Pass
      BY <3>3 DEF Pass, Working
    <3> QED BY <1>4, <2>2, <3>4 DEF processReconcileRequest
  <2>3. CASE pass' = Idle
    BY <1>4, <2>3, IdleType DEF processReconcileRequest
  <2> QED BY <1>4, <2>2, <2>3 DEF processReconcileRequest
<1>5. CASE UpdateStatus
  <2>1. [esm EXCEPT !.mirror = pass.esm.mirror] \in ESM
    BY <1>0, ESMFields DEF ESM
  <2>2. esm' \in ESM /\ events' \subseteq {"esm", "esc"} /\ pass' \in Pass /\ queued' \in BOOLEAN
    BY <1>5, <2>1, StoreESMType, ReturnErrorType, IdleType DEF UpdateStatus
  <2> QED BY <1>5, <2>2 DEF UpdateStatus
<1> QED BY <1>1, <1>2, <1>3, <1>4, <1>5 DEF PassStep

LEMMA TypeStep == TypeOK /\ [Next]_vars => TypeOK'
<1>1. ASSUME TypeOK, UNCHANGED vars PROVE TypeOK'
  BY <1>1 DEF TypeOK, vars
<1> QED
  BY <1>1, TypeOutside, TypeDelivery, TypePass, Zenon DEF Next

\* The variables of the ESM controller have their types in every reachable state; in
\* particular what is copied from the ESC's conditions, through an entry that may be
\* detached, is a well-formed mirror.
THEOREM TypeCorrect == Spec => []TypeOK
BY TypeInit, TypeStep, PTL DEF Spec

-----------------------------------------------------------------------------
(* The finalizer protocol.                                                   *)

LEMMA FinalizerInit == Init => FinalizerInv
<1> SUFFICES ASSUME Init PROVE FinalizerInv
  OBVIOUS
<1>1. esmView = esm /\ pass.pc = "idle"
  BY DEF Init, Idle
<1>2. esm.uid = 1 /\ esm.phase = "live" /\ esm.finalizer = FALSE
  BY DEF Init, NewESM
<1> QED
  BY <1>1, <1>2 DEF FinalizerInv, NotAhead, Held, Working

\* A step that keeps uid, phase and finalizer of the ESM, and the cached copy or refreshes it,
\* and whose call goes on only from the finalizer to the work.
LEMMA WithinPass ==
  ASSUME TypeOK, FinalizerInv,
         esm'.uid = esm.uid, esm'.phase = esm.phase, esm'.finalizer = esm.finalizer,
         esmView' \in {esmView, esm},
         \/ pass'.pc = "idle"
         \/ pass' = pass
         \/ /\ pass'.pc = "remove" /\ pass'.esm = esmView /\ esmView.phase = "deleting"
         \/ /\ pass'.pc = "finalizer" /\ pass'.esm = esmView /\ esmView.phase = "live"
         \/ /\ pass'.pc \in Working
            /\ \/ pass.pc \in {"refetch"} \cup Working
               \/ pass.pc = "finalizer" /\ pass.esm.finalizer
            /\ \/ pass'.esm = esmView
               \/ pass'.esm.uid = pass.esm.uid /\ pass'.esm.phase = pass.esm.phase
  PROVE  FinalizerInv'
<1>1. esm \in ESM /\ esmView \in ESM /\ pass.esm \in ESM /\ esm.uid \in Nat
  BY PassFields DEF TypeOK, ESM
<1>2. NotAhead(esmView)'
  BY <1>1 DEF FinalizerInv, NotAhead, ESM
<1>3. (esmView'.phase = "live" /\ esmView'.finalizer) => Held'
  BY <1>1 DEF FinalizerInv, Held, ESM
<1>4. (esm'.phase = "gone" => ~esm'.finalizer) /\ (Held => Held')
  BY DEF FinalizerInv, Held
<1>5. pass'.pc # "idle" => NotAhead(pass.esm)'
  BY <1>1 DEF FinalizerInv, NotAhead, ESM, Working
<1>6. pass'.pc = "remove" => pass'.esm.phase = "deleting"
  BY DEF FinalizerInv, Working
<1>7. (pass'.pc = "finalizer" /\ pass'.esm.finalizer) => Held'
  BY <1>4 DEF FinalizerInv, Working
<1>8. pass'.pc \in {"refetch"} \cup Working => Held'
  BY <1>4 DEF FinalizerInv, Working
<1> QED
  BY <1>2, <1>3, <1>4, <1>5, <1>6, <1>7, <1>8 DEF FinalizerInv, NotAhead

\* Deletion and creation by users, and the creation at the start, meet no call that could
\* take the ESM for another one.
LEMMA OutsideSteps ==
  ASSUME TypeOK, FinalizerInv, EditESM \/ Restart
  PROVE  FinalizerInv'
<1> USE DEF FinalizerInv, NotAhead, Held, Working
<1>0. esm \in ESM /\ esmView \in ESM /\ pass.esm \in ESM /\ esm.uid \in Nat
  BY PassFields DEF TypeOK, ESM
<1>1. CASE EditESM
  <2>0. esmView' = esmView /\ pass' = pass
    BY <1>1 DEF EditESM
  <2>1. CASE esm' = esm
    BY <2>0, <2>1
  <2>2. CASE /\ esm.phase = "live"
             /\ esm' = [esm EXCEPT !.phase = IF esm.finalizer THEN "deleting" ELSE "gone"]
    <3>1. /\ esm'.uid = esm.uid /\ esm'.finalizer = esm.finalizer
          /\ esm'.phase = IF esm.finalizer THEN "deleting" ELSE "gone"
      BY <1>0, <2>2 DEF ESM
    <3> QED BY <1>0, <2>0, <2>2, <3>1 DEF ESM
  <2>3. CASE esm.phase = "gone" /\ esm' = NewESM(esm.uid + 1)
    <3>1. esm'.uid = esm.uid + 1 /\ esm'.phase = "live" /\ ~esm'.finalizer
      BY <2>3 DEF NewESM
    <3> QED BY <1>0, <2>0, <2>3, <3>1 DEF ESM
  <2> QED BY <1>1, <2>1, <2>2, <2>3 DEF EditESM, StoreESM
<1>2. CASE Restart
  <2>1. pass'.pc = "idle" /\ esmView' = esm'
    BY <1>2 DEF Restart, Idle
  <2>2. esm' = NewESM(esm.uid + 1) \/ (esm' = esm /\ esm.phase # "gone")
    BY <1>2 DEF Restart
  <2>3. /\ esm'.uid \in Nat
        /\ esm'.phase = "gone" => ~esm'.finalizer
        /\ esm'.phase \in {"live", "deleting", "gone"}
    BY <1>0, <2>2 DEF NewESM, ESM
  <2> QED BY <2>1, <2>3
<1> QED BY <1>1, <1>2

\* The finalizer is removed from an ESM that the call has seen deleting, and added before
\* the call goes on.
LEMMA ProtocolSteps ==
  ASSUME TypeOK, FinalizerInv, RemoveFinalizer \/ AddFinalizer
  PROVE  FinalizerInv'
<1>0. esm \in ESM /\ esmView \in ESM /\ pass \in Pass /\ pass.esm \in ESM /\ esm.uid \in Nat
  BY PassFields DEF TypeOK, ESM
<1>a. Idle.pc = "idle"
  BY DEF Idle
<1>1. CASE RemoveFinalizer
  <2>1. esmView' = esmView /\ pass.pc = "remove" /\ pass'.pc = "idle"
    BY <1>1, <1>a DEF RemoveFinalizer, ReturnError
  <2>2. CASE esm' = esm
    BY <2>1, <2>2, WithinPass
  <2>3. CASE CanUpdate /\ esm' = [esm EXCEPT !.finalizer = FALSE, !.phase = "gone"]
    <3>1. esm'.uid = esm.uid /\ esm'.phase = "gone" /\ ~esm'.finalizer
      BY <1>0, <2>3 DEF ESM
    <3>2. esmView = esm /\ esm.phase = "deleting"
      BY <1>0, <2>1, <2>3 DEF CanUpdate, FinalizerInv, NotAhead, ESM
    <3> QED BY <1>0, <2>1, <3>1, <3>2 DEF FinalizerInv, NotAhead, Held, Working
  <2> QED BY <1>1, <2>2, <2>3 DEF RemoveFinalizer, StoreESM
<1>2. CASE AddFinalizer
  <2>1. esmView' = esmView /\ pass.pc = "finalizer"
    BY <1>2 DEF AddFinalizer
  <2>2. CASE pass.esm.finalizer /\ pass' = [pass EXCEPT !.pc = "read"] /\ esm' = esm
    <3>1. pass'.pc \in Working /\ pass'.esm = pass.esm
      BY <1>0, <2>2 DEF Pass, Working
    <3> QED BY <2>1, <2>2, <3>1, WithinPass
  <2>3. CASE /\ CanUpdate /\ esm.phase = "live"
             /\ esm' = [esm EXCEPT !.finalizer = TRUE]
             /\ pass' = [pass EXCEPT !.pc = "refetch"]
    <3>1. esm'.uid = esm.uid /\ esm'.phase = "live" /\ esm'.finalizer
      BY <1>0, <2>3 DEF ESM
    <3>2. pass'.pc = "refetch" /\ pass'.esm = pass.esm
      BY <1>0, <2>3 DEF Pass
    <3>3. esmView = esm
      BY <2>3 DEF CanUpdate
    <3> QED BY <1>0, <2>1, <2>3, <3>1, <3>2, <3>3 DEF FinalizerInv, NotAhead, Held, Working
  <2>4. CASE ReturnError /\ esm' = esm
    BY <1>a, <2>1, <2>4, WithinPass DEF ReturnError
  <2> QED
    <3>1. \/ pass.esm.finalizer /\ pass' = [pass EXCEPT !.pc = "read"] /\ esm' = esm
          \/ /\ CanUpdate /\ esm.phase = "live"
             /\ esm' = [esm EXCEPT !.finalizer = TRUE]
             /\ pass' = [pass EXCEPT !.pc = "refetch"]
          \/ ReturnError /\ esm' = esm
      BY <1>2 DEF AddFinalizer, StoreESM
    <3> QED BY <2>2, <2>3, <2>4, <3>1
<1> QED BY <1>1, <1>2

\* The other steps keep phase and finalizer.
LEMMA OtherSteps ==
  ASSUME TypeOK, FinalizerInv,
         \/ SetStatusCondition \/ EditESC \/ SyncESM \/ SyncESC \/ UNCHANGED vars
         \/ Reconcile \/ RefetchESM \/ processReconcileRequest \/ UpdateStatus \/ FailStep
  PROVE  /\ esm'.uid = esm.uid /\ esm'.phase = esm.phase /\ esm'.finalizer = esm.finalizer
         /\ FinalizerInv'
<1>0. esm \in ESM /\ esmView \in ESM /\ pass \in Pass /\ pass.esm \in ESM
  BY PassFields DEF TypeOK
<1>a. Idle.pc = "idle"
  BY DEF Idle
<1>1. CASE SetStatusCondition \/ EditESC \/ SyncESM \/ SyncESC \/ UNCHANGED vars
  <2>1. esm' = esm /\ pass' = pass /\ esmView' \in {esmView, esm}
    BY <1>1 DEF SetStatusCondition, EditESC, SyncESM, SyncESC, vars
  <2> QED BY <2>1, WithinPass
<1>2. CASE Reconcile
  <2>1. esm' = esm /\ esmView' = esmView
    BY <1>2 DEF Reconcile
  <2>2. \/ pass'.pc = "idle"
        \/ pass'.pc = "remove" /\ pass'.esm = esmView /\ esmView.phase = "deleting"
        \/ pass'.pc = "finalizer" /\ pass'.esm = esmView /\ esmView.phase = "live"
    BY <1>0, <1>2, <1>a DEF Reconcile, ReturnError, ESM
  <2> QED BY <2>1, <2>2, WithinPass
<1>3. CASE RefetchESM
  <2>1. esm' = esm /\ esmView' = esmView /\ pass.pc = "refetch"
    BY <1>3 DEF RefetchESM
  <2>2. pass'.pc = "idle" \/ (pass'.pc = "read" /\ pass'.esm = esmView)
    BY <1>3, <1>a DEF RefetchESM, ReturnError
  <2> QED BY <2>1, <2>2, WithinPass DEF Working
<1>4. CASE processReconcileRequest
  <2> DEFINE m == Mirrored(pass.esm.mirror, escView.conds)
  <2>1. esm' = esm /\ esmView' = esmView /\ pass.pc = "read"
    BY <1>4 DEF processReconcileRequest
  <2>2. pass' = Idle \/ pass' = [pass EXCEPT !.pc = "status", !.esm.mirror = m]
    BY <1>4 DEF processReconcileRequest
  <2> HIDE DEF m
  <2>3. CASE pass' = Idle
    BY <1>a, <2>1, <2>3, WithinPass
  <2>4. CASE pass' = [pass EXCEPT !.pc = "status", !.esm.mirror = m]
    <3>1. pass = [pc |-> pass.pc, esm |-> pass.esm]
      BY <1>0 DEF Pass
    <3>2. pass' = [pc |-> "status", esm |-> [pass.esm EXCEPT !.mirror = m]]
      BY <2>4, <3>1
    <3>3. pass'.pc = "status" /\ pass'.esm = [pass.esm EXCEPT !.mirror = m]
      BY <3>2
    <3>4. pass'.esm.uid = pass.esm.uid /\ pass'.esm.phase = pass.esm.phase
      BY <1>0, <3>3 DEF ESM
    <3> QED BY <2>1, <3>3, <3>4, WithinPass DEF Working
  <2> QED BY <2>2, <2>3, <2>4
<1>5. CASE UpdateStatus
  <2>1. esmView' = esmView /\ pass'.pc = "idle"
    BY <1>5, <1>a DEF UpdateStatus, ReturnError
  <2>2. esm' = esm \/ esm' = [esm EXCEPT !.mirror = pass.esm.mirror]
    BY <1>5 DEF UpdateStatus, StoreESM
  <2>3. esm'.uid = esm.uid /\ esm'.phase = esm.phase /\ esm'.finalizer = esm.finalizer
    BY <1>0, <2>2 DEF ESM
  <2> QED BY <2>1, <2>3, WithinPass
<1>6. CASE FailStep
  <2>1. esm' = esm /\ esmView' = esmView /\ pass'.pc = "idle"
    BY <1>6, <1>a DEF FailStep, ReturnError
  <2> QED BY <2>1, WithinPass
<1> QED BY <1>1, <1>2, <1>3, <1>4, <1>5, <1>6

LEMMA FinalizerStep == TypeOK /\ FinalizerInv /\ [Next]_vars => FinalizerInv'
BY OutsideSteps, ProtocolSteps, OtherSteps, Zenon DEF Next, PassStep

-----------------------------------------------------------------------------
(* GuardedObject is implemented.                                             *)

\* The stage, case by case, before and after a step.
LEMMA StageCases ==
  ASSUME esm \in ESM, esm' \in ESM
  PROVE  /\ esm.phase = "gone" => Stage = "absent"
         /\ esm.phase = "live" /\ esm.finalizer => Stage = "held"
         /\ esm.phase = "live" /\ ~esm.finalizer => Stage = "new"
         /\ esm.phase = "deleting" /\ esm.finalizer => Stage = "closing"
         /\ esm.phase = "deleting" /\ ~esm.finalizer => Stage = "released"
         /\ esm'.phase = "gone" => Stage' = "absent"
         /\ esm'.phase = "live" /\ esm'.finalizer => Stage' = "held"
         /\ esm'.phase = "live" /\ ~esm'.finalizer => Stage' = "new"
         /\ esm'.phase = "deleting" /\ esm'.finalizer => Stage' = "closing"
BY DEF Stage, ESM

\* What a step is to GuardedObject.
GuardedStep == [Guarded!Next]_(Guarded!vars)

\* A step that keeps phase and finalizer begins or ends the work, or does neither.
LEMMA SameStage ==
  ASSUME TypeOK, TypeOK', FinalizerInv',
         esm'.phase = esm.phase, esm'.finalizer = esm.finalizer
  PROVE  GuardedStep
<1>1. esm \in ESM /\ esm' \in ESM
  BY DEF TypeOK
<1>2. Stage' = Stage
  BY DEF Stage
<1>3. CASE (pass.pc \in Working) = (pass'.pc \in Working)
  BY <1>2, <1>3 DEF GuardedStep, Guarded!vars, Working
<1>4. CASE pass.pc \notin Working /\ pass'.pc \in Working
  <2>1. esm'.finalizer /\ esm'.phase # "gone"
    BY <1>4 DEF FinalizerInv, Held
  <2>2. Stage \in {"held", "closing"}
    BY <1>1, <2>1, StageCases DEF ESM
  <2> QED
    BY <1>2, <1>4, <2>2 DEF GuardedStep, Guarded!Next, Guarded!Begin, Guarded!Kept, Working
<1>5. CASE pass.pc \in Working /\ pass'.pc \notin Working
  BY <1>2, <1>5 DEF GuardedStep, Guarded!Next, Guarded!End, Working
<1> QED BY <1>3, <1>4, <1>5

LEMMA GuardedEdit ==
  ASSUME TypeOK, TypeOK', FinalizerInv', EditESM
  PROVE  GuardedStep
<1>0. esm \in ESM /\ esm' \in ESM /\ pass' = pass
  BY DEF TypeOK, EditESM
<1>1. CASE esm' = esm
  BY <1>1, SameStage
<1>2. CASE /\ esm.phase = "live"
           /\ esm' = [esm EXCEPT !.phase = IF esm.finalizer THEN "deleting" ELSE "gone"]
  <2>1. \/ Stage = "new" /\ Stage' = "absent"
        \/ Stage = "held" /\ Stage' = "closing"
    BY <1>0, <1>2, StageCases DEF ESM
  <2> QED BY <1>0, <2>1 DEF GuardedStep, Guarded!Next, Guarded!Delete
<1>3. CASE esm.phase = "gone" /\ esm' = NewESM(esm.uid + 1)
  <2>1. Stage = "absent" /\ Stage' = "new"
    BY <1>0, <1>3, StageCases DEF NewESM
  <2> QED BY <1>0, <2>1 DEF GuardedStep, Guarded!Next, Guarded!Create
<1> QED BY <1>1, <1>2, <1>3 DEF EditESM, StoreESM

\* A restart ends the work; the one that creates the ESM anew finds no work to end.
LEMMA GuardedRestart ==
  ASSUME TypeOK, TypeOK', FinalizerInv, FinalizerInv', Restart
  PROVE  GuardedStep
<1>0. esm \in ESM /\ esm' \in ESM /\ pass'.pc = "idle"
  BY DEF TypeOK, Restart, Idle
<1>1. CASE esm.phase = "gone"
  <2>1. pass.pc \notin Working /\ pass'.pc \notin Working
    BY <1>0, <1>1 DEF FinalizerInv, Held, Working
  <2>2. Stage = "absent" /\ Stage' = "new"
    BY <1>0, <1>1, StageCases DEF Restart, NewESM
  <2> QED BY <2>1, <2>2 DEF GuardedStep, Guarded!Next, Guarded!Create
<1>2. CASE esm.phase # "gone"
  BY <1>2, SameStage DEF Restart
<1> QED BY <1>1, <1>2

LEMMA GuardedProtocol ==
  ASSUME TypeOK, TypeOK', FinalizerInv, FinalizerInv', RemoveFinalizer \/ AddFinalizer
  PROVE  GuardedStep
<1>0. esm \in ESM /\ esm' \in ESM /\ pass \in Pass /\ pass.esm \in ESM
  BY PassFields DEF TypeOK
<1>1. CASE esm' = esm
  BY <1>1, SameStage
<1>2. CASE RemoveFinalizer /\ esm' # esm
  <2>1. /\ pass.pc = "remove" /\ CanUpdate /\ pass'.pc = "idle"
        /\ esm' = [esm EXCEPT !.finalizer = FALSE, !.phase = "gone"]
    BY <1>2 DEF RemoveFinalizer, StoreESM, Idle
  <2>2. esm.phase = "deleting" /\ esm'.phase = "gone"
    BY <1>0, <2>1 DEF CanUpdate, ESM, FinalizerInv, NotAhead
  <2>3. pass.pc \notin Working /\ pass'.pc \notin Working
    BY <2>1 DEF Working
  <2>4. Stage \in {"closing", "released"} /\ Stage' = "absent"
    BY <1>0, <2>2, StageCases DEF ESM
  <2> QED BY <2>3, <2>4 DEF GuardedStep, Guarded!Next, Guarded!Release, Guarded!Remove
<1>3. CASE AddFinalizer /\ esm' # esm
  <2>1. /\ pass.pc = "finalizer" /\ esm.phase = "live"
        /\ esm' = [esm EXCEPT !.finalizer = TRUE]
        /\ pass' = [pass EXCEPT !.pc = "refetch"]
    BY <1>3 DEF AddFinalizer, StoreESM
  <2>2. esm'.finalizer /\ esm'.phase = "live"
    BY <1>0, <2>1 DEF ESM
  <2>3. pass.pc \notin Working /\ pass'.pc \notin Working
    BY <1>0, <2>1 DEF Working, Pass
  <2>4. Stage \in {"new", "held"} /\ Stage' = "held"
    BY <1>0, <2>1, <2>2, StageCases DEF ESM
  <2> QED BY <2>3, <2>4 DEF GuardedStep, Guarded!Next, Guarded!Hold, Guarded!vars
<1> QED BY <1>1, <1>2, <1>3

\* The ESM controller implements GuardedObject too: whatever its cached copies show and
\* whoever deletes and recreates the ESM, conditions are copied only while the finalizer
\* keeps it on the server, no deleting ESM gets the finalizer, and only a call that has
\* seen the deletion takes it away.
THEOREM FinalizerRefinement == Spec => FinalizerGuards
<1>1. Init => Guarded!Init
  BY DEF Init, NewESM, Idle, Guarded!Init, Stage, Working
<1>2. TypeOK /\ TypeOK' /\ FinalizerInv /\ FinalizerInv' /\ [Next]_vars
        => [Guarded!Next]_(Guarded!vars)
  <2>1. ASSUME TypeOK, TypeOK', FinalizerInv, FinalizerInv',
               \/ SetStatusCondition \/ EditESC \/ SyncESM \/ SyncESC \/ UNCHANGED vars
               \/ Reconcile \/ RefetchESM \/ processReconcileRequest \/ UpdateStatus \/ FailStep
        PROVE  GuardedStep
    BY <2>1, OtherSteps, SameStage
  <2> QED
    BY <2>1, GuardedEdit, GuardedRestart, GuardedProtocol, Zenon DEF Next, PassStep, GuardedStep
<1> QED
  BY <1>1, <1>2, TypeInit, TypeStep, FinalizerInit, FinalizerStep, PTL
  DEF Spec, FinalizerGuards, Guarded!Spec

-----------------------------------------------------------------------------
(* The mirror.                                                               *)

\* meta.SetStatusCondition keeps one condition of each type.
Distinct(conds) == \A i, j \in DOMAIN conds : conds[i].type = conds[j].type => i = j

Quiet == ~queued /\ events = {}

\* The cache shows what no event announces, and while nothing is announced or queued the pass
\* works on the ESM as it is; what it is about to write is then a change.
MirrorInv ==
  /\ Distinct(esc.conds) /\ Distinct(escView.conds)
  /\ "esc" \notin events => escView.exists = esc.exists /\ escView.conds = esc.conds
  /\ "esm" \notin events => esmView = esm
  /\ Quiet =>
       /\ pass.pc # "refetch"
       /\ pass.pc \in {"remove", "finalizer", "read"} => pass.esm = esm
       /\ pass.pc = "remove" => esm.phase # "live"
       /\ pass.pc = "status" => pass.esm.mirror # esm.mirror
       /\ pass.pc = "idle" /\ esm.phase = "live" /\ esc.exists => InStep

LEMMA SetConditionDistinct ==
  ASSUME NEW s \in Seq(Condition), NEW c \in Condition, Distinct(s)
  PROVE  Distinct(IF c.type \in TypesOf(s)
                  THEN [i \in DOMAIN s |-> IF s[i].type = c.type THEN c ELSE s[i]]
                  ELSE Append(s, c))
<1>1. CASE c.type \in TypesOf(s)
  <2> DEFINE new == [i \in DOMAIN s |-> IF s[i].type = c.type THEN c ELSE s[i]]
  <2>1. DOMAIN new = DOMAIN s /\ \A i \in DOMAIN s : new[i].type = s[i].type
    OBVIOUS
  <2> HIDE DEF new
  <2>2. Distinct(new)
    BY <2>1 DEF Distinct
  <2> QED BY <1>1, <2>2 DEF new
<1>2. CASE c.type \notin TypesOf(s)
  <2> DEFINE new == Append(s, c)
  <2>1. /\ Len(s) \in Nat /\ DOMAIN s = 1 .. Len(s) /\ DOMAIN new = 1 .. Len(s) + 1
        /\ \A i \in DOMAIN s : new[i] = s[i]
        /\ new[Len(s) + 1] = c
    OBVIOUS
  <2>2. \A i \in DOMAIN s : s[i].type # c.type
    BY <1>2 DEF TypesOf
  <2> HIDE DEF new
  <2>3. Distinct(new)
    BY <2>1, <2>2 DEF Distinct
  <2> QED BY <1>2, <2>3 DEF new
<1> QED BY <1>1, <1>2

\* A mirror that needs an update is changed by it.
LEMMA MirroredDiffers ==
  ASSUME NEW m \in Mirror, NEW s \in Seq(Condition), Distinct(s), StatusUpdated(m, s)
  PROVE  Mirrored(m, s) # m
<1>1. CASE ~m.present
  <2>1. Mirrored(m, s).present = TRUE
    BY DEF Mirrored
  <2> QED BY <1>1, <2>1
<1>2. CASE m.present
  <2>1. PICK i \in DOMAIN s : m.conds[s[i].type] # s[i].value
    BY <1>2 DEF StatusUpdated
  <2>a. s[i] \in Condition
    OBVIOUS
  <2>b. LostType(m, s) = {}
    BY <1>2 DEF LostType
  <2>c. s[i].type \in TypesOf(s)
    BY DEF TypesOf
  <2>2. s[i].type \in Types /\ s[i].type \in TypesOf(s) \ LostType(m, s)
    BY <2>a, <2>b, <2>c DEF Condition
  <2>3. (CHOOSE j \in DOMAIN s : s[j].type = s[i].type) = i
    BY DEF Distinct
  <2>4. Mirrored(m, s).conds[s[i].type] = s[i].value
    BY <2>2, <2>3 DEF Mirrored
  <2> QED BY <2>1, <2>4
<1> QED BY <1>1, <1>2 DEF Mirror

LEMMA MirrorInit == Init => MirrorInv
<1> SUFFICES ASSUME Init PROVE MirrorInv
  OBVIOUS
<1>1. esc.conds = <<>> /\ escView = esc /\ esmView = esm /\ queued
  BY DEF Init, NoESC, NewESC
<1>2. Distinct(<<>>)
  BY DEF Distinct
<1> QED BY <1>1, <1>2 DEF MirrorInv, Quiet

\* What the controllers and users do to the ESC.
LEMMA MirrorESC ==
  ASSUME TypeOK, MirrorInv, SetStatusCondition \/ EditESC
  PROVE  MirrorInv'
<1>0. UNCHANGED <<esm, esmView, escView, queued, pass>>
  BY DEF SetStatusCondition, EditESC
<1>1. Distinct(esc.conds)'
  <2>1. CASE SetStatusCondition
    <3>1. PICK t \in Types, v \in Values :
            LET c == [type |-> t, value |-> v, gen |-> esc.gen] IN
            esc' = [esc EXCEPT !.conds =
              IF t \in TypesOf(@)
              THEN [i \in DOMAIN @ |-> IF @[i].type = t THEN c ELSE @[i]]
              ELSE Append(@, c)]
      BY <2>1 DEF SetStatusCondition, StoreESC
    <3> DEFINE c == [type |-> t, value |-> v, gen |-> esc.gen]
    <3>2. c \in Condition /\ c.type = t /\ esc.conds \in Seq(Condition)
      BY DEF Condition, ESC, TypeOK
    <3> HIDE DEF c
    <3>3. esc'.conds = IF c.type \in TypesOf(esc.conds)
                       THEN [i \in DOMAIN esc.conds |->
                               IF esc.conds[i].type = c.type THEN c ELSE esc.conds[i]]
                       ELSE Append(esc.conds, c)
      BY <3>1, <3>2 DEF c, TypeOK, ESC
    <3>4. Distinct(esc'.conds)
      BY <3>2, <3>3, SetConditionDistinct DEF MirrorInv
    <3> QED BY <3>4 DEF Distinct
  <2>2. CASE EditESC
    <3>0. esc' \in {[esc EXCEPT !.gen = @ + 1], NoESC, NewESC}
      BY <2>2 DEF EditESC, StoreESC
    <3>1. esc'.conds \in {esc.conds, <<>>}
      BY <3>0 DEF NoESC, NewESC, TypeOK, ESC
    <3> QED BY <3>1 DEF MirrorInv, Distinct
  <2> QED BY <2>1, <2>2
<1>2. /\ "esc" \notin events' =>
           "esc" \notin events /\ esc'.exists = esc.exists /\ esc'.conds = esc.conds
      /\ "esm" \in events' <=> "esm" \in events
      /\ events' = {} => events = {}
  BY DEF SetStatusCondition, EditESC, StoreESC
<1>3. Quiet' => Quiet /\ esc'.exists = esc.exists /\ (InStep => InStep')
  BY <1>0, <1>2 DEF Quiet, InStep
<1> QED BY <1>0, <1>1, <1>2, <1>3 DEF MirrorInv, Distinct

\* What users do to the ESM is always announced.
LEMMA MirrorESM ==
  ASSUME TypeOK, MirrorInv, EditESM
  PROVE  MirrorInv'
<1>1. "esm" \in events' /\ ("esc" \in events' <=> "esc" \in events)
  BY DEF EditESM, StoreESM, NewESM, TypeOK, ESM
<1>2. UNCHANGED <<esmView, esc, escView, queued, pass>>
  BY DEF EditESM
<1>3. ~Quiet'
  BY <1>1 DEF Quiet
<1> QED BY <1>1, <1>2, <1>3 DEF MirrorInv, Distinct

\* What the informers deliver is queued, and what they have not delivered is announced.
LEMMA MirrorSync ==
  ASSUME TypeOK, MirrorInv, SyncESM \/ SyncESC
  PROVE  MirrorInv'
<1>1. CASE SyncESM
  <2>1. /\ esmView' = esm /\ UNCHANGED <<esm, esc, escView, pass>>
        /\ "esc" \in events' <=> "esc" \in events
        /\ Quiet' => Quiet
    BY <1>1 DEF SyncESM, Quiet, TypeOK
  <2> QED BY <2>1 DEF MirrorInv, Distinct, InStep
<1>2. CASE SyncESC
  <2>1. /\ escView' = esc /\ UNCHANGED <<esm, esmView, esc, pass>>
        /\ "esm" \in events' <=> "esm" \in events
        /\ Quiet' => Quiet
    BY <1>2 DEF SyncESC, Quiet, TypeOK
  <2> QED BY <2>1 DEF MirrorInv, Distinct, InStep
<1> QED BY <1>1, <1>2

\* A failed call is queued again, and a restart lists everything anew.
LEMMA MirrorFaults ==
  ASSUME TypeOK, MirrorInv, FailStep \/ Restart
  PROVE  MirrorInv'
<1>1. ~Quiet'
  BY DEF FailStep, Restart, ReturnError, Quiet
<1>2. CASE FailStep
  <2>1. UNCHANGED <<esm, esmView, esc, escView, events>>
    BY <1>2 DEF FailStep
  <2> QED BY <1>1, <2>1 DEF MirrorInv, Distinct
<1>3. CASE Restart
  <2>1. esmView' = esm' /\ escView' = esc /\ esc' = esc
    BY <1>3 DEF Restart
  <2> QED BY <1>1, <2>1 DEF MirrorInv, Distinct
<1> QED BY <1>2, <1>3

\* A step that writes nothing keeps the cache's part; the pass's part is shown for it.
LEMMA MirrorLocal ==
  ASSUME MirrorInv, UNCHANGED <<esm, esmView, esc, escView, events>>,
         Quiet' =>
           /\ pass'.pc # "refetch"
           /\ pass'.pc \in {"remove", "finalizer", "read"} => pass'.esm = esm
           /\ pass'.pc = "remove" => esm.phase # "live"
           /\ pass'.pc = "status" => pass'.esm.mirror # esm.mirror
           /\ pass'.pc = "idle" /\ esm.phase = "live" /\ esc.exists => InStep
  PROVE  MirrorInv'
BY DEF MirrorInv, Distinct, InStep

\* A write of the ESM that changes it is announced, so the pass's part is not called for.
LEMMA MirrorWrite ==
  ASSUME TypeOK, MirrorInv, NEW new, new # esm, StoreESM(new),
         UNCHANGED <<esmView, esc, escView>>
  PROVE  MirrorInv'
<1>1. "esm" \in events' /\ ("esc" \in events' <=> "esc" \in events)
  BY DEF StoreESM
<1>2. ~Quiet'
  BY <1>1 DEF Quiet
<1> QED BY <1>1, <1>2 DEF MirrorInv, Distinct

LEMMA MirrorReconcile ==
  ASSUME TypeOK, MirrorInv, Reconcile
  PROVE  MirrorInv'
<1>1. UNCHANGED <<esm, esmView, esc, escView, events>>
  BY DEF Reconcile
<1>2. ASSUME Quiet'
      PROVE  /\ pass'.pc = IF esmView.phase = "deleting" THEN "remove" ELSE "finalizer"
             /\ pass'.esm = esmView /\ esmView = esm
  <2>1. esmView.phase # "gone"
    BY <1>2 DEF Quiet, Reconcile, ReturnError
  <2>2. events = {}
    BY <1>1, <1>2 DEF Quiet
  <2> QED BY <2>1, <2>2 DEF Reconcile, MirrorInv
<1> QED BY <1>1, <1>2, MirrorLocal

LEMMA MirrorRemove ==
  ASSUME TypeOK, MirrorInv, FinalizerInv, RemoveFinalizer
  PROVE  MirrorInv'
<1>0. UNCHANGED <<esmView, esc, escView>> /\ pass' = Idle /\ pass.pc = "remove"
  BY DEF RemoveFinalizer, ReturnError
<1>1. CASE UNCHANGED <<esm, events>>
  <2>1. Quiet' => Quiet
    BY <1>0, <1>1 DEF RemoveFinalizer, ReturnError, Quiet, TypeOK
  <2>2. Quiet' => esm.phase # "live"
    BY <1>0, <2>1 DEF MirrorInv
  <2> QED BY <1>0, <1>1, <2>2, MirrorLocal DEF Idle
<1>2. CASE CanUpdate /\ StoreESM([esm EXCEPT !.finalizer = FALSE, !.phase = "gone"])
  <2>1. [esm EXCEPT !.finalizer = FALSE, !.phase = "gone"] # esm
    BY <1>2 DEF CanUpdate, TypeOK, ESM
  <2> QED BY <1>0, <1>2, <2>1, MirrorWrite
<1> QED BY <1>1, <1>2 DEF RemoveFinalizer

LEMMA MirrorAdd ==
  ASSUME TypeOK, MirrorInv, AddFinalizer
  PROVE  MirrorInv'
<1>0. UNCHANGED <<esmView, esc, escView>> /\ pass.pc = "finalizer" /\ pass \in Pass
  BY DEF AddFinalizer, TypeOK
<1>1. CASE pass.esm.finalizer
  <2>1. pass'.pc = "read" /\ pass'.esm = pass.esm /\ UNCHANGED <<esm, events, queued>>
    BY <1>0, <1>1 DEF AddFinalizer, Pass
  <2>2. Quiet' => pass'.esm = esm
    BY <1>0, <2>1 DEF MirrorInv, Quiet
  <2> QED BY <1>0, <2>1, <2>2, MirrorLocal
<1>2. CASE ~pass.esm.finalizer /\ UNCHANGED <<esm, events>> /\ ReturnError
  <2>1. ~Quiet'
    BY <1>2 DEF Quiet, ReturnError
  <2> QED BY <1>0, <1>2, <2>1, MirrorLocal
<1>3. CASE ~pass.esm.finalizer /\ StoreESM([esm EXCEPT !.finalizer = TRUE])
           /\ UNCHANGED queued
  <2>1. CASE esm.finalizer
    <3>1. [esm EXCEPT !.finalizer = TRUE] = esm
      BY <2>1 DEF TypeOK, ESM
    <3>2. esm' = esm /\ events' \in {events, events \cup {"esm"}}
      BY <1>3, <3>1 DEF StoreESM
    <3>3. Quiet' => Quiet
      BY <1>3, <3>2 DEF Quiet
    <3>4. ~Quiet'
      BY <1>0, <1>3, <2>1, <3>3 DEF MirrorInv
    <3> QED BY <1>0, <3>2, <3>4 DEF MirrorInv, Distinct
  <2>2. CASE ~esm.finalizer
    <3>1. [esm EXCEPT !.finalizer = TRUE] # esm
      BY <2>2 DEF TypeOK, ESM
    <3> QED BY <1>0, <1>3, <3>1, MirrorWrite
  <2> QED BY <2>1, <2>2
<1> QED BY <1>1, <1>2, <1>3 DEF AddFinalizer

LEMMA MirrorRefetch ==
  ASSUME TypeOK, MirrorInv, RefetchESM
  PROVE  MirrorInv'
<1>1. UNCHANGED <<esm, esmView, esc, escView, events>> /\ pass.pc = "refetch"
  BY DEF RefetchESM
<1>2. Quiet' => Quiet
  BY DEF RefetchESM, ReturnError, Quiet
<1>3. ~Quiet'
  BY <1>1, <1>2 DEF MirrorInv
<1> QED BY <1>1, <1>3, MirrorLocal

\* The pass either finds the mirror in step or goes on to change it.
LEMMA MirrorProcess ==
  ASSUME TypeOK, MirrorInv, processReconcileRequest
  PROVE  MirrorInv'
<1>1. /\ UNCHANGED <<esm, esmView, esc, escView, events, queued>>
      /\ pass.pc = "read" /\ pass \in Pass /\ (Quiet' => Quiet)
  BY DEF processReconcileRequest, TypeOK, Quiet
<1>2. Quiet => pass.esm = esm /\ escView.exists = esc.exists /\ escView.conds = esc.conds
  BY <1>1 DEF MirrorInv, Quiet
<1>3. CASE escView.exists /\ StatusUpdated(pass.esm.mirror, escView.conds)
  <2>1. /\ pass.esm.mirror \in Mirror /\ escView.conds \in Seq(Condition)
        /\ Distinct(escView.conds)
    BY <1>1 DEF Pass, ESM, ESC, TypeOK, MirrorInv
  <2>2. Mirrored(pass.esm.mirror, escView.conds) # pass.esm.mirror
    BY <1>3, <2>1, MirroredDiffers
  <2>3. /\ pass'.pc = "status"
        /\ pass'.esm.mirror = Mirrored(pass.esm.mirror, escView.conds)
    BY <1>1, <1>3 DEF processReconcileRequest, Pass, ESM
  <2> QED BY <1>1, <1>2, <2>2, <2>3, MirrorLocal
<1>4. CASE ~(escView.exists /\ StatusUpdated(pass.esm.mirror, escView.conds))
  <2>1. pass'.pc = "idle"
    BY <1>4 DEF processReconcileRequest, Idle
  <2>2. Quiet /\ esc.exists => InStep
    BY <1>2, <1>4 DEF StatusUpdated, InStep
  <2> QED BY <1>1, <2>1, <2>2, MirrorLocal
<1> QED BY <1>3, <1>4

LEMMA MirrorUpdate ==
  ASSUME TypeOK, MirrorInv, UpdateStatus
  PROVE  MirrorInv'
<1>0. UNCHANGED <<esmView, esc, escView>> /\ pass.pc = "status" /\ pass' = Idle
  BY DEF UpdateStatus, ReturnError
<1>1. CASE UNCHANGED <<esm, events>> /\ ReturnError
  <2>1. ~Quiet'
    BY <1>1 DEF Quiet, ReturnError
  <2> QED BY <1>0, <1>1, <2>1, MirrorLocal
<1>2. CASE StoreESM([esm EXCEPT !.mirror = pass.esm.mirror]) /\ UNCHANGED queued
  <2>1. CASE pass.esm.mirror = esm.mirror
    <3>1. [esm EXCEPT !.mirror = pass.esm.mirror] = esm
      BY <2>1 DEF TypeOK, ESM
    <3>2. esm' = esm /\ events' \in {events, events \cup {"esm"}}
      BY <1>2, <3>1 DEF StoreESM
    <3>3. Quiet' => Quiet
      BY <1>2, <3>2 DEF Quiet
    <3>4. ~Quiet'
      BY <1>0, <2>1, <3>3 DEF MirrorInv
    <3> QED BY <1>0, <3>2, <3>4 DEF MirrorInv, Distinct
  <2>2. CASE pass.esm.mirror # esm.mirror
    <3>1. [esm EXCEPT !.mirror = pass.esm.mirror] # esm
      BY <2>2 DEF TypeOK, ESM
    <3> QED BY <1>0, <1>2, <3>1, MirrorWrite
  <2> QED BY <2>1, <2>2
<1> QED BY <1>1, <1>2 DEF UpdateStatus

LEMMA MirrorStep == TypeOK /\ MirrorInv /\ FinalizerInv /\ [Next]_vars => MirrorInv'
<1> SUFFICES ASSUME TypeOK, MirrorInv, FinalizerInv, [Next]_vars PROVE MirrorInv'
  OBVIOUS
<1>1. CASE UNCHANGED vars
  BY <1>1 DEF vars, MirrorInv, Distinct, InStep, Quiet
<1>2. CASE Next
  BY <1>2, MirrorESC, MirrorESM, MirrorSync, MirrorFaults, MirrorReconcile, MirrorRemove,
     MirrorAdd, MirrorRefetch, MirrorProcess, MirrorUpdate, Zenon DEF Next, PassStep
<1> QED BY <1>1, <1>2

\* The mirror is complete whenever the controller has settled: with a condition lost to a
\* fresh entry, writes left out because nothing seems changed, and statuses copied over
\* from stale reads, every condition of the ESC is in the status of a live ESM.
THEOREM MirrorCompleteness == Spec => []MirrorComplete
<1>1. MirrorInv => MirrorComplete
  BY DEF MirrorInv, MirrorComplete, Settled, Quiet
<1> QED
  BY <1>1, MirrorInit, MirrorStep, TypeInit, TypeStep, FinalizerInit, FinalizerStep, PTL DEF Spec
=============================================================================
