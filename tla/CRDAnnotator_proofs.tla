------------------------- MODULE CRDAnnotator_proofs --------------------------
(***************************************************************************)
(* Proofs about CRDAnnotator, for every set of CRDs and every bound.       *)
(***************************************************************************)
EXTENDS CRDAnnotator, TLAPS

-----------------------------------------------------------------------------
(* Type correctness.                                                         *)

LEMMA UnsetTypes == NoStatus \in Status /\ NoESC \in ESC /\ NoCRD \in CRD
<1>1. NoStatus \in Status
  BY DEF NoStatus, Status, Unset, Condition
<1> QED
  BY <1>1 DEF NoESC, ESC, NoCRD, CRD

LEMMA NewESCType == \A i \in BOOLEAN : NewESC(i) \in ESC
BY UnsetTypes DEF NewESC, ESC

LEMMA NoCallType == NoCall \in Call
BY UnsetTypes DEF NoCall, Call, Requests

LEMMA NoPassType == NoPass \in ESCPass
BY UnsetTypes DEF NoPass, ESCPass

LEMMA ESCFields ==
  ASSUME NEW e \in ESC
  PROVE  /\ \A i \in BOOLEAN, g \in Nat : [e EXCEPT !.inject = i, !.gen = g] \in ESC
         /\ \A t \in Status : [e EXCEPT !.status = t] \in ESC
BY Zenon DEF ESC

LEMMA StatusFields ==
  ASSUME NEW t \in Status, NEW cond \in Condition
  PROVE  [t EXCEPT !.ready = cond] \in Status /\ [t EXCEPT !.annotation = cond] \in Status
BY DEF Status

LEMMA TypeInit == Init => TypeOK
<1> SUFFICES ASSUME Init PROVE TypeOK
  OBVIOUS
<1>1. esc \in ESC /\ mgrView \in ESC /\ ownView \in ESC
  BY UnsetTypes DEF Init
<1>2. crds \in [CRDs -> CRD] /\ crdView \in [CRDs -> CRD]
  BY UnsetTypes DEF Init, CRD
<1>3. escEvent \in BOOLEAN /\ requests \subseteq Requests
  BY DEF Init, Listed, Requests
<1>4. escQueued \in BOOLEAN
  BY <1>1 DEF Init, ESC
<1> QED
  BY <1>1, <1>2, <1>3, <1>4, NoCallType, NoPassType DEF Init, TypeOK

LEMMA ReadType ==
  ASSUME TypeOK, NEW copy, NEW object, Read(copy, object) PROVE stale' \in Nat
BY DEF Read, TypeOK

LEMMA StoreCRDType ==
  ASSUME TypeOK, NEW c \in CRDs, NEW new \in CRD, StoreCRD(c, new)
  PROVE  crds' \in [CRDs -> CRD] /\ requests' \subseteq Requests
BY DEF TypeOK, StoreCRD, Requests

\* What users, OLM and the informers do.
LEMMA TypeOutside ==
  ASSUME TypeOK,
         \/ EditESC \/ SyncManager \/ SyncOwnESC \/ SyncOwnCRDs \/ Restart
         \/ \E c \in CRDs : ChangeCRD(c)
  PROVE  TypeOK'
<1>0. Disturb => disturbances' \in Nat
  BY DEF TypeOK, Disturb
<1>1. CASE EditESC
  <2>0. esc \in ESC /\ esc.gen + 1 \in Nat
    BY DEF TypeOK, ESC
  <2>1. \A i \in BOOLEAN : [esc EXCEPT !.inject = i, !.gen = esc.gen + 1] \in ESC
    BY <2>0, ESCFields, Zenon
  <2>2. esc' \in ESC
    BY <1>1, <2>1, UnsetTypes, NewESCType, Zenon DEF EditESC
  <2> QED
    BY <1>0, <1>1, <2>2, Zenon DEF EditESC, TypeOK, annotator, escController
<1>2. CASE SyncManager
  <2>1. mgrView' \in ESC
    BY <1>2 DEF SyncManager, TypeOK
  <2>2. requests' \subseteq Requests /\ escQueued' \in BOOLEAN
    BY <1>2 DEF SyncManager, TypeOK, Requests
  <2> QED
    BY <1>2, <2>1, <2>2, Zenon DEF SyncManager, TypeOK
<1>3. CASE SyncOwnESC \/ SyncOwnCRDs
  BY <1>3, Zenon DEF SyncOwnESC, SyncOwnCRDs, TypeOK, escController
<1>4. CASE Restart
  <2>1. mgrView' \in ESC /\ ownView' \in ESC /\ crdView' \in [CRDs -> CRD]
    BY <1>4 DEF Restart, TypeOK
  <2>2. /\ requests' \subseteq Requests /\ escQueued' \in BOOLEAN
        /\ missed' \subseteq CRDs
    BY <1>4 DEF Restart, TypeOK, Requests, Listed, ESC
  <2> QED
    BY <1>0, <1>4, <2>1, <2>2, NoCallType, NoPassType, Zenon DEF Restart, TypeOK
<1>5. ASSUME NEW c \in CRDs, ChangeCRD(c) PROVE TypeOK'
  <2>1. /\ [exists |-> TRUE, annotated |-> FALSE] \in CRD
        /\ [crds[c] EXCEPT !.annotated = FALSE] \in CRD
    BY DEF TypeOK, CRD
  <2>2. crds' \in [CRDs -> CRD] /\ requests' \subseteq Requests
    BY <1>5, <2>1, UnsetTypes, StoreCRDType, Zenon DEF ChangeCRD
  <2> QED
    BY <1>0, <1>5, <2>2, Zenon DEF ChangeCRD, TypeOK, annotator, escController
<1> QED
  BY <1>1, <1>2, <1>3, <1>4, <1>5

\* The annotator's calls.
LEMMA TypeCall ==
  ASSUME TypeOK, (\E r \in Requests : StartCall(r)) \/ CallStep \/ FailCall
  PROVE  TypeOK'
<1>0. Disturb => disturbances' \in Nat
  BY DEF TypeOK, Disturb
<1>a. /\ call \in Call /\ call.req \in Requests /\ call.esc \in ESC /\ call.ok \in BOOLEAN
      /\ call.esc.status \in Status /\ call.esc.gen \in Nat /\ esc \in ESC
  BY DEF TypeOK, Call, ESC
<1>b. \A failed : Requeue(failed) \subseteq Requests
  BY <1>a DEF Requeue, TypeOK
<1>c. [call EXCEPT !.todo = {}, !.ok = FALSE] \in Call
  BY <1>a DEF Call
<1>1. ASSUME NEW r \in Requests, StartCall(r) PROVE TypeOK'
  <2>1. ToAnnotate(r) \subseteq CRDs
    BY DEF ToAnnotate, Scope, Requests
  <2>2. Found(r) \in BOOLEAN
    BY DEF Found, CRD, Requests, TypeOK
  <2>3. [pc |-> "busy", req |-> r, esc |-> ownView, todo |-> ToAnnotate(r),
         ok |-> Found(r)] \in Call
    BY <2>1, <2>2 DEF Call, TypeOK
  <2>4. call' \in Call
    BY <1>1, <2>3, NoCallType, Zenon DEF StartCall
  <2>5. requests' \subseteq Requests
    BY <1>1 DEF StartCall, TypeOK
  <2>6. Scope(r) \subseteq CRDs
    BY DEF Scope, Requests
  <2>7. missed' \subseteq CRDs
    BY <1>1, <2>6 DEF StartCall, TypeOK
  <2>8. stale' \in Nat
    BY <1>1, ReadType DEF StartCall
  <2> QED
    BY <1>1, <2>4, <2>5, <2>7, <2>8, Zenon DEF StartCall, TypeOK, escController
<1>2. ASSUME NEW c \in CRDs, PatchCRD(c) PROVE TypeOK'
  <2>1. [crds[c] EXCEPT !.annotated = TRUE] \in CRD
    BY DEF TypeOK, CRD
  <2>2. crds' \in [CRDs -> CRD] /\ requests' \subseteq Requests
    <3>1. crds \in [CRDs -> CRD] /\ requests \subseteq Requests
      BY DEF TypeOK
    <3> QED
      BY <1>2, <2>1, <3>1, StoreCRDType, Zenon DEF PatchCRD
  <2>3. [call EXCEPT !.todo = @ \ {c}] \in Call
    BY <1>a DEF Call
  <2>4. call' \in Call
    BY <1>2, <1>c, <2>3, Zenon DEF PatchCRD
  <2> QED
    BY <1>2, <2>2, <2>4, Zenon DEF PatchCRD, TypeOK, escController
<1>3. CASE UpdateCondition
  <2> DEFINE cond == [value |-> IF call.ok THEN "true" ELSE "false", gen |-> call.esc.gen]
  <2>1. cond \in Condition
    BY <1>a DEF Condition
  <2>2. esc' = [esc EXCEPT !.status = [call.esc.status EXCEPT !.annotation = cond]]
        \/ esc' = esc
    BY <1>3, Zenon DEF UpdateCondition
  <2> HIDE DEF cond
  <2>3. esc' \in ESC
    BY <1>a, <2>1, <2>2, StatusFields, ESCFields, Zenon
  <2>4. requests' \subseteq Requests
    BY <1>3, <1>b, Zenon DEF UpdateCondition
  <2>5. stale' \in Nat
    BY <1>3, ReadType, Zenon DEF UpdateCondition, TypeOK
  <2> QED
    BY <1>3, <2>3, <2>4, <2>5, NoCallType, Zenon DEF UpdateCondition, TypeOK, escController
<1>4. CASE FailCall
  <2>1. call' \in Call
    BY <1>4, <1>c, NoCallType, Zenon DEF FailCall
  <2>2. requests' \subseteq Requests
    BY <1>4, <1>b, Zenon DEF FailCall, TypeOK
  <2> QED
    BY <1>0, <1>4, <2>1, <2>2, Zenon DEF FailCall, TypeOK, escController
<1> QED
  BY <1>1, <1>2, <1>3, <1>4 DEF CallStep

\* The ESC controller's passes.
LEMMA TypePass ==
  ASSUME TypeOK, StartPass \/ Install \/ UpdateStatus
  PROVE  TypeOK'
<1>a. /\ escPass \in ESCPass /\ escPass.esc \in ESC /\ escPass.gen \in Nat
      /\ escPass.ok \in BOOLEAN /\ escPass.esc.status \in Status
      /\ esc \in ESC /\ esc.exists \in BOOLEAN
  BY DEF TypeOK, ESCPass, ESC
<1>1. CASE StartPass
  <2>1. [pc |-> "install", esc |-> mgrView, gen |-> mgrView.gen, ok |-> TRUE]
          \in ESCPass
    BY DEF ESCPass, ESC, TypeOK
  <2>2. escPass' \in ESCPass
    BY <1>1, <2>1, NoPassType, Zenon DEF StartPass
  <2>3. stale' \in Nat
    BY <1>1, ReadType DEF StartPass
  <2> QED
    BY <1>1, <2>2, <2>3, Zenon DEF StartPass, TypeOK, annotator
<1>2. CASE Install
  <2>1. /\ [escPass EXCEPT !.pc = "status", !.ok = FALSE] \in ESCPass
        /\ [escPass EXCEPT !.pc = "status"] \in ESCPass
    BY <1>a DEF ESCPass
  <2>2. [escPass EXCEPT !.pc = "status", !.ok = esc.exists,
           !.esc = IF esc.exists THEN esc ELSE escPass.esc] \in ESCPass
    BY <1>a DEF ESCPass
  <2>3. escPass' \in ESCPass
    BY <1>2, <2>1, <2>2, Zenon DEF Install
  <2>4. disturbances' \in Nat
    BY <1>2 DEF Install, Disturb, TypeOK
  <2> QED
    BY <1>2, <2>3, <2>4, Zenon DEF Install, TypeOK, annotator
<1>3. CASE UpdateStatus
  <2> DEFINE cond == [value |-> IF escPass.ok THEN "true" ELSE "false", gen |-> escPass.gen]
  <2>1. cond \in Condition
    BY <1>a DEF Condition
  <2>2. esc' = [esc EXCEPT !.status = [escPass.esc.status EXCEPT !.ready = cond]]
        \/ esc' = esc
    BY <1>3, Zenon DEF UpdateStatus
  <2> HIDE DEF cond
  <2>3. esc' \in ESC
    BY <1>a, <2>1, <2>2, StatusFields, ESCFields, Zenon
  <2>4. escQueued' \in BOOLEAN
    BY <1>3 DEF UpdateStatus, TypeOK
  <2>5. stale' \in Nat
    BY <1>3, ReadType, Zenon DEF UpdateStatus, TypeOK
  <2> QED
    BY <1>3, <2>3, <2>4, <2>5, NoPassType, Zenon DEF UpdateStatus, TypeOK, annotator
<1> QED
  BY <1>1, <1>2, <1>3

LEMMA TypeStep == TypeOK /\ [Next]_vars => TypeOK'
<1> SUFFICES ASSUME TypeOK, [Next]_vars PROVE TypeOK'
  OBVIOUS
<1>1. CASE Next
  BY <1>1, TypeOutside, TypeCall, TypePass, Zenon DEF Next
<1>2. CASE UNCHANGED vars
  BY <1>2, Zenon DEF TypeOK, vars
<1> QED
  BY <1>1, <1>2

\* Every reachable state is well typed, whatever the informers lag behind: conditions,
\* requests and calls of both controllers stay what their code can hold.
THEOREM TypeCorrect == Spec => []TypeOK
BY TypeInit, TypeStep, PTL DEF Spec

-----------------------------------------------------------------------------
(* The annotator rests only when its work is done.                           *)

LEMMA PendingInit == Init => CallInv /\ WorkPending
BY DEF Init, CallInv, NoCall, WorkPending, Pending, Listed

\* A step that takes nothing off the queues and leaves the call alone.
LEMMA PendingGrows ==
  ASSUME CallInv, WorkPending, UNCHANGED <<call, crds, missed>>, Wanted' => Wanted,
         requests \subseteq requests', escEvent => escEvent' \/ AllCRDs \in requests'
  PROVE  CallInv' /\ WorkPending'
BY DEF CallInv, WorkPending, Pending

LEMMA PendingOutside ==
  ASSUME TypeOK, CallInv, WorkPending,
         \/ EditESC \/ SyncManager \/ SyncOwnESC \/ SyncOwnCRDs \/ Restart
         \/ \E c \in CRDs : ChangeCRD(c)
  PROVE  CallInv' /\ WorkPending'
<1>1. CASE EditESC
  <2>1. call' = call /\ escEvent'
    BY <1>1 DEF EditESC, annotator
  <2> QED
    BY <2>1 DEF CallInv, WorkPending, Pending
<1>2. CASE SyncManager
  <2>1. /\ UNCHANGED <<call, crds, esc, missed>>
        /\ requests \subseteq requests' /\ (escEvent => AllCRDs \in requests')
    BY <1>2 DEF SyncManager
  <2> QED
    BY <2>1, PendingGrows DEF Wanted
<1>3. CASE SyncOwnESC \/ SyncOwnCRDs
  <2>1. UNCHANGED <<call, crds, esc, escEvent, requests, missed>>
    BY <1>3 DEF SyncOwnESC, SyncOwnCRDs
  <2> QED
    BY <2>1, PendingGrows DEF Wanted
<1>4. CASE Restart
  <2>1. requests' = Listed /\ call' = NoCall /\ crds' = crds
    BY <1>4 DEF Restart
  <2> QED
    BY <2>1 DEF CallInv, NoCall, WorkPending, Pending, Listed
<1>5. ASSUME NEW c \in CRDs, ChangeCRD(c) PROVE CallInv' /\ WorkPending'
  <2>1. UNCHANGED <<esc, call, escEvent, missed>>
    BY <1>5 DEF ChangeCRD
  <2>2. requests' = requests \cup {c} /\ \A d \in CRDs \ {c} : crds'[d] = crds[d]
    BY <1>5 DEF ChangeCRD, StoreCRD, TypeOK
  <2> QED
    BY <2>1, <2>2 DEF CallInv, WorkPending, Pending, Wanted
<1> QED
  BY <1>1, <1>2, <1>3, <1>4, <1>5

\* A call takes over what its request stood for, unless its caches mislead it, and hands it
\* back when it fails.
LEMMA PendingCall ==
  ASSUME TypeOK, CallInv, WorkPending,
         (\E r \in Requests : StartCall(r)) \/ CallStep \/ FailCall
  PROVE  CallInv' /\ WorkPending'
<1>0. NoCall.todo = {} /\ NoCall.pc = "idle"
  BY DEF NoCall
<1>a. call \in Call
  BY DEF TypeOK
<1>1. ASSUME NEW r \in Requests, StartCall(r) PROVE CallInv' /\ WorkPending'
  <2>1. /\ UNCHANGED <<esc, crds, escEvent>> /\ call.pc = "idle"
        /\ requests' = requests \ {r}
        /\ missed' = (missed \ Scope(r)) \cup {c \in Scope(r) : Misled(c)}
    BY <1>1 DEF StartCall
  <2>2. call.todo = {}
    BY <2>1 DEF CallInv
  <2>3. CallInv'
    BY <1>0, <1>1 DEF StartCall, CallInv, ToAnnotate, Scope
  <2>4. ASSUME Wanted, NEW c \in CRDs \ missed', crds[c].exists, ~crds[c].annotated
        PROVE  Pending(c)'
    <3>1. CASE c \in Scope(r)
      <4>1. ~Misled(c)
        BY <2>1, <2>4, <3>1
      <4>2. ownView.exists /\ ownView.inject /\ crdView[c] = crds[c]
        BY <2>4, <4>1 DEF Misled, Wanted
      <4>3. call'.todo = ToAnnotate(r)
        BY <1>1, <4>2 DEF StartCall
      <4> QED
        BY <2>4, <3>1, <4>2, <4>3 DEF Pending, ToAnnotate
    <3>2. CASE c \notin Scope(r)
      <4>1. c \notin missed /\ r # c /\ r # AllCRDs
        BY <2>1, <2>4, <3>2 DEF Scope
      <4>2. Pending(c)
        BY <2>4, <4>1 DEF WorkPending
      <4> QED
        BY <2>1, <2>2, <4>1, <4>2 DEF Pending
    <3> QED
      BY <3>1, <3>2
  <2>5. WorkPending'
    BY <2>1, <2>4 DEF WorkPending, Wanted
  <2> QED
    BY <2>3, <2>5
<1>2. ASSUME NEW c \in CRDs, PatchCRD(c) PROVE CallInv' /\ WorkPending'
  <2>1. UNCHANGED <<esc, escEvent, missed>> /\ c \in call.todo
    BY <1>2 DEF PatchCRD
  <2>2. call.pc = "busy" /\ (call.req = AllCRDs \/ call.todo = {call.req})
    BY <2>1 DEF CallInv
  <2>3. CASE crds[c].exists
    <3>1. /\ call'.todo = call.todo \ {c}
          /\ call'.pc = call.pc /\ call'.req = call.req /\ call'.ok = call.ok
      BY <1>2, <1>a, <2>3 DEF PatchCRD, Call
    <3>2. /\ crds'[c].annotated /\ \A d \in CRDs \ {c} : crds'[d] = crds[d]
          /\ requests \subseteq requests'
      BY <1>2, <2>3 DEF PatchCRD, StoreCRD, TypeOK, CRD
    <3>3. CallInv'
      BY <2>2, <3>1 DEF CallInv
    <3>4. WorkPending'
      BY <2>1, <3>1, <3>2 DEF WorkPending, Pending, Wanted
    <3> QED
      BY <3>3, <3>4
  <2>4. CASE ~crds[c].exists
    <3>1. UNCHANGED <<crds, requests>>
      BY <1>2, <2>4 DEF PatchCRD
    <3>2. call'.todo = {} /\ call'.pc = call.pc /\ call'.req = call.req /\ ~call'.ok
      BY <1>2, <1>a, <2>4 DEF PatchCRD, Call
    <3> QED
      BY <2>1, <2>2, <3>1, <3>2 DEF CallInv, WorkPending, Pending, Wanted
  <2> QED
    BY <2>3, <2>4
<1>3. CASE UpdateCondition
  <2>1. /\ UNCHANGED <<crds, escEvent, missed>>
        /\ call' = NoCall /\ call.todo = {} /\ call.pc = "busy"
    BY <1>3 DEF UpdateCondition
  <2>2. requests \subseteq requests' /\ (~call.ok => call.req \in requests')
    BY <1>3 DEF UpdateCondition, Requeue
  <2>3. Wanted' = Wanted
    <3>1. esc \in ESC
      BY DEF TypeOK
    <3>2. esc' = esc \/ \E t : esc' = [esc EXCEPT !.status = t]
      BY <1>3, Zenon DEF UpdateCondition
    <3>3. esc'.exists = esc.exists /\ esc'.inject = esc.inject
      BY <3>1, <3>2 DEF ESC
    <3> QED
      BY <3>3 DEF Wanted
  <2> QED
    BY <1>0, <2>1, <2>2, <2>3 DEF CallInv, WorkPending, Pending
<1>4. CASE FailCall
  <2>1. UNCHANGED <<esc, crds, escEvent, missed>>
    BY <1>4 DEF FailCall
  <2>2. CASE /\ call.pc = "busy" /\ UNCHANGED requests
             /\ call' = [call EXCEPT !.todo = {}, !.ok = FALSE]
    <3>1. call'.todo = {} /\ call'.pc = call.pc /\ call'.req = call.req /\ ~call'.ok
      BY <1>a, <2>2 DEF Call
    <3> QED
      BY <2>1, <2>2, <3>1 DEF CallInv, WorkPending, Pending, Wanted
  <2>3. CASE call' = NoCall /\ requests' = requests \cup {call.req}
    BY <1>0, <2>1, <2>3 DEF CallInv, WorkPending, Pending, Wanted
  <2> QED
    BY <1>4, <2>2, <2>3, Zenon DEF FailCall, Requeue
<1> QED
  BY <1>1, <1>2, <1>3, <1>4 DEF CallStep

\* The ESC controller changes nothing but the status of the ESC.
LEMMA PendingPass ==
  ASSUME TypeOK, CallInv, WorkPending, StartPass \/ Install \/ UpdateStatus
  PROVE  CallInv' /\ WorkPending'
<1>1. UNCHANGED <<crds, escEvent, requests, call, missed>>
  BY DEF StartPass, Install, UpdateStatus, annotator
<1>2. esc \in ESC
  BY DEF TypeOK
<1>3. esc' = esc \/ \E t : esc' = [esc EXCEPT !.status = t]
  BY Zenon DEF StartPass, Install, UpdateStatus
<1>4. esc'.exists = esc.exists /\ esc'.inject = esc.inject
  BY <1>2, <1>3 DEF ESC
<1> QED
  BY <1>1, <1>4, PendingGrows DEF Wanted

LEMMA PendingStep ==
  TypeOK /\ CallInv /\ WorkPending /\ [Next]_vars => CallInv' /\ WorkPending'
<1> SUFFICES ASSUME TypeOK, CallInv, WorkPending, [Next]_vars
             PROVE  CallInv' /\ WorkPending'
  OBVIOUS
<1>1. CASE Next
  BY <1>1, PendingOutside, PendingCall, PendingPass, Zenon DEF Next
<1>2. CASE UNCHANGED vars
  BY <1>2, PendingGrows DEF vars, Wanted
<1> QED
  BY <1>1, <1>2

\* Whatever its two caches show, and however many CRDs there are: no edit, CRD change, failed
\* or aborted loop over the CRDs, status conflict or restart makes the annotator rest while
\* a CRD still lacks the annotation that the ESC asks for.  What does is a latest call for
\* that CRD that started on a cache that had not caught up.
THEOREM AnnotatorRests == Spec => []RestsWhenAnnotated
<1>1. WorkPending /\ CallInv => RestsWhenAnnotated
  BY DEF WorkPending, CallInv, Pending, RestsWhenAnnotated, Annotated
<1> QED
  BY <1>1, TypeInit, TypeStep, PendingInit, PendingStep, PTL DEF Spec
=============================================================================
