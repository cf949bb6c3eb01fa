------------------------ MODULE ManagedMetadata_proofs ------------------------
(***************************************************************************)
(* Proofs about ManagedMetadata, for every number of resources, every set  *)
(* of keys and values and every bound, the one on stale reads included.    *)
(*                                                                         *)
(* AppliedInv holds whatever the passes read: a cache shows what no event  *)
(* announces, so while nothing is on its way the pass has not been misled. *)
(* TrackingInv is about passes that read what the server had: the tracking *)
(* annotation has no watch, and a stale copy of it misleads for good.      *)
(***************************************************************************)
EXTENDS ManagedMetadata, FiniteSetTheorems, TLAPS

LEMMA KeysOfType ==
  ASSUME NEW a PROVE KeysOf(a) \subseteq Keys
BY DEF KeysOf

LEMMA NoObjectType == NoObject \in Object
BY DEF NoObject, Object, NoAnnotations, Annotations, AnyValue

LEMMA IdleType == Idle \in Pass
<1>1. [spec |-> NoAnnotations, features |-> {}, tracked |-> {}, processed |-> FALSE] \in ESC
  BY DEF ESC, NoAnnotations, Annotations, AnyValue
<1>2. 1 \in 1..(N + 1)
  BY ConstantsAssumption
<1> QED
  BY <1>1, <1>2, NoObjectType DEF Idle, Pass

LEMMA AdvanceType ==
  ASSUME TypeOK, NEW r \in Resources PROVE Advance(r) \in Pass
<1>1. r + 1 \in 1..(N + 1)
  BY ConstantsAssumption DEF Resources
<1> QED
  BY <1>1, NoObjectType DEF TypeOK, Advance, Pass

LEMMA DesiredType ==
  ASSUME TypeOK, NEW r \in Resources PROVE Desired(r) \in Object
<1>1. pass.esc.spec \in Annotations /\ pass.fetched.ann \in Annotations
  BY DEF TypeOK, Pass, ESC, Object
<1>2. MergedAnnotations(pass.fetched.ann, pass.esc.spec, pass.deleted) \in Annotations
  BY <1>1 DEF MergedAnnotations, Annotations, AnyValue
<1> QED
  BY <1>1, <1>2 DEF Desired, Object

LEMMA ReadType ==
  ASSUME TypeOK, NEW copy, NEW object, Read(copy, object) PROVE stale' \in Nat
BY DEF Read, TypeOK

LEMMA ReadResourceType ==
  ASSUME TypeOK, NEW r \in Resources, ReadResource(r)
  PROVE  current' \in BOOLEAN /\ stale' \in Nat
<1>1. stale' \in Nat
  BY ReadType DEF ReadResource
<1>2. current' \in BOOLEAN
  BY Zenon DEF ReadResource
<1> QED
  BY <1>1, <1>2

LEMMA CachedType ==
  ASSUME TypeOK, NEW r \in Resources PROVE Cached(r) \in Object
BY NoObjectType DEF Cached, Selected, TypeOK

LEMMA StoreType ==
  ASSUME TypeOK, NEW r \in Resources, NEW new \in Object, Store(r, new)
  PROVE  api' \in [Resources -> Object] /\ events' \subseteq Resources \cup {TheESC}
BY DEF Store, TypeOK

-----------------------------------------------------------------------------
(* Type correctness.                                                         *)

LEMMA TypeInit == Init => TypeOK
<1> SUFFICES ASSUME Init PROVE TypeOK
  OBVIOUS
<1>1. esc \in ESC /\ escView \in ESC
  BY DEF Init, ESC
<1>2. [NoObject EXCEPT !.exists = TRUE] \in Object
  BY NoObjectType DEF Object
<1>3. api \in [Resources -> Object] /\ view \in [Resources -> Object]
  BY <1>2, NoObjectType DEF Init
<1> QED
  BY <1>1, <1>3, IdleType DEF Init, TypeOK

LEMMA TypeStep == TypeOK /\ [Next]_vars => TypeOK'
<1> SUFFICES ASSUME TypeOK, [Next]_vars PROVE TypeOK'
  OBVIOUS
<1> USE DEF bounds, reads
<1>1. CASE EditESC
  <2>1. esc' \in ESC
    BY <1>1 DEF EditESC, TypeOK, ESC
  <2> QED
    BY <1>1, <2>1 DEF EditESC, TypeOK
<1>2. CASE SyncESC
  BY <1>2 DEF SyncESC, TypeOK
<1>3. ASSUME NEW r \in Resources, Drift(r) PROVE TypeOK'
  <2>1. \A k \in Keys : [api[r] EXCEPT !.ann[k] = Absent] \in Object
    BY DEF TypeOK, Object, Annotations, AnyValue
  <2>2. [api[r] EXCEPT !.labelled = FALSE] \in Object
    BY DEF TypeOK, Object
  <2>3. \E new \in Object : Store(r, new)
    BY <1>3, <2>1, <2>2, NoObjectType DEF Drift, KeysOf
  <2>4. api' \in [Resources -> Object] /\ events' \subseteq Resources \cup {TheESC}
    BY <2>3, StoreType
  <2> QED
    BY <1>3, <2>4 DEF Drift, TypeOK
<1>4. ASSUME NEW r \in Resources, SyncResource(r) PROVE TypeOK'
  BY <1>4 DEF SyncResource, TypeOK
<1>5. ASSUME NEW r \in Resources, SkipResource(r) PROVE TypeOK'
  <2>1. current' \in BOOLEAN /\ stale' \in Nat
    <3>1. CASE UNCHANGED reads
      BY <3>1 DEF TypeOK
    <3>2. CASE ReadResource(r)
      BY <3>2, ReadResourceType
    <3> QED
      BY <1>5, <3>1, <3>2 DEF SkipResource
  <2> QED
    BY <1>5, <2>1, AdvanceType DEF SkipResource, TypeOK
<1>6. ASSUME NEW r \in Resources, ReadModified(r) PROVE TypeOK'
  <2>1. current' \in BOOLEAN /\ stale' \in Nat
    BY <1>6, ReadResourceType DEF ReadModified
  <2>2. pass' \in Pass
    BY <1>6, CachedType DEF ReadModified, TypeOK, Pass
  <2> QED
    BY <1>6, <2>1, <2>2 DEF ReadModified, TypeOK
<1>7. ASSUME NEW r \in Resources, WriteResource(r) PROVE TypeOK'
  <2>1. api' \in [Resources -> Object] /\ events' \subseteq Resources \cup {TheESC}
    BY <1>7, DesiredType, StoreType DEF WriteResource
  <2> QED
    BY <1>7, <2>1, AdvanceType DEF WriteResource, TypeOK
<1>8. ASSUME NEW r \in Resources, WriteRejected(r) PROVE TypeOK'
  BY <1>8, IdleType DEF WriteRejected, EndPassWith, TypeOK
<1>9. CASE StartPass
  <2>1. getResourceAnnotations(escView) \subseteq Keys
    BY DEF getResourceAnnotations, TypeOK, ESC
  <2>2. 1 \in 1..(N + 1)
    BY ConstantsAssumption
  <2>3. pass' \in Pass
    BY <1>9, <2>1, <2>2, NoObjectType DEF StartPass, TypeOK, Pass
  <2>4. stale' \in Nat
    BY <1>9, ReadType DEF StartPass
  <2>5. current' \in BOOLEAN
    BY <1>9, Zenon DEF StartPass
  <2> QED
    BY <1>9, <2>3, <2>4, <2>5 DEF StartPass, TypeOK
<1>10. CASE FailStep
  BY <1>10, IdleType DEF FailStep, EndPassWith, TypeOK
<1>11. CASE PatchTracking
  <2>1. AddManagedMetadataAnnotation(pass.esc, pass.deleted) \subseteq Keys
    BY KeysOfType DEF AddManagedMetadataAnnotation, TypeOK, Pass, ESC
  <2>2. esc' \in ESC
    BY <1>11, <2>1 DEF PatchTracking, TypeOK, ESC
  <2> QED
    BY <1>11, <2>2, IdleType DEF PatchTracking, EndPassWith, TypeOK
<1>12. CASE Restart
  BY <1>12, IdleType DEF Restart, TypeOK
<1>13. CASE UNCHANGED vars
  BY <1>13 DEF vars, TypeOK
<1> QED
  BY <1>1, <1>2, <1>3, <1>4, <1>5, <1>6, <1>7, <1>8, <1>9, <1>10, <1>11, <1>12, <1>13
     DEF Next, ResourceStep

\* Every state of the controller, the server and the informers is well formed, whatever the
\* caches show.
THEOREM TypeCorrect == Spec => []TypeOK
<1> QED
  BY TypeInit, TypeStep, PTL DEF Spec

-----------------------------------------------------------------------------
(* The operators the pass is built from.                                     *)

\* AddManagedMetadataAnnotation compares numbers of keys; together with the test for
\* deleted keys that is enough to leave the ESC with exactly the keys of its spec.
LEMMA TrackingIsKeysOfSpec ==
  ASSUME NEW e \in ESC
  PROVE  AddManagedMetadataAnnotation(e, e.tracked \ KeysOf(e.spec)) = KeysOf(e.spec)
<1> SUFFICES ASSUME Cardinality(e.tracked) = Cardinality(KeysOf(e.spec)),
                    e.tracked \ KeysOf(e.spec) = {}
             PROVE  e.tracked = KeysOf(e.spec)
  BY DEF AddManagedMetadataAnnotation, TrackingNeedsUpdate
<1>1. IsFiniteSet(KeysOf(e.spec))
  BY KeysOfType, FS_Subset, ConstantsAssumption
<1>2. e.tracked \subseteq KeysOf(e.spec)
  OBVIOUS
<1> QED
  BY <1>1, <1>2, FS_Subset

\* Whatever the controller writes lacks the deleted keys.
LEMMA DesiredIsClean ==
  ASSUME TypeOK, PassKnowsTracking, current, pass.pc # "idle", NEW r \in Resources
  PROVE  \A k \in pass.deleted : Desired(r).ann[k] = Absent
<1>1. pass.deleted \subseteq Keys /\ pass.deleted \cap KeysOf(pass.esc.spec) = {}
  BY DEF PassKnowsTracking, TypeOK, Pass
<1>2. KeysOf(pass.esc.spec) \subseteq Keys
  BY KeysOfType
<1>3. \A k \in pass.deleted : pass.esc.spec[k] = Absent
  BY <1>1 DEF KeysOf
<1> QED
  BY <1>1, <1>2, <1>3 DEF Desired, MergedAnnotations

\* A resource found unmodified in a cache that shows it as it is, is as the pass wants it.
LEMMA UnmodifiedIsClean ==
  ASSUME TypeOK, NEW r \in Resources, view[r] = api[r], ~Modified(r)
  PROVE  \A k \in pass.deleted : api[r].ann[k] = Absent
<1>1. Cached(r) = api[r]
  BY DEF Modified, Cached, Selected, NoObject
<1>2. CASE r = Namespace
  BY <1>1, <1>2 DEF Modified, resourceMetadataNeedsUpdate, Lookup
<1>3. CASE r # Namespace
  BY <1>1, <1>3 DEF Modified, annotationMapsModified, Lookup
<1> QED
  BY <1>2, <1>3

LEMMA UnmodifiedIsGranted ==
  ASSUME TypeOK, NEW r \in Resources \ {Namespace},
         Selected(r, view[r]) = Selected(r, api[r]), ~Modified(r)
  PROVE  Granted(r, pass.esc.spec)
<1>1. Cached(r) = Selected(r, api[r]) /\ Cached(r).exists
  BY DEF Modified, Cached
<1>2. api[r].labelled /\ Cached(r) = api[r]
  BY <1>1 DEF Selected, NoObject
<1>3. \A k \in KeysOf(pass.esc.spec) : Lookup(api[r].ann, k) = pass.esc.spec[k]
  BY <1>2 DEF Modified, annotationMapsModified
<1> QED
  BY <1>2, <1>3 DEF Granted, Lookup

\* A drift only takes annotations away.
LEMMA DriftOnlyRemoves ==
  ASSUME TypeOK, NEW d \in Resources, Drift(d), NEW r \in Resources, NEW k \in Keys,
         api[r].ann[k] = Absent
  PROVE  api'[r].ann[k] = Absent
<1>1. PICK new \in Object : Store(d, new) /\ (api[d].ann[k] = Absent => new.ann[k] = Absent)
  <2>1. CASE \E j \in KeysOf(api[d].ann) : Store(d, [api[d] EXCEPT !.ann[j] = Absent])
    <3>1. PICK j \in Keys : Store(d, [api[d] EXCEPT !.ann[j] = Absent])
      BY <2>1 DEF KeysOf
    <3> DEFINE new == [api[d] EXCEPT !.ann[j] = Absent]
    <3>2. api[d] \in Object /\ api[d].ann \in [Keys -> AnyValue]
      BY DEF TypeOK, Object, Annotations
    <3>3. new = [api[d] EXCEPT !.ann = [api[d].ann EXCEPT ![j] = Absent]]
      BY <3>2 DEF Object
    <3>4. [api[d].ann EXCEPT ![j] = Absent] \in Annotations
      BY <3>2 DEF Annotations, AnyValue
    <3>5. api[d].ann[k] = Absent => [api[d].ann EXCEPT ![j] = Absent][k] = Absent
      BY <3>2
    <3>6. new \in Object /\ (api[d].ann[k] = Absent => new.ann[k] = Absent)
      BY <3>2, <3>3, <3>4, <3>5 DEF Object
    <3> HIDE DEF new
    <3>7. Store(d, new)
      BY <3>1 DEF new
    <3> QED
      BY <3>6, <3>7
  <2>2. CASE Store(d, [api[d] EXCEPT !.labelled = FALSE])
    <3> DEFINE new == [api[d] EXCEPT !.labelled = FALSE]
    <3>1. new \in Object /\ (api[d].ann[k] = Absent => new.ann[k] = Absent)
      BY DEF TypeOK, Object
    <3> HIDE DEF new
    <3>2. Store(d, new)
      BY <2>2 DEF new
    <3> QED
      BY <3>1, <3>2
  <2>3. CASE Store(d, NoObject)
    BY <2>3, NoObjectType DEF NoObject, NoAnnotations
  <2> QED
    BY <2>1, <2>2, <2>3 DEF Drift
<1> QED
  BY <1>1 DEF Store, TypeOK

-----------------------------------------------------------------------------
(* What is applied, whatever the caches show.                                *)

LEMMA Sources == TheESC \notin Resources
BY ConstantsAssumption DEF TheESC, Resources

LEMMA PositionInit == Init => PassPosition
BY DEF Init, Idle, PassPosition

LEMMA AppliedInit == Init => AppliedInv
<1> SUFFICES ASSUME Init PROVE AppliedInv
  OBVIOUS
<1>1. PassPosition
  BY PositionInit
<1>2. ViewsFollow
  BY DEF Init, ViewsFollow
<1>3. GrantedBehind
  BY DEF Init, GrantedBehind, Quiet
<1> QED
  BY <1>1, <1>2, <1>3 DEF AppliedInv

\* Steps after which something is on its way to the controller.
LEMMA NotQuiet ==
  ASSUME queued' \/ events' # {} PROVE GrantedBehind'
BY DEF GrantedBehind, Quiet

LEMMA PositionAdvance ==
  ASSUME TypeOK, NEW r \in Resources, pass' = Advance(r)
  PROVE  /\ pass'.next = r + 1 /\ pass'.esc = pass.esc /\ pass'.deleted = pass.deleted
         /\ pass'.pc \in {"read", "patch"} /\ PassPosition'
<1>1. /\ pass'.pc = (IF r = N THEN "patch" ELSE "read") /\ pass'.next = r + 1
      /\ pass'.esc = pass.esc /\ pass'.deleted = pass.deleted
  BY DEF Advance, TypeOK, Pass
<1>2. r \in 1..N /\ N \in Nat
  BY ConstantsAssumption DEF Resources
<1> QED
  BY <1>1, <1>2 DEF PassPosition, Resources

\* What is stored of a watched resource is announced unless the cache shows neither the old
\* nor the new version.
LEMMA StoreFollows ==
  ASSUME TypeOK, ViewsFollow, NEW d \in Resources, NEW new \in Object, Store(d, new),
         UNCHANGED <<view, escView>>, esc'.spec = esc.spec, esc'.features = esc.features
  PROVE  ViewsFollow'
<1>1. TheESC \in events' <=> TheESC \in events
  BY Sources DEF Store
<1>2. ASSUME NEW r \in Resources \ {Namespace}, r \notin events'
      PROVE  Selected(r, view[r]) = Selected(r, api'[r])
  <2>1. r \notin events /\ Selected(r, view[r]) = Selected(r, api[r])
    BY <1>2 DEF Store, ViewsFollow
  <2>2. CASE r # d
    BY <2>1, <2>2 DEF Store, TypeOK
  <2>3. CASE r = d
    <3>1. ~api[r].labelled /\ ~new.labelled /\ api'[r] = new
      BY <1>2, <2>3 DEF Store, labelMatchPredicate, TypeOK
    <3> QED
      BY <2>1, <3>1 DEF Selected
  <2> QED
    BY <2>2, <2>3
<1> QED
  BY <1>1, <1>2 DEF ViewsFollow

\* A change of a resource that goes unannounced leaves alone what was granted.
LEMMA StoreGranted ==
  ASSUME TypeOK, GrantedBehind, NEW d \in Resources, NEW new \in Object, Store(d, new),
         UNCHANGED <<esc, pass, queued, err>>
  PROVE  GrantedBehind'
<1>1. CASE events' # {}
  BY <1>1, NotQuiet
<1>2. CASE events' = {}
  <2>1. events = {} /\ (d # Namespace => ~api[d].labelled)
    BY <1>2 DEF Store, labelMatchPredicate
  <2>2. ASSUME NEW r \in Resources \ {Namespace}, Granted(r, esc.spec)
        PROVE  Granted(r, esc.spec)'
    <3>1. r # d
      BY <2>1, <2>2 DEF Granted
    <3>2. api'[r] = api[r]
      BY <3>1 DEF Store, TypeOK
    <3> QED
      BY <2>2, <3>2 DEF Granted
  <2> QED
    BY <2>1, <2>2 DEF GrantedBehind, Quiet, Applies
<1> QED
  BY <1>1, <1>2

LEMMA DriftStores ==
  ASSUME TypeOK, NEW d \in Resources, Drift(d) PROVE \E new \in Object : Store(d, new)
<1>1. \A k \in Keys : [api[d] EXCEPT !.ann[k] = Absent] \in Object
  BY DEF TypeOK, Object, Annotations, AnyValue
<1>2. [api[d] EXCEPT !.labelled = FALSE] \in Object
  BY DEF TypeOK, Object
<1> QED
  BY <1>1, <1>2, NoObjectType DEF Drift, KeysOf

LEMMA AppliedStep == TypeOK /\ AppliedInv /\ [Next]_vars => AppliedInv'
<1> SUFFICES ASSUME TypeOK, AppliedInv, [Next]_vars PROVE AppliedInv'
  OBVIOUS
<1> USE DEF bounds, reads, AppliedInv
<1>1. CASE EditESC
  <2>1. TheESC \in events' /\ UNCHANGED <<pass, api, view, escView>>
        /\ events' = events \cup {TheESC}
    BY <1>1 DEF EditESC
  <2>2. ViewsFollow'
    BY <2>1 DEF ViewsFollow
  <2> QED
    BY <2>1, <2>2, NotQuiet DEF PassPosition
<1>2. CASE SyncESC
  <2>1. UNCHANGED <<esc, api, view, pass, err>> /\ escView' = esc
        /\ (~queued' => events' = events /\ ~queued)
        /\ (\A r \in Resources : r \in events' <=> r \in events)
    BY <1>2, Sources DEF SyncESC
  <2>2. ViewsFollow'
    BY <2>1 DEF ViewsFollow
  <2>3. GrantedBehind'
    BY <2>1, NotQuiet DEF GrantedBehind, Quiet, Granted, Applies
  <2> QED
    BY <2>1, <2>2, <2>3 DEF PassPosition
<1>3. ASSUME NEW d \in Resources, Drift(d) PROVE AppliedInv'
  <2>1. PICK new \in Object : Store(d, new)
    BY <1>3, DriftStores
  <2>2. UNCHANGED <<esc, escView, view, pass, queued, err>>
    BY <1>3 DEF Drift
  <2>3. ViewsFollow'
    BY <2>1, <2>2, StoreFollows
  <2>4. GrantedBehind'
    BY <2>1, <2>2, StoreGranted
  <2> QED
    BY <2>2, <2>3, <2>4 DEF PassPosition
<1>4. ASSUME NEW d \in Resources, SyncResource(d) PROVE AppliedInv'
  <2>1. UNCHANGED <<esc, escView, api, pass, err>> /\ view' = [view EXCEPT ![d] = api[d]]
        /\ (~queued' => events' = events /\ ~queued)
        /\ events' = events \ {d}
    BY <1>4 DEF SyncResource
  <2>2. ViewsFollow'
    BY <2>1, Sources DEF ViewsFollow, TypeOK
  <2>3. GrantedBehind'
    BY <2>1, NotQuiet DEF GrantedBehind, Quiet, Granted, Applies
  <2> QED
    BY <2>1, <2>2, <2>3 DEF PassPosition
<1>5. ASSUME NEW r \in Resources, SkipResource(r) PROVE AppliedInv'
  <2>1. UNCHANGED <<esc, escView, api, view, events, queued, err>> /\ pass' = Advance(r)
        /\ pass.pc = "read" /\ pass.next = r
    BY <1>5 DEF SkipResource
  <2>2. /\ pass'.next = r + 1 /\ pass'.esc = pass.esc
        /\ pass'.pc \in {"read", "patch"} /\ PassPosition'
    BY <2>1, PositionAdvance
  <2>3. ViewsFollow'
    BY <2>1 DEF ViewsFollow
  <2>4. ASSUME Quiet, r # Namespace, Applies(r, esc) PROVE Granted(r, esc.spec)
    <3>1. pass.esc.spec = esc.spec /\ Applies(r, pass.esc)
      BY <2>1, <2>4 DEF GrantedBehind, Applies
    <3>2. ~Modified(r)
      BY <1>5, <3>1 DEF SkipResource
    <3>3. Selected(r, view[r]) = Selected(r, api[r])
      BY <2>4 DEF ViewsFollow, Quiet
    <3> QED
      BY <2>4, <3>1, <3>2, <3>3, UnmodifiedIsGranted
  <2>5. \A s \in Resources : s < r + 1 <=> s < r \/ s = r
    BY ConstantsAssumption DEF Resources
  <2>6. GrantedBehind'
    BY <2>1, <2>2, <2>4, <2>5 DEF GrantedBehind, Quiet, Granted, Applies
  <2> QED
    BY <2>2, <2>3, <2>6
<1>6. ASSUME NEW r \in Resources, ReadModified(r) PROVE AppliedInv'
  <2>1. /\ pass'.pc = "write" /\ pass'.next = pass.next
        /\ pass'.esc = pass.esc /\ pass.pc = "read"
        /\ UNCHANGED <<esc, escView, api, view, events, queued, err>>
    BY <1>6 DEF ReadModified, TypeOK, Pass
  <2> QED
    BY <2>1 DEF PassPosition, ViewsFollow, GrantedBehind, Quiet, Granted, Applies
<1>7. ASSUME NEW r \in Resources, WriteResource(r) PROVE AppliedInv'
  <2>1. /\ Store(r, Desired(r)) /\ Desired(r) \in Object /\ Desired(r).labelled
        /\ UNCHANGED <<esc, escView, view, queued, err>> /\ pass' = Advance(r)
        /\ pass.pc = "write" /\ pass.next = r
    BY <1>7, DesiredType DEF WriteResource, Desired
  <2>2. /\ pass'.next = r + 1 /\ pass'.esc = pass.esc
        /\ pass'.pc \in {"read", "patch"} /\ PassPosition'
    BY <2>1, PositionAdvance
  <2>3. ViewsFollow'
    BY <2>1, StoreFollows
  <2>4. CASE r # Namespace
    BY <2>1, <2>2, <2>3, <2>4, NotQuiet DEF Store, labelMatchPredicate
  <2>5. CASE r = Namespace
    <3>1. events' = events /\ \A s \in Resources \ {Namespace} : api'[s] = api[s]
      BY <2>1, <2>5 DEF Store, labelMatchPredicate, TypeOK
    <3>2. \A s \in Resources : s < r + 1 <=> s < r \/ s = r
      BY ConstantsAssumption DEF Resources
    <3>3. GrantedBehind'
      BY <2>1, <2>2, <2>5, <3>1, <3>2 DEF GrantedBehind, Quiet, Granted, Applies
    <3> QED
      BY <2>2, <2>3, <3>3
  <2> QED
    BY <2>4, <2>5
<1>8. ASSUME NEW r \in Resources, WriteRejected(r) PROVE AppliedInv'
  <2>1. queued' /\ pass'.pc = "idle" /\ UNCHANGED <<esc, escView, api, view, events>>
    BY <1>8 DEF WriteRejected, EndPassWith, Idle
  <2> QED
    BY <2>1, NotQuiet DEF PassPosition, ViewsFollow
<1>9. CASE StartPass
  <2>1. /\ pass'.pc = "read" /\ pass'.next = 1 /\ pass'.esc = escView
        /\ UNCHANGED <<esc, escView, api, view, events, err>>
    BY <1>9 DEF StartPass
  <2>2. 1 \in Resources /\ \A r \in Resources : ~(r < 1)
    BY ConstantsAssumption DEF Resources
  <2>3. Quiet' => TheESC \notin events
    BY <2>1 DEF Quiet
  <2>4. GrantedBehind'
    BY <2>1, <2>2, <2>3 DEF GrantedBehind, ViewsFollow
  <2> QED
    BY <2>1, <2>2, <2>4 DEF PassPosition, ViewsFollow
<1>10. CASE FailStep
  <2>1. /\ pass'.pc = "idle" /\ UNCHANGED <<esc, escView, api, view, events>>
        /\ (queued' \/ err' # "none")
    BY <1>10 DEF FailStep, EndPassWith, Idle
  <2>2. GrantedBehind'
    BY <2>1 DEF GrantedBehind, Quiet
  <2> QED
    BY <2>1, <2>2 DEF PassPosition, ViewsFollow
<1>11. CASE PatchTracking
  <2>1. /\ pass.pc = "patch" /\ pass'.pc = "idle" /\ UNCHANGED <<escView, api, view, events>>
        /\ esc'.spec = esc.spec /\ esc'.features = esc.features /\ (~queued' => ~queued)
    BY <1>11 DEF PatchTracking, EndPassWith, Idle, TypeOK, ESC
  <2>2. pass.next = N + 1 /\ \A r \in Resources : r < pass.next
    BY <2>1, ConstantsAssumption DEF PassPosition, Resources
  <2>3. GrantedBehind'
    BY <2>1, <2>2 DEF GrantedBehind, Quiet, Granted, Applies
  <2> QED
    BY <2>1, <2>3 DEF PassPosition, ViewsFollow
<1>12. CASE Restart
  <2>1. queued' /\ pass'.pc = "idle" /\ escView' = esc' /\ view' = api'
    BY <1>12 DEF Restart, Idle
  <2> QED
    BY <2>1, NotQuiet DEF PassPosition, ViewsFollow
<1>13. CASE UNCHANGED vars
  BY <1>13 DEF vars, PassPosition, ViewsFollow, GrantedBehind, Quiet, Granted, Applies
<1> QED
  BY <1>1, <1>2, <1>3, <1>4, <1>5, <1>6, <1>7, <1>8, <1>9, <1>10, <1>11, <1>12, <1>13
     DEF Next, ResourceStep

\* When the controller has settled, the resources that it watches carry the label and the
\* non-empty annotations of the spec (createOrApply*, HasObjectChanged, the predicates),
\* however often a pass read a cache that lagged behind.
THEOREM AnnotationsApplied == Spec => []DesiredApplied
<1>1. AppliedInv => DesiredApplied
  BY DEF AppliedInv, GrantedBehind, DesiredApplied, Settled
<1> QED
  BY <1>1, TypeInit, TypeStep, AppliedInit, AppliedStep, PTL DEF Spec

-----------------------------------------------------------------------------
(* What a pass does to the tracking annotation when it read what there was.  *)

LEMMA TrackingInit == Init => TrackingInv
BY DEF Init, Idle, TrackingInv, PassKnowsTracking, PassPosition, CleanBehind, EditsAreComing

\* A resource step that leaves resource r as the pass wants it and moves on.
LEMMA AdvanceKeepsInv ==
  ASSUME TypeOK, TrackingInv, NEW r \in Resources,
         pass.pc \in {"read", "write"}, pass.next = r, pass' = Advance(r),
         \A s \in Resources : s # r => api'[s] = api[s],
         current' => current,
         current' /\ Applies(r, pass.esc) =>
           \A k \in pass.deleted : api'[r].ann[k] = Absent,
         UNCHANGED <<esc, queued>>,
         TheESC \in events' <=> TheESC \in events
  PROVE  TrackingInv'
<1>1. /\ pass'.next = r + 1 /\ pass'.esc = pass.esc /\ pass'.deleted = pass.deleted
      /\ pass'.pc \in {"read", "patch"} /\ PassPosition'
  BY PositionAdvance
<1>2. PassKnowsTracking'
  BY <1>1 DEF TrackingInv, PassKnowsTracking
<1>3. \A s \in Resources : s < r + 1 <=> s < r \/ s = r
  BY ConstantsAssumption DEF Resources
<1>4. CleanBehind'
  BY <1>1, <1>3 DEF TrackingInv, CleanBehind, Applies
<1>5. EditsAreComing'
  BY <1>1 DEF TrackingInv, EditsAreComing
<1> QED
  BY <1>1, <1>2, <1>4, <1>5 DEF TrackingInv

\* A pass that ends in an error, or never ran: nothing is claimed of it.
LEMMA EndKeepsInv ==
  ASSUME TrackingInv, pass' = Idle, err' # "none" \/ queued'
  PROVE  TrackingInv'
BY DEF Idle, TrackingInv, PassKnowsTracking, PassPosition, CleanBehind, EditsAreComing

LEMMA TrackingStep == TypeOK /\ TrackingInv /\ [Next]_vars => TrackingInv'
<1> SUFFICES ASSUME TypeOK, TrackingInv, [Next]_vars PROVE TrackingInv'
  OBVIOUS
<1> USE DEF bounds, reads
<1>1. CASE EditESC
  <2>1. /\ esc'.tracked = esc.tracked /\ TheESC \in events'
        /\ UNCHANGED <<api, pass, current>>
    BY <1>1 DEF EditESC, TypeOK, ESC
  <2>2. PassKnowsTracking' /\ PassPosition' /\ CleanBehind'
    BY <2>1 DEF TrackingInv, PassKnowsTracking, PassPosition, CleanBehind, Applies
  <2>3. EditsAreComing'
    BY <2>1 DEF EditsAreComing
  <2> QED
    BY <2>2, <2>3 DEF TrackingInv
<1>2. CASE SyncESC
  <2>1. UNCHANGED <<esc, api, pass, err, current>>
    BY <1>2 DEF SyncESC
  <2>2. (~queued' /\ TheESC \notin events') => (~queued /\ TheESC \notin events)
    BY <1>2 DEF SyncESC
  <2>3. PassKnowsTracking' /\ PassPosition' /\ CleanBehind'
    BY <2>1 DEF TrackingInv, PassKnowsTracking, PassPosition, CleanBehind, Applies
  <2>4. EditsAreComing'
    BY <2>1, <2>2 DEF TrackingInv, EditsAreComing
  <2> QED
    BY <2>3, <2>4 DEF TrackingInv
<1>3. ASSUME NEW d \in Resources, Drift(d) PROVE TrackingInv'
  <2>1. UNCHANGED <<esc, pass, queued, err, current>>
    BY <1>3 DEF Drift
  <2>3. TheESC \in events' <=> TheESC \in events
    <3>1. d # TheESC
      BY ConstantsAssumption DEF TheESC, Resources
    <3>2. events' = events \/ events' = events \cup {d}
      BY <1>3 DEF Drift, Store
    <3> QED
      BY <3>1, <3>2
  <2>4. PassKnowsTracking' /\ PassPosition'
    BY <2>1 DEF TrackingInv, PassKnowsTracking, PassPosition
  <2>5. pass.deleted \subseteq Keys
    BY DEF TypeOK, Pass
  <2>6. CleanBehind'
    <3> SUFFICES ASSUME current, pass.pc # "idle", NEW r \in Resources, r < pass.next,
                        Applies(r, pass.esc), NEW k \in pass.deleted
                 PROVE  api'[r].ann[k] = Absent
      BY <2>1 DEF CleanBehind, Applies
    <3>1. api[r].ann[k] = Absent
      BY DEF TrackingInv, CleanBehind
    <3> QED
      BY <1>3, <2>5, <3>1, DriftOnlyRemoves
  <2>8. EditsAreComing'
    BY <2>1, <2>3 DEF TrackingInv, EditsAreComing
  <2> QED
    BY <2>4, <2>6, <2>8 DEF TrackingInv
<1>4. ASSUME NEW r \in Resources, SyncResource(r) PROVE TrackingInv'
  <2>1. UNCHANGED <<esc, api, pass, err, current>>
    BY <1>4 DEF SyncResource
  <2>2. (~queued' /\ TheESC \notin events') => (~queued /\ TheESC \notin events)
    BY <1>4, ConstantsAssumption DEF SyncResource, TheESC, Resources
  <2>3. PassKnowsTracking' /\ PassPosition' /\ CleanBehind'
    BY <2>1 DEF TrackingInv, PassKnowsTracking, PassPosition, CleanBehind, Applies
  <2>4. EditsAreComing'
    BY <2>1, <2>2 DEF TrackingInv, EditsAreComing
  <2> QED
    BY <2>3, <2>4 DEF TrackingInv
<1>5. ASSUME NEW r \in Resources, SkipResource(r) PROVE TrackingInv'
  <2>1. current' => current
    BY <1>5 DEF SkipResource, ReadResource
  <2>2. current' /\ Applies(r, pass.esc) => \A k \in pass.deleted : api[r].ann[k] = Absent
    BY <1>5, UnmodifiedIsClean DEF SkipResource, ReadResource
  <2> QED
    BY <1>5, <2>1, <2>2, AdvanceKeepsInv DEF SkipResource
<1>6. ASSUME NEW r \in Resources, ReadModified(r) PROVE TrackingInv'
  <2>1. /\ pass'.pc = "write" /\ pass'.next = pass.next
        /\ pass'.esc = pass.esc /\ pass'.deleted = pass.deleted
        /\ pass.pc = "read" /\ UNCHANGED <<esc, api, events, queued, err>>
        /\ (current' => current)
    BY <1>6 DEF ReadModified, ReadResource, TypeOK, Pass
  <2> QED
    BY <2>1 DEF TrackingInv, PassKnowsTracking, PassPosition, CleanBehind, EditsAreComing, Applies
<1>7. ASSUME NEW r \in Resources, WriteResource(r) PROVE TrackingInv'
  <2>1. pass.pc = "write" /\ api'[r] = Desired(r)
    BY <1>7 DEF WriteResource, Store, TypeOK
  <2>2. \A s \in Resources : s # r => api'[s] = api[s]
    BY <1>7 DEF WriteResource, Store, TypeOK
  <2>3. TheESC \in events' <=> TheESC \in events
    BY <1>7, ConstantsAssumption DEF WriteResource, Store, TheESC, Resources
  <2>4. current => \A k \in pass.deleted : api'[r].ann[k] = Absent
    BY <2>1, DesiredIsClean DEF TrackingInv
  <2> QED
    BY <1>7, <2>1, <2>2, <2>3, <2>4, AdvanceKeepsInv DEF WriteResource
<1>8. ASSUME NEW r \in Resources, WriteRejected(r) PROVE TrackingInv'
  BY <1>8, EndKeepsInv DEF WriteRejected, EndPassWith
<1>9. CASE StartPass
  <2>1. /\ pass'.pc = "read" /\ pass'.next = 1 /\ UNCHANGED esc
        /\ current' => /\ pass'.esc = esc
                       /\ pass'.deleted = esc.tracked \ KeysOf(esc.spec)
    BY <1>9 DEF StartPass, getResourceAnnotations
  <2>2. 1 \in Resources /\ \A r \in Resources : ~(r < 1)
    BY ConstantsAssumption DEF Resources
  <2> QED
    BY <2>1, <2>2 DEF TrackingInv, PassKnowsTracking, PassPosition, CleanBehind,
                      EditsAreComing
<1>10. CASE FailStep
  BY <1>10, EndKeepsInv DEF FailStep, EndPassWith
<1>11. CASE PatchTracking
  <2>1. pass.pc = "patch" /\ pass' = Idle /\ err' = "none" /\ UNCHANGED <<events, current>>
        /\ (~queued' => ~queued)
    BY <1>11 DEF PatchTracking, EndPassWith
  <2>2. ASSUME current
        PROVE  esc'.spec = esc.spec /\ esc'.tracked = KeysOf(pass.esc.spec)
    <3>1. pass.esc \in ESC /\ pass.deleted = pass.esc.tracked \ KeysOf(pass.esc.spec)
      BY <2>1, <2>2 DEF TrackingInv, PassKnowsTracking, TypeOK, Pass
    <3>2. AddManagedMetadataAnnotation(pass.esc, pass.deleted) = KeysOf(pass.esc.spec)
      BY <3>1, TrackingIsKeysOfSpec
    <3> QED
      BY <1>11, <2>1, <2>2, <3>2
         DEF PatchTracking, AddManagedMetadataAnnotation, TrackingInv, PassKnowsTracking,
             TypeOK, ESC
  <2>3. EditsAreComing'
    BY <2>1, <2>2 DEF TrackingInv, EditsAreComing, Idle
  <2> QED
    BY <2>1, <2>3 DEF TrackingInv, PassKnowsTracking, PassPosition, CleanBehind, Idle
<1>12. CASE Restart
  BY <1>12, EndKeepsInv DEF Restart
<1>13. CASE UNCHANGED vars
  BY <1>13 DEF vars, TrackingInv, PassKnowsTracking, PassPosition, CleanBehind, EditsAreComing, Applies
<1> QED
  BY <1>1, <1>2, <1>3, <1>4, <1>5, <1>6, <1>7, <1>8, <1>9, <1>10, <1>11, <1>12, <1>13
     DEF Next, ResourceStep

LEMMA TrackingInvariant == Spec => [](TypeOK /\ TrackingInv)
<1>1. Init => TypeOK /\ TrackingInv
  BY TypeInit, TrackingInit
<1>2. TypeOK /\ TrackingInv /\ [Next]_vars => (TypeOK /\ TrackingInv)'
  BY TypeStep, TrackingStep
<1> QED
  BY <1>1, <1>2, PTL DEF Spec

-----------------------------------------------------------------------------

\* After a successful pass that read the ESC as it was and has seen the latest edit, the
\* tracking annotation names exactly the keys of the spec (AddManagedMetadataAnnotation,
\* updateCRAnnotationsIfNeeded), whatever earlier passes on stale copies made of it.
THEOREM TrackingExact == Spec => []TrackingMatchesSpec
<1>1. TypeOK /\ TrackingInv => TrackingMatchesSpec
  BY DEF TrackingInv, EditsAreComing, TrackingMatchesSpec, Settled, Quiet
<1> QED
  BY <1>1, TrackingInvariant, PTL

\* A pass that read what the server had lets no key leave the tracking annotation while a
\* resource that it reconciles carries the key: the order that the comment on
\* reconcileExternalSecretsDeployment promises, for as long as its reads are current.
THEOREM TrackingOrder == Spec => TrackedUntilRemoved
<1> DEFINE Kept == current => ~ \E k \in Keys : Forgotten(k)
<1>1. TypeOK /\ TrackingInv /\ [Next]_vars => [Kept]_vars
  <2> SUFFICES ASSUME TypeOK, TrackingInv, Next, current, NEW k \in Keys
               PROVE  ~Forgotten(k)
    BY DEF vars
  <2>1. CASE PatchTracking
    <3>1. pass.pc = "patch" /\ pass.next = N + 1 /\ pass.esc \in ESC
      BY <2>1 DEF PatchTracking, TrackingInv, PassPosition, TypeOK, Pass
    <3>2. pass.esc.tracked = esc.tracked
          /\ pass.deleted = pass.esc.tracked \ KeysOf(pass.esc.spec)
      BY <3>1 DEF TrackingInv, PassKnowsTracking
    <3>3. AddManagedMetadataAnnotation(pass.esc, pass.deleted) = KeysOf(pass.esc.spec)
      BY <3>1, <3>2, TrackingIsKeysOfSpec
    <3>4. esc.tracked \ esc'.tracked \subseteq pass.deleted
      BY <2>1, <3>2, <3>3 DEF PatchTracking, TypeOK, ESC
    <3>5. \A r \in Resources : r < pass.next
      BY <3>1, ConstantsAssumption DEF Resources
    <3> QED
      BY <3>1, <3>4, <3>5 DEF TrackingInv, CleanBehind, Forgotten
  <2>2. CASE ~PatchTracking
    <3>1. esc'.tracked = esc.tracked
      BY <2>2 DEF Next, ResourceStep, EditESC, SyncESC, Drift, SyncResource, SkipResource,
                  ReadModified, WriteResource, WriteRejected, StartPass, FailStep, Restart,
                  TypeOK, ESC
    <3> QED
      BY <3>1 DEF Forgotten
  <2> QED
    BY <2>1, <2>2
<1> QED
  BY <1>1, TrackingInvariant, PTL DEF Spec, TrackedUntilRemoved
=============================================================================
