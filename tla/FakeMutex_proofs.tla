--------------------------- MODULE FakeMutex_proofs ---------------------------
(* Theorems about FakeMutex, for any set of addresses and any nesting depth.  *)
EXTENDS FakeMutex, TLAPS

\* What the fields of one mutex have to do with each other.
Counted(h) ==
  /\ queueType[h] = Plain => outstanding[h] = 1 - tokens[h]
  /\ queueType[h] = Recursive =>
       /\ outstanding[h] = recursiveCallCount[h]
       /\ tokens[h] = (IF recursiveCallCount[h] = 0 THEN 1 ELSE 0)

AllCounted == \A h \in live : Counted(h)

\* The list is exact, as long as no tracked recursive mutex is deleted.
ListIsExact ==
  /\ \A h \in tracked : queueType[h] # Other
  /\ ~DeleteRecursive => s_mutexes = tracked
  /\ ~tracking => tracked = {}

IInv == TypeOK /\ AllCounted /\ ListIsExact

LEMMA TypesDiffer == Plain # Recursive /\ Plain # Other /\ Recursive # Other
  BY DEF Plain, Recursive, Other

LEMMA InitEstablishes == Init => IInv
<1> SUFFICES ASSUME Init PROVE IInv
  OBVIOUS
<1>1. TypeOK
  <2>1. tracking \in BOOLEAN
    BY Zenon DEF Init
  <2>2. queueType \in [Handles -> Types]
    BY DEF Init, Types
  <2>3. /\ tokens \in [Handles -> {0, 1}]
        /\ recursiveCallCount \in [Handles -> 0 .. MaxDepth]
        /\ outstanding \in [Handles -> 0 .. MaxDepth]
    BY DepthAssumption DEF Init
  <2>4. live \subseteq Handles /\ s_mutexes \subseteq Handles /\ tracked \subseteq live
    BY Zenon DEF Init
  <2> QED
    BY <2>1, <2>2, <2>3, <2>4 DEF TypeOK
<1>2. AllCounted /\ ListIsExact
  BY DEF Init, AllCounted, ListIsExact
<1> QED
  BY <1>1, <1>2 DEF IInv

LEMMA StepPreservesType == IInv /\ [Next]_vars => TypeOK'
<1> SUFFICES ASSUME IInv, [Next]_vars PROVE TypeOK'
  OBVIOUS
<1> USE DepthAssumption, TypesDiffer DEF IInv, TypeOK
<1>1. CASE MutexTrackingInit
  BY <1>1 DEF MutexTrackingInit
<1>2. CASE MutexTrackingTeardown
  BY <1>2 DEF MutexTrackingTeardown
<1>3. ASSUME NEW h \in Handles, NEW type \in {Plain, Recursive}, xQueueCreateMutex(h, type)
      PROVE  TypeOK'
  BY <1>3 DEF xQueueCreateMutex, Types
<1>4. ASSUME NEW h \in Handles, xQueueGenericCreate(h) PROVE TypeOK'
  BY <1>4 DEF xQueueGenericCreate, Types
<1>5. ASSUME NEW h \in Handles, vQueueDelete(h) PROVE TypeOK'
  BY <1>5 DEF vQueueDelete, MutexAboutToDelete
<1>6. ASSUME NEW h \in Handles, xQueueSemaphoreTake(h) PROVE TypeOK'
  BY <1>6 DEF xQueueSemaphoreTake, AllCounted, Counted
<1>7. ASSUME NEW h \in Handles, xSemaphoreGive(h) PROVE TypeOK'
  BY <1>7 DEF xSemaphoreGive, CanGive, AllCounted, Counted
<1>8. ASSUME NEW h \in Handles, SendOther(h) PROVE TypeOK'
  BY <1>8 DEF SendOther, CanGive
<1>9. ASSUME NEW h \in Handles, ReceiveOther(h) PROVE TypeOK'
  BY <1>9 DEF ReceiveOther
<1>10. ASSUME NEW h \in Handles, xQueueTakeMutexRecursive(h) PROVE TypeOK'
  BY <1>10 DEF xQueueTakeMutexRecursive, AllCounted, Counted
<1>11. ASSUME NEW h \in Handles, xQueueGiveMutexRecursive(h) PROVE TypeOK'
  BY <1>11 DEF xQueueGiveMutexRecursive, LastGive, AllCounted, Counted
<1>12. CASE UNCHANGED vars
  BY <1>12 DEF vars
<1> QED
  BY <1>1, <1>2, <1>3, <1>4, <1>5, <1>6, <1>7, <1>8, <1>9, <1>10, <1>11, <1>12 DEF Next

LEMMA StepPreservesCounts == IInv /\ [Next]_vars => AllCounted'
<1> SUFFICES ASSUME IInv, [Next]_vars, NEW g \in live' PROVE Counted(g)'
  BY DEF AllCounted
<1> USE DepthAssumption, TypesDiffer DEF IInv, TypeOK, AllCounted, Counted
<1>1. CASE MutexTrackingInit
  BY <1>1 DEF MutexTrackingInit
<1>2. CASE MutexTrackingTeardown
  BY <1>2 DEF MutexTrackingTeardown
<1>3. ASSUME NEW h \in Handles, NEW type \in {Plain, Recursive}, xQueueCreateMutex(h, type)
      PROVE  Counted(g)'
  BY <1>3 DEF xQueueCreateMutex
<1>4. ASSUME NEW h \in Handles, xQueueGenericCreate(h) PROVE Counted(g)'
  BY <1>4 DEF xQueueGenericCreate
<1>5. ASSUME NEW h \in Handles, vQueueDelete(h) PROVE Counted(g)'
  BY <1>5 DEF vQueueDelete
<1>6. ASSUME NEW h \in Handles, xQueueSemaphoreTake(h) PROVE Counted(g)'
  BY <1>6 DEF xQueueSemaphoreTake
<1>7. ASSUME NEW h \in Handles, xSemaphoreGive(h) PROVE Counted(g)'
  BY <1>7 DEF xSemaphoreGive
<1>8. ASSUME NEW h \in Handles, SendOther(h) PROVE Counted(g)'
  BY <1>8 DEF SendOther
<1>9. ASSUME NEW h \in Handles, ReceiveOther(h) PROVE Counted(g)'
  BY <1>9 DEF ReceiveOther
<1>10. ASSUME NEW h \in Handles, xQueueTakeMutexRecursive(h) PROVE Counted(g)'
  BY <1>10 DEF xQueueTakeMutexRecursive
<1>11. ASSUME NEW h \in Handles, xQueueGiveMutexRecursive(h) PROVE Counted(g)'
  BY <1>11 DEF xQueueGiveMutexRecursive, LastGive
<1>12. CASE UNCHANGED vars
  BY <1>12 DEF vars
<1> QED
  BY <1>1, <1>2, <1>3, <1>4, <1>5, <1>6, <1>7, <1>8, <1>9, <1>10, <1>11, <1>12 DEF Next

\* Only creation, deletion and tracking touch the list or a queue's type.
LEMMA StepPreservesList == IInv /\ [Next]_vars => ListIsExact'
<1> SUFFICES ASSUME IInv, [Next]_vars PROVE ListIsExact'
  OBVIOUS
<1> USE TypesDiffer DEF IInv, TypeOK, ListIsExact
<1>1. CASE MutexTrackingInit
  BY <1>1 DEF MutexTrackingInit
<1>2. CASE MutexTrackingTeardown
  BY <1>2 DEF MutexTrackingTeardown
<1>3. ASSUME NEW h \in Handles, NEW type \in {Plain, Recursive}, xQueueCreateMutex(h, type)
      PROVE  ListIsExact'
  BY <1>3 DEF xQueueCreateMutex
<1>4. ASSUME NEW h \in Handles, xQueueGenericCreate(h) PROVE ListIsExact'
  BY <1>4 DEF xQueueGenericCreate
<1>5. ASSUME NEW h \in Handles, vQueueDelete(h) PROVE ListIsExact'
  BY <1>5, DeleteAssumption DEF vQueueDelete, MutexAboutToDelete, Types
<1>6. CASE UNCHANGED <<live, queueType, tracking, s_mutexes, tracked>>
  BY <1>6
<1> QED
  BY <1>1, <1>2, <1>3, <1>4, <1>5, <1>6
  DEF Next, vars, xQueueSemaphoreTake, xSemaphoreGive, SendOther, ReceiveOther,
      xQueueTakeMutexRecursive, xQueueGiveMutexRecursive

\* The inductive invariant of FakeMutex.
THEOREM Invariance == Spec => []IInv
<1>1. Init => IInv
  BY InitEstablishes
<1>2. IInv /\ [Next]_vars => IInv'
  BY StepPreservesType, StepPreservesCounts, StepPreservesList DEF IInv
<1> QED
  BY <1>1, <1>2, PTL DEF Spec

\* Every field keeps its type, whatever tests do with the mutexes.
THEOREM TypeCorrect == Spec => []TypeOK
<1>1. IInv => TypeOK
  BY DEF IInv
<1> QED
  BY <1>1, Invariance, PTL

\* A mutex is without its token exactly while takes outnumber gives.
THEOREM LockedExactly == Spec => []LockedIffOutstanding
<1>1. IInv => LockedIffOutstanding
  <2> SUFFICES ASSUME IInv, NEW h \in live, queueType[h] # Other
               PROVE  tokens[h] = 0 <=> outstanding[h] > 0
    BY DEF LockedIffOutstanding
  <2> QED
    BY DepthAssumption DEF IInv, TypeOK, AllCounted, Counted, Types
<1> QED
  BY <1>1, Invariance, PTL

\* If every handle in the list is live, the verdict is read from the tokens.
LEMMA LiveListGivesOneAnswer ==
  ASSUME s_mutexes \subseteq live
  PROVE  IsAnyMutexLocked = {\E h \in s_mutexes : tokens[h] = 0}
<1> DEFINE locked == \E h \in s_mutexes : tokens[h] = 0
<1>1. \A h \in s_mutexes : ReadsLocked(h) = {tokens[h] = 0}
  BY DEF ReadsLocked
<1>2. TRUE \in IsAnyMutexLocked <=> locked
  BY <1>1 DEF IsAnyMutexLocked
<1>3. FALSE \in IsAnyMutexLocked <=> ~locked
  BY <1>1 DEF IsAnyMutexLocked
<1>4. IsAnyMutexLocked \subseteq {TRUE, FALSE}
  BY DEF IsAnyMutexLocked
<1>5. CASE locked
  <2>1. IsAnyMutexLocked = {TRUE}
    BY <1>2, <1>3, <1>4, <1>5
  <2> QED
    BY <1>5, <2>1
<1>6. CASE ~locked
  <2>1. IsAnyMutexLocked = {FALSE}
    BY <1>2, <1>3, <1>4, <1>6
  <2> QED
    BY <1>6, <2>1
<1> QED
  BY <1>5, <1>6

\* Unless a tracked recursive mutex is deleted, IsAnyMutexLocked tells the
\* truth about the mutexes that exist.
THEOREM TrackingIsSound ==
  ASSUME ~DeleteRecursive
  PROVE  Spec => []VerdictIsTruth
<1>1. IInv => VerdictIsTruth
  <2> SUFFICES ASSUME IInv, tracking
               PROVE  IsAnyMutexLocked = {\E h \in tracked : outstanding[h] > 0}
    BY DEF VerdictIsTruth
  <2>1. s_mutexes = tracked /\ tracked \subseteq live
    BY DEF IInv, TypeOK, ListIsExact
  <2>2. ASSUME NEW h \in tracked PROVE tokens[h] = 0 <=> outstanding[h] > 0
    BY <2>1, DepthAssumption DEF IInv, TypeOK, AllCounted, Counted, ListIsExact, Types
  <2>3. (\E h \in s_mutexes : tokens[h] = 0) <=> (\E h \in tracked : outstanding[h] > 0)
    BY <2>1, <2>2
  <2> QED
    BY <2>1, <2>3, LiveListGivesOneAnswer
<1> QED
  BY <1>1, Invariance, PTL

\* Under the same rule a mutex that was deleted while locked, or while tracking
\* was off, never makes IsAnyMutexLocked report a lock that nobody holds.
THEOREM DeletedStaysSilent ==
  ASSUME ~DeleteRecursive
  PROVE  Spec => []DeletedIsNotReported
<1>1. IInv => DeletedIsNotReported
  <2> SUFFICES ASSUME IInv, \A h \in tracked : outstanding[h] = 0
               PROVE  IsAnyMutexLocked = {FALSE}
    BY DEF DeletedIsNotReported
  <2>1. s_mutexes = tracked /\ tracked \subseteq live
    BY DEF IInv, TypeOK, ListIsExact
  <2>2. \A h \in s_mutexes : tokens[h] # 0
    BY <2>1, DepthAssumption DEF IInv, TypeOK, AllCounted, Counted, ListIsExact, Types
  <2> QED
    BY <2>1, <2>2, LiveListGivesOneAnswer
<1> QED
  BY <1>1, Invariance, PTL
=============================================================================
