---------------------------- MODULE TestRun_proofs ----------------------------
(* Theorems about TestRun: what a test leaves behind, and for how long, for   *)
(* any queue, timer period and moves of time.                                 *)
EXTENDS TestRun, TLAPS

Up == s_fakeTimers # NULL

Clean == LibraryIsDown /\ ServiceIsDown

\* A locked mutex kept LibTeardownAll from its work.
Leaked == Up /\ ~s_mutexes /\ ServiceIsDown

\* A full queue keeps HLCS_Destroy from its work, in this test and in all others.
Poisoned == Up /\ s_eventQueue = QueueDepth

Explained == failed => blame \/ lastFailed

\* What a test may find when it begins.
FoundAtStart ==
  pc \in {"AssertOutputEnable", "TimersInit"} =>
    Clean \/ (lastFailed /\ (Poisoned \/ (Leaked /\ lastBlame)))

\* The places of the setup behind TimersInit are reached from scratch only.
SetupIsClean ==
  /\ pc = "MutexTrackingInit" => Leaked
  /\ pc = "HLCS_Init" => Up /\ s_mutexes /\ ServiceIsDown

\* The service runs, and nobody has failed yet.
BodyRuns ==
  /\ pc \in {"register", "body"} =>
       Up /\ s_mutexes /\ s_eventQueue # NULL /\ s_timer # NULL
  /\ pc \in Setup \cup {"body"} => ~failed /\ ~blame

\* The teardown comes after a body, or after a setup that found something.
TeardownFollows ==
  pc = "HLCS_Destroy" =>
    /\ Up
    /\ Explained
    /\ expected => failed
    /\ \/ /\ s_mutexes /\ s_eventQueue # NULL /\ s_timer # NULL
          /\ locked \/ s_eventQueue = QueueDepth => blame
       \/ failed /\ lastFailed /\ (Poisoned \/ Leaked)

DestroyedIsDown ==
  pc \in Teardown \ {"HLCS_Destroy"} =>
    /\ Up /\ ServiceIsDown
    /\ Explained
    /\ s_mutexes /\ locked => blame
    /\ pc = "TimersDestroy" => ~s_mutexes

\* What a test may leave behind.
LeftAtEnd ==
  pc = "done" => Explained /\ (Clean \/ (failed /\ (Poisoned \/ (Leaked /\ blame))))

ExpectedInBody == expected => pc \in {"body", "HLCS_Destroy", "clear"}

IInv ==
  /\ TypeOK
  /\ FoundAtStart
  /\ SetupIsClean
  /\ BodyRuns
  /\ TeardownFollows
  /\ DestroyedIsDown
  /\ LeftAtEnd
  /\ ExpectedInBody
  /\ SilenceIsOwn

-----------------------------------------------------------------------------
LEMMA Initially == Init => IInv
  BY DepthAssumption, NullAssumption, TimeAssumption, PeriodAssumption
  DEF Init, IInv, TypeOK, FoundAtStart, SetupIsClean, BodyRuns, TeardownFollows,
      DestroyedIsDown, LeftAtEnd, ExpectedInBody, SilenceIsOwn, Setup, Teardown,
      Clean, LibraryIsDown, ServiceIsDown

\* An assertion that ends the body leaves what the teardown can cope with, or has
\* somebody to blame.
LEMMA BodyEnds ==
  ASSUME IInv, pc = "body", cmsAssertCalled,
         s_fakeTimers' \in 0 .. MaxTime,
         s_eventQueue' \in 0 .. QueueDepth,
         s_timer' \in 0 .. (MaxTime + Period),
         s_currentState' \in BOOLEAN,
         UNCHANGED <<s_mutexes, locked, m_printAssert, s_exitThread, registered,
                     muted, last>>
  PROVE  IInv'
  <1>1. pc' = "HLCS_Destroy" /\ expected' = FALSE
    BY DEF cmsAssertCalled, Leave, Teardown
  <1>2. TypeOK'
    BY <1>1 DEF IInv, TypeOK, cmsAssertCalled, LeavesMess, last, Teardown
  <1>3. TeardownFollows'
    <2>1. ~failed /\ ~blame /\ s_mutexes
      BY DEF IInv, BodyRuns
    <2>2. failed' = ~expected /\ blame' = (~expected \/ LeavesMess)
      BY <2>1 DEF cmsAssertCalled
    <2>3. Up' /\ s_mutexes' /\ s_eventQueue' # NULL /\ s_timer' # NULL
      BY <2>1, NullAssumption, DepthAssumption, TimeAssumption, PeriodAssumption DEF Up
    <2>4. Explained' /\ (expected' => failed') /\ (locked' \/ s_eventQueue' = QueueDepth => blame')
      BY <1>1, <2>2 DEF Explained, LeavesMess
    <2> QED
      BY <2>3, <2>4 DEF TeardownFollows
  <1>4. FoundAtStart' /\ SetupIsClean' /\ BodyRuns' /\ DestroyedIsDown' /\ LeftAtEnd'
    BY <1>1 DEF FoundAtStart, SetupIsClean, BodyRuns, DestroyedIsDown, LeftAtEnd,
                Setup, Teardown
  <1>5. ExpectedInBody' /\ SilenceIsOwn'
    BY <1>1 DEF IInv, ExpectedInBody, SilenceIsOwn
  <1> QED
    BY <1>2, <1>3, <1>4, <1>5 DEF IInv

\* Every step of a test keeps the invariant.
LEMMA Inductive == IInv /\ [Next]_vars => IInv'
  <1> SUFFICES ASSUME IInv, [Next]_vars PROVE IInv'
    OBVIOUS
  <1> USE DepthAssumption, NullAssumption, TimeAssumption, PeriodAssumption
      DEF IInv, TypeOK, FoundAtStart, SetupIsClean, BodyRuns, TeardownFollows,
          DestroyedIsDown, LeftAtEnd, ExpectedInBody, SilenceIsOwn, Setup, Teardown,
          Clean, LibraryIsDown, ServiceIsDown, Up, Leaked, Poisoned, Explained,
          library, service, verdict, last
  <1>1. CASE AssertOutputEnable
    BY <1>1 DEF AssertOutputEnable, Output, Proceed
  <1>2. CASE TimersInit
    <2>1. CASE s_fakeTimers = NULL
      BY <1>2, <2>1 DEF TimersInit, Proceed, cmsAssertCalled, Leave
    <2>2. CASE s_fakeTimers # NULL
      BY <1>2, <2>2 DEF TimersInit, Proceed, cmsAssertCalled, Leave
    <2> QED
      BY <2>1, <2>2
  <1>3. CASE MutexTrackingInit
    BY <1>3 DEF MutexTrackingInit, Proceed, cmsAssertCalled, Leave
  <1>4. CASE HLCS_Init
    BY <1>4 DEF HLCS_Init, Proceed, cmsAssertCalled, Leave
  <1>5. CASE Register
    BY <1>5 DEF Register, Proceed
  <1>6. CASE MockExpectAssert
    BY <1>6 DEF MockExpectAssert
  <1>7. CASE AssertOutputDisable
    BY <1>7 DEF AssertOutputDisable
  <1>8. CASE TakeOrGiveMutex
    BY <1>8 DEF TakeOrGiveMutex
  <1>9. CASE HLCS_Start
    <2>1. CASE s_currentState
      BY <1>9, <2>1, BodyEnds DEF HLCS_Start
    <2>2. CASE ~s_currentState
      BY <1>9, <2>2 DEF HLCS_Start, Proceed
    <2> QED
      BY <2>1, <2>2
  <1>10. CASE HLCS_RequestAsync
    <2>1. CASE s_eventQueue = QueueDepth
      BY <1>10, <2>1, BodyEnds DEF HLCS_RequestAsync, HLCS_PushEvent, Full
    <2>2. CASE s_eventQueue # QueueDepth
      BY <1>10, <2>2 DEF HLCS_RequestAsync, HLCS_PushEvent, Full, Proceed
    <2> QED
      BY <2>1, <2>2
  <1>11. CASE HLCS_ProcessOneEvent
    <2>1. CASE Proceed("body")
      BY <1>11, <2>1 DEF HLCS_ProcessOneEvent, Proceed
    <2>2. CASE s_eventQueue' < s_eventQueue /\ cmsAssertCalled
      BY <1>11, <2>2, BodyEnds DEF HLCS_ProcessOneEvent
    <2> QED
      BY <1>11, <2>1, <2>2 DEF HLCS_ProcessOneEvent
  <1>12. CASE MoveTimeForward
    <2>1. CASE s_timer # s_fakeTimers + 1
      BY <1>12, <2>1 DEF MoveTimeForward, Proceed
    <2>2. CASE s_timer = s_fakeTimers + 1 /\ s_eventQueue = QueueDepth
      <3>1. s_fakeTimers' \in 0 .. MaxTime /\ s_timer' \in 0 .. (MaxTime + Period)
        BY <1>12, <2>2 DEF MoveTimeForward
      <3>2. s_eventQueue' = s_eventQueue /\ cmsAssertCalled
        BY <1>12, <2>2 DEF MoveTimeForward, HLCS_PushEvent, Full
      <3>3. s_eventQueue \in 0 .. QueueDepth
        BY <2>2
      <3> QED
        BY <1>12, <3>1, <3>2, <3>3, BodyEnds DEF MoveTimeForward
    <2>3. CASE s_timer = s_fakeTimers + 1 /\ s_eventQueue # QueueDepth
      BY <1>12, <2>3 DEF MoveTimeForward, HLCS_PushEvent, Full, Proceed
    <2> QED
      BY <2>1, <2>2, <2>3
  <1>13. CASE EndOfBody
    BY <1>13 DEF EndOfBody, LeavesMess
  <1>14. CASE HLCS_Destroy
    <2>1. CASE s_eventQueue # NULL /\ Full(s_eventQueue)
      <3>1. pc' = "done" /\ expected' = FALSE /\ blame' = blame
        BY <1>14, <2>1 DEF HLCS_Destroy, cmsAssertCalled, Leave
      <3>2. failed' /\ (blame' \/ lastFailed')
        <4>1. blame \/ lastFailed
          BY <1>14, <2>1 DEF HLCS_Destroy, Full
        <4>2. failed'
          BY <1>14, <2>1 DEF HLCS_Destroy, cmsAssertCalled
        <4> QED
          BY <1>14, <3>1, <4>1, <4>2 DEF HLCS_Destroy
      <3>3. Poisoned'
        BY <1>14, <2>1 DEF HLCS_Destroy, Full
      <3>4. TypeOK'
        BY <1>14, <2>1, <3>1, <3>2 DEF HLCS_Destroy, cmsAssertCalled
      <3> QED
        BY <1>14, <2>1, <3>1, <3>2, <3>3, <3>4 DEF HLCS_Destroy
    <2>2. CASE ~(s_eventQueue # NULL /\ Full(s_eventQueue))
      BY <1>14, <2>2 DEF HLCS_Destroy, ResetService, Full, Proceed
    <2> QED
      BY <2>1, <2>2
  <1>15. CASE MockClear
    BY <1>15 DEF MockClear
  <1>16. CASE MutexTrackingTeardown
    BY <1>16 DEF MutexTrackingTeardown, StillTracking, FindsLocked, Leave
  <1>17. CASE TimersDestroy
    BY <1>17 DEF TimersDestroy, Proceed, cmsAssertCalled, Leave
  <1>18. CASE NextTest
    BY <1>18 DEF NextTest
  <1>19. CASE UNCHANGED vars
    BY <1>19 DEF vars
  <1> QED
    BY <1>1, <1>2, <1>3, <1>4, <1>5, <1>6, <1>7, <1>8, <1>9, <1>10, <1>11, <1>12, <1>13, <1>14, <1>15, <1>16, <1>17, <1>18, <1>19 DEF Next

THEOREM Invariance == Spec => []IInv
  BY Initially, Inductive, PTL DEF Spec

\* The variables keep their types; the queue never holds more than its depth.
THEOREM TypeCorrect == Spec => []TypeOK
  <1>1. IInv => TypeOK
    BY DEF IInv
  <1> QED
    BY <1>1, Invariance, PTL

\* A test that did nothing wrong fails only right after a test that failed.
THEOREM FailuresHaveCauses == Spec => []FailureHasCause
  <1>1. IInv => FailureHasCause
    BY DEF IInv, LeftAtEnd, Explained, FailureHasCause
  <1> QED
    BY <1>1, Invariance, PTL

\* After a test that did nothing wrong the next one starts from scratch, unless
\* the event queue is full.
THEOREM CascadesEnd == Spec => []CascadeEnds
  <1>1. IInv => CascadeEnds
    BY DEF IInv, FoundAtStart, CascadeEnds, Clean, Poisoned
  <1> QED
    BY <1>1, Invariance, PTL

\* The service's timer never outlives the FakeTimers object it belongs to.
THEOREM TimersHaveClocks == Spec => []TimerHasItsClock
  <1>1. IInv => TimerHasItsClock
    BY NullAssumption
    DEF IInv, TypeOK, FoundAtStart, SetupIsClean, BodyRuns, TeardownFollows,
        DestroyedIsDown, LeftAtEnd, TimerHasItsClock, Setup, Teardown, Clean,
        LibraryIsDown, ServiceIsDown, Up, Leaked, Poisoned
  <1> QED
    BY <1>1, Invariance, PTL

\* Assertions are silent only in a test that asked for it.
THEOREM SilenceIsOwned == Spec => []SilenceIsOwn
  <1>1. IInv => SilenceIsOwn
    BY DEF IInv
  <1> QED
    BY <1>1, Invariance, PTL
=============================================================================
