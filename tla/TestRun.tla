------------------------------- MODULE TestRun -------------------------------
(* A run of the tests in hwLockCtrlServiceTests: one test after the other, on *)
(* one thread, each of them setup, body and teardown.  What the library and   *)
(* the service keep in static variables outlives a test.  A failed assertion  *)
(* or check ends the part of the test it happens in; CppUTest then goes on    *)
(* with the teardown, and after the teardown with the next test.              *)
EXTENDS Integers

CONSTANTS
  QueueDepth,  \* of the service's event queue
  Period,      \* of the service's timer, 5000 ms in the code
  MaxTime,     \* bound: how far a test moves the time
  NULL

ASSUME DepthAssumption == QueueDepth \in Nat \ {0}
ASSUME PeriodAssumption == Period \in Nat \ {0}
ASSUME TimeAssumption == MaxTime \in Nat
ASSUME NullAssumption == NULL \notin Nat

VARIABLES
  s_fakeTimers,    \* the clock of the FakeTimers object, or NULL
  s_mutexes,       \* mutexes are being tracked
  locked,          \* a tracked mutex is locked
  m_printAssert,
  s_eventQueue,    \* the number of events in it, or NULL
  s_timer,         \* when it fires, 0 before it is started, or NULL
  s_currentState,  \* the state machine was started; s_lockState and
                   \* s_stateHistory are set and reset with it
  s_exitThread,
  registered,      \* the two callbacks of the test
  expected,        \* the mock expects an assertion
  pc,              \* where the test is
  failed,          \* the test has failed
  blame,           \* ghost: the test did something wrong in its body
  muted,           \* ghost: the test called AssertOutputDisable
  lastFailed,      \* ghost: the test before failed
  lastBlame        \* ghost: blame of the test before

library == <<s_fakeTimers, s_mutexes, locked>>
service == <<s_eventQueue, s_timer, s_currentState, s_exitThread, registered>>
verdict == <<failed, blame>>
last == <<lastFailed, lastBlame>>

vars == <<library, m_printAssert, service, expected, pc, verdict, muted, last>>

Setup == {"AssertOutputEnable", "TimersInit", "MutexTrackingInit", "HLCS_Init", "register"}
Teardown == {"HLCS_Destroy", "clear", "MutexTrackingTeardown", "TimersDestroy"}

ServiceIsDown ==
  /\ s_eventQueue = NULL /\ s_timer = NULL
  /\ s_currentState = FALSE /\ s_exitThread = FALSE /\ registered = FALSE

Init ==
  /\ s_fakeTimers = NULL /\ s_mutexes = FALSE /\ locked = FALSE
  /\ m_printAssert = TRUE
  /\ ServiceIsDown
  /\ expected = FALSE
  /\ pc = "AssertOutputEnable"
  /\ failed = FALSE /\ blame = FALSE /\ muted = FALSE
  /\ lastFailed = FALSE /\ lastBlame = FALSE

-----------------------------------------------------------------------------
(* How a part of a test ends *)

\* CppUTest runs the teardown in any case, and what is left of it in none.
Leave == IF pc \in Teardown THEN "done" ELSE "HLCS_Destroy"

\* What a test must not leave behind is a locked mutex or a full queue.
LeavesMess == locked' \/ s_eventQueue' = QueueDepth

\* A failed configASSERT: the mock fails the test unless it expects the call,
\* and TEST_EXIT ends this part of the test.
cmsAssertCalled ==
  /\ failed' = (failed \/ ~expected)
  /\ blame' = (blame \/ (pc = "body" /\ (~expected \/ LeavesMess)))
  /\ expected' = FALSE
  /\ pc' = Leave

\* What is asserted holds: the test goes on.
Proceed(to) == pc' = to /\ UNCHANGED <<verdict, expected>>

-----------------------------------------------------------------------------
(* setup(): LibInitAll, HLCS_Init and two registrations.  TaskInit, which     *)
(* comes first, resets a tick count that nobody reads while the timers are up *)

\* Mutant: output that a test switched off stays off.
OutputStays == m_printAssert

Output == TRUE

AssertOutputEnable ==
  /\ pc = "AssertOutputEnable"
  /\ m_printAssert' = Output
  /\ Proceed("TimersInit")
  /\ UNCHANGED <<library, service, muted, last>>

TimersInit ==
  /\ pc = "TimersInit"
  /\ UNCHANGED <<s_mutexes, locked, m_printAssert, service, muted, last>>
  /\ IF s_fakeTimers = NULL
     THEN s_fakeTimers' = 0 /\ Proceed("MutexTrackingInit")
     ELSE UNCHANGED s_fakeTimers /\ cmsAssertCalled

MutexTrackingInit ==
  /\ pc = "MutexTrackingInit"
  /\ UNCHANGED <<s_fakeTimers, locked, m_printAssert, service, muted, last>>
  /\ s_mutexes' = TRUE
  /\ IF ~s_mutexes THEN Proceed("HLCS_Init") ELSE cmsAssertCalled

\* The service is as HLCS_Init expects it, or nothing happens.
HLCS_Init ==
  /\ pc = "HLCS_Init"
  /\ UNCHANGED <<library, m_printAssert, s_currentState, s_exitThread, registered, muted, last>>
  /\ IF ServiceIsDown
     THEN s_eventQueue' = 0 /\ s_timer' = 0 /\ Proceed("register")
     ELSE UNCHANGED <<s_eventQueue, s_timer>> /\ cmsAssertCalled

Register ==
  /\ pc = "register"
  /\ registered' = TRUE
  /\ Proceed("body")
  /\ UNCHANGED <<library, m_printAssert, s_eventQueue, s_timer, s_currentState,
                 s_exitThread, muted, last>>

-----------------------------------------------------------------------------
(* The body: what tests do, in any order *)

MockExpectAssert ==
  /\ pc = "body"
  /\ expected' = TRUE
  /\ UNCHANGED <<library, m_printAssert, service, pc, verdict, muted, last>>

AssertOutputDisable ==
  /\ pc = "body"
  /\ m_printAssert' = FALSE /\ muted' = TRUE
  /\ UNCHANGED <<library, service, expected, pc, verdict, last>>

\* A mutex of the code under test is taken or given.
TakeOrGiveMutex ==
  /\ pc = "body"
  /\ locked' = ~locked
  /\ UNCHANGED <<s_fakeTimers, s_mutexes, m_printAssert, service, expected, pc,
                 verdict, muted, last>>

HLCS_Start ==
  /\ pc = "body"
  /\ UNCHANGED <<library, m_printAssert, s_eventQueue, s_exitThread, registered, muted, last>>
  /\ s_currentState' = TRUE
  /\ IF ~s_currentState
     THEN s_timer' = s_fakeTimers + Period /\ Proceed("body")
     ELSE UNCHANGED s_timer /\ cmsAssertCalled

\* Mutant: room for one more.
FullOffByOne(messages) == messages > QueueDepth

Full(messages) == messages = QueueDepth

HLCS_PushEvent ==
  IF Full(s_eventQueue)
  THEN UNCHANGED s_eventQueue /\ cmsAssertCalled
  ELSE s_eventQueue' = s_eventQueue + 1 /\ Proceed("body")

HLCS_RequestAsync ==
  /\ pc = "body"
  /\ UNCHANGED <<library, m_printAssert, s_timer, s_currentState, s_exitThread,
                 registered, muted, last>>
  /\ HLCS_PushEvent

\* An event is handled; a self test posts its reminder; a current that is too
\* high asserts.  Tests start the service before they let it run.
HLCS_ProcessOneEvent ==
  /\ pc = "body" /\ s_currentState
  /\ s_eventQueue > 0
  /\ UNCHANGED <<library, m_printAssert, s_timer, s_currentState, s_exitThread,
                 registered, muted, last>>
  /\ s_eventQueue' \in {s_eventQueue - 1, s_eventQueue}
  /\ \/ Proceed("body")
     \/ s_eventQueue' < s_eventQueue /\ cmsAssertCalled

\* One tick of MoveTimeForward or vTaskDelay: a due timer is armed again and
\* its callback posts.
MoveTimeForward ==
  /\ pc = "body" /\ s_fakeTimers < MaxTime
  /\ s_fakeTimers' = s_fakeTimers + 1
  /\ UNCHANGED <<s_mutexes, locked, m_printAssert, s_currentState, s_exitThread,
                 registered, muted, last>>
  /\ IF s_timer = s_fakeTimers + 1
     THEN s_timer' = s_timer + Period /\ HLCS_PushEvent
     ELSE UNCHANGED <<s_timer, s_eventQueue>> /\ Proceed("body")

\* A check in the body, or mock().checkExpectations() at its end.
EndOfBody ==
  /\ pc = "body"
  /\ UNCHANGED <<library, m_printAssert, service, expected, muted, last>>
  /\ \E ok \in BOOLEAN :
       /\ expected => ~ok
       /\ failed' = ~ok
       /\ blame' = (~ok \/ LeavesMess)
  /\ pc' = "HLCS_Destroy"

-----------------------------------------------------------------------------
(* teardown(): HLCS_Destroy, mock().clear() and LibTeardownAll *)

ExitFits == s_eventQueue # NULL => ~Full(s_eventQueue)

\* Mutant: the timer is not deleted.
ResetWithoutTimer ==
  /\ s_eventQueue' = NULL /\ s_timer' = s_timer
  /\ s_currentState' = FALSE /\ s_exitThread' = FALSE /\ registered' = FALSE

ResetService ==
  /\ s_eventQueue' = NULL /\ s_timer' = NULL
  /\ s_currentState' = FALSE /\ s_exitThread' = FALSE /\ registered' = FALSE

\* The event that ends the task is posted first; without room for it nothing
\* else is done.
HLCS_Destroy ==
  /\ pc = "HLCS_Destroy"
  /\ UNCHANGED <<library, m_printAssert, muted, last>>
  /\ IF s_eventQueue # NULL /\ Full(s_eventQueue)
     THEN /\ s_exitThread' = TRUE
          /\ UNCHANGED <<s_eventQueue, s_timer, s_currentState, registered>>
          /\ cmsAssertCalled
     ELSE ResetService /\ Proceed("clear")

MockClear ==
  /\ pc = "clear"
  /\ expected' = FALSE
  /\ pc' = "MutexTrackingTeardown"
  /\ UNCHANGED <<library, m_printAssert, service, verdict, muted, last>>

\* Mutant: the list is deleted and the pointer to it kept.
KeepList == s_mutexes

StillTracking == FALSE

\* Mutant: tracking must be on.
FindsNoList == ~s_mutexes \/ locked

\* Without tracking there is no verdict.
FindsLocked == s_mutexes /\ locked

\* A locked mutex fails the test here, and LibTeardownAll goes no further.
MutexTrackingTeardown ==
  /\ pc = "MutexTrackingTeardown"
  /\ s_mutexes' = StillTracking /\ locked' = FALSE
  /\ IF FindsLocked
     THEN failed' = TRUE /\ pc' = Leave
     ELSE UNCHANGED failed /\ pc' = "TimersDestroy"
  /\ UNCHANGED <<s_fakeTimers, m_printAssert, service, expected, blame, muted, last>>

\* TaskDestroy follows, which like TaskInit resets the unused tick count.
TimersDestroy ==
  /\ pc = "TimersDestroy"
  /\ UNCHANGED <<s_mutexes, locked, m_printAssert, service, muted, last>>
  /\ s_fakeTimers' = NULL
  /\ IF s_fakeTimers # NULL THEN Proceed("done") ELSE cmsAssertCalled

NextTest ==
  /\ pc = "done"
  /\ pc' = "AssertOutputEnable"
  /\ lastFailed' = failed /\ lastBlame' = blame
  /\ failed' = FALSE /\ blame' = FALSE /\ muted' = FALSE
  /\ UNCHANGED <<library, m_printAssert, service, expected>>

-----------------------------------------------------------------------------
Next ==
  \/ AssertOutputEnable
  \/ TimersInit
  \/ MutexTrackingInit
  \/ HLCS_Init
  \/ Register
  \/ MockExpectAssert
  \/ AssertOutputDisable
  \/ TakeOrGiveMutex
  \/ HLCS_Start
  \/ HLCS_RequestAsync
  \/ HLCS_ProcessOneEvent
  \/ MoveTimeForward
  \/ EndOfBody
  \/ HLCS_Destroy
  \/ MockClear
  \/ MutexTrackingTeardown
  \/ TimersDestroy
  \/ NextTest

Spec == Init /\ [][Next]_vars

-----------------------------------------------------------------------------
(* Properties *)

\* Type invariant.
TypeOK ==
  /\ s_fakeTimers \in 0 .. MaxTime \cup {NULL}
  /\ s_mutexes \in BOOLEAN /\ locked \in BOOLEAN
  /\ m_printAssert \in BOOLEAN
  /\ s_eventQueue \in 0 .. QueueDepth \cup {NULL}
  /\ s_timer \in 0 .. (MaxTime + Period) \cup {NULL}
  /\ s_currentState \in BOOLEAN /\ s_exitThread \in BOOLEAN /\ registered \in BOOLEAN
  /\ expected \in BOOLEAN
  /\ pc \in Setup \cup {"body"} \cup Teardown \cup {"done"}
  /\ failed \in BOOLEAN /\ blame \in BOOLEAN /\ muted \in BOOLEAN
  /\ lastFailed \in BOOLEAN /\ lastBlame \in BOOLEAN

LibraryIsDown == s_fakeTimers = NULL /\ ~s_mutexes

\* A test that did nothing wrong fails only right after a test that failed: what
\* is left behind never skips a test.
FailureHasCause == pc = "done" /\ failed /\ ~blame => lastFailed

\* After a test that did nothing wrong, even one that failed for what it found,
\* the next one starts from scratch; a full event queue alone is never got rid of.
CascadeEnds ==
  pc = "AssertOutputEnable" /\ ~lastBlame =>
    (LibraryIsDown /\ ServiceIsDown) \/ s_eventQueue = QueueDepth

\* The service's timer never outlives the FakeTimers object it was created in,
\* whichever part of a test was cut short.
TimerHasItsClock == s_timer # NULL => s_fakeTimers # NULL

\* Assertions are silent only in a test that asked for it.
SilenceIsOwn == ~m_printAssert /\ pc # "AssertOutputEnable" => muted

\* After LibTeardownAll the library is down.  (Where there is no event queue,
\* HLCS_Destroy has succeeded and LibTeardownAll was called.)
TeardownIsComplete == pc = "done" /\ s_eventQueue = NULL => LibraryIsDown
=============================================================================
