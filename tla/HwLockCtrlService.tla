-------------------------- MODULE HwLockCtrlService --------------------------
(* The active object HLCS: one task that owns a state machine (locked,        *)
(* unlocked, self test) and a queue of events.  Clients post requests from    *)
(* any task, the timer service task posts a current check every five seconds, *)
(* and the state machine posts to the front of its own queue the request that *)
(* takes it out of the self test and back to where it came from.  The         *)
(* application observes the lock and may destroy the service and start it     *)
(* again; HLCS_Destroy takes apart what the other tasks may be using.         *)
(*                                                                            *)
(* The steps of the HLCS task are cut where another task can observe or       *)
(* change what they touch: the queue, the hardware and s_lockState.  With     *)
(* EXECUTION_OPTION_UNIT_TEST the same steps run on the tester's thread, a    *)
(* subset of these interleavings.                                             *)
EXTENDS Integers, Sequences

CONSTANTS
  QueueDepth,      \* 10 in the code
  MaxOutstanding,  \* how many requests the clients and the timer let queue up
  Faults           \* what can go wrong around the service

Fault == {"driverError",   \* the driver returns false and does nothing
          "sendTimeout",   \* a client waits more than 100 ticks for room
          "overcurrent",   \* the lock draws 2000 mA or more
          "lateTimer",     \* the timer fires between vQueueDelete and xTimerDelete
          "destroyFromBelow"} \* HLCS_Destroy is called on a priority not above HLCS

ASSUME DepthAssumption == QueueDepth \in Nat \ {0}
ASSUME OutstandingAssumption == MaxOutstanding \in Nat
ASSUME FaultsAssumption == Faults \subseteq Fault

VARIABLES
  s_eventQueue,    \* the signals in the queue
  s_currentState,  \* handler of the current state, or "NULL"
  s_stateHistory,  \* last of SmLocked and SmUnlocked that was left, or "NULL"
  s_lockState,     \* the atomic that HLCS_GetState() returns
  hardware,        \* where the driver has put the lock
  reported,        \* result told of the self test in progress, or "NONE"
  pc,              \* where the service is
  asserted,        \* a configASSERT failed and stopped everything
  s_exitThread,    \* the task's loop is to end
  exitPosted,      \* SIG_REQUEST_THREAD_EXIT is in the queue
  app,             \* what HLCS_Destroy does next, "away" when it is not called
  s_stateChangedCallback,  \* whether the application observes the lock
  s_lastState      \* what its callback was told last

destruction == <<s_exitThread, exitPosted, app>>
observer == <<s_stateChangedCallback, s_lastState>>

service == <<s_eventQueue, s_currentState, s_stateHistory, s_lockState, hardware, reported>>

vars == <<service, pc, asserted, destruction, observer>>

Requests == {"SIG_REQUEST_LOCKED", "SIG_REQUEST_UNLOCKED", "SIG_REQUEST_SELF_TEST"}
Check == "SIG_REQUEST_CURRENT_CHECK"
Signals == Requests \cup {Check}

Positions == {"LOCKED", "UNLOCKED"}
States == {"SmLocked", "SmUnlocked", "SmSelfTest"}

Locations ==
  {"down",          \* HLCS_Init() was not called yet, or HLCS_Destroy() was
   "initialized",   \* not started
   "smInitialize",  \* the task was created
   "loop",          \* at the top of the loop of HLCS_Task
   "idle",          \* in xQueueReceive
   "checkCurrent",  \* about to read the current
   "enter",         \* s_currentState was set; its SM_ENTER action comes next
   "notify",        \* the lock was moved; s_lockState comes next
   "callback",      \* s_lockState was stored; the observer comes next
   "remind",        \* the self test is done; the urgent request comes next
   "returned"}      \* HLCS_Task returned

Destroying ==
  {"push",          \* s_exitThread was set; the exit event comes next
   "deleteTask", "deleteQueue", "deleteTimer"}

Init ==
  /\ s_eventQueue = << >>
  /\ s_currentState = "NULL"
  /\ s_stateHistory = "NULL"
  /\ s_lockState = "UNKNOWN"
  /\ hardware \in Positions
  /\ reported = "NONE"
  /\ pc = "down"
  /\ asserted = FALSE
  /\ s_exitThread = FALSE /\ exitPosted = FALSE /\ app = "away"
  /\ s_stateChangedCallback = FALSE /\ s_lastState = "UNKNOWN"

\* The exit event is not kept in s_eventQueue: it goes to the front, and once it
\* is there the task either finds it first or does not look again.
Waiting == Len(s_eventQueue) + (IF exitPosted THEN 1 ELSE 0)

Full == Waiting >= QueueDepth

-----------------------------------------------------------------------------
(* The application *)

\* What the assertions of HLCS_Init ask for.
ServiceIsDown ==
  /\ s_lockState = "UNKNOWN"
  /\ s_eventQueue = << >> /\ ~exitPosted
  /\ s_currentState = "NULL" /\ s_stateHistory = "NULL"
  /\ ~s_stateChangedCallback
  /\ ~s_exitThread

HLCS_Init ==
  /\ pc = "down" /\ ~asserted
  /\ asserted' = ~ServiceIsDown
  /\ pc' = IF ServiceIsDown THEN "initialized" ELSE "down"
  /\ UNCHANGED <<service, destruction, observer>>

HLCS_RegisterChangeStateCallback ==
  /\ pc = "initialized" /\ ~asserted
  /\ s_stateChangedCallback' = TRUE
  /\ UNCHANGED <<service, pc, asserted, destruction, s_lastState>>

\* Creates the task and starts the timer, which first fires much later.
HLCS_Start ==
  /\ pc = "initialized" /\ ~asserted
  /\ pc' = "smInitialize"
  /\ UNCHANGED <<service, asserted, destruction, observer>>

main == HLCS_Init \/ HLCS_RegisterChangeStateCallback \/ HLCS_Start

-----------------------------------------------------------------------------
(* Clients and timer: HLCS_GetState, HLCS_PushEvent *)

HLCS_GetState == s_lockState

Running == pc # "down" /\ ~asserted

\* The request at the head of the queue is the task's own.
ReminderQueued == s_currentState = "SmSelfTest" /\ pc \in {"loop", "idle", "returned"}

Outstanding == Len(s_eventQueue) - (IF ReminderQueued THEN 1 ELSE 0)

\* Mutant: requests are pushed to the front, as the reminder is.
PushToFront(queue, sig) == <<sig>> \o queue

PushToBack(queue, sig) == Append(queue, sig)

\* A task that finds the queue full waits: the step is not enabled.
HLCS_PushEvent(sig) ==
  /\ ~Full
  /\ Outstanding < MaxOutstanding
  /\ s_eventQueue' = PushToBack(s_eventQueue, sig)
  /\ UNCHANGED <<s_currentState, s_stateHistory, s_lockState, hardware,
                 reported, pc, asserted, destruction, observer>>

\* It has waited 100 ticks (with the fakes: not at all), and asserts.
PushTimeout ==
  /\ "sendTimeout" \in Faults
  /\ Running /\ app # "deleteTimer"
  /\ Full
  /\ asserted' = TRUE
  /\ UNCHANGED <<service, pc, destruction, observer>>

\* HLCS_RequestLockedAsync, HLCS_RequestUnlockedAsync, HLCS_RequestSelfTestAsync
HLCS_RequestAsync == Running /\ \E sig \in Requests : HLCS_PushEvent(sig)

Started == Running /\ pc # "initialized"

HLCS_CheckCurrentTimerCallback ==
  /\ Started
  /\ \/ app # "deleteTimer" /\ HLCS_PushEvent(Check)
     \/ /\ app = "deleteTimer" /\ "lateTimer" \in Faults
        /\ asserted' = TRUE
        /\ UNCHANGED <<service, pc, destruction, observer>>

-----------------------------------------------------------------------------
(* HLCS_Destroy, called once the clients are done with the service; between   *)
(* two of its calls whoever the scheduler lets run may run                    *)

DestroyBegin ==
  /\ Started
  /\ s_exitThread' = TRUE /\ app' = "push"
  /\ UNCHANGED <<service, pc, asserted, exitPosted, observer>>

\* HLCS_PushUrgentEvent; as any push it waits while the queue is full.
DestroyPush ==
  /\ app = "push" /\ ~Full
  /\ exitPosted' = TRUE /\ app' = "deleteTask"
  /\ UNCHANGED <<service, pc, asserted, s_exitThread, observer>>

\* The task makes no more steps; pc is where it died.
DestroyTask ==
  /\ app = "deleteTask"
  /\ app' = "deleteQueue"
  /\ UNCHANGED <<service, pc, asserted, s_exitThread, exitPosted, observer>>

\* What the queue held is dropped with its handle, in DestroyReset.
DestroyQueue ==
  /\ app = "deleteQueue"
  /\ app' = "deleteTimer"
  /\ UNCHANGED <<service, pc, asserted, s_exitThread, exitPosted, observer>>

ServiceReset ==
  /\ s_eventQueue' = << >>
  /\ s_currentState' = "NULL" /\ s_stateHistory' = "NULL"
  /\ s_lockState' = "UNKNOWN"
  /\ reported' = "NONE"
  /\ pc' = "down"
  /\ exitPosted' = FALSE /\ app' = "away"
  /\ s_stateChangedCallback' = FALSE

\* Mutant: the flag that ends the loop outlives the task.
ResetWithoutFlag ==
  /\ app = "deleteTimer"
  /\ ServiceReset
  /\ UNCHANGED <<hardware, asserted, s_lastState, s_exitThread>>

DestroyReset ==
  /\ app = "deleteTimer"
  /\ ServiceReset
  /\ s_exitThread' = FALSE
  /\ UNCHANGED <<hardware, asserted, s_lastState>>

HLCS_Destroy ==
  /\ ~asserted
  /\ DestroyPush \/ DestroyTask \/ DestroyQueue \/ DestroyReset

\* Requests, and at the end the destruction, as the keyboard has them.
UserInputTask == app = "away" /\ (HLCS_RequestAsync \/ DestroyBegin)

-----------------------------------------------------------------------------
(* The HLCS task *)

\* Mutant: the input task is not created above the HLCS task.
MayAlwaysRun == app \in {"away", "push", "deleteTask"}

\* The caller of HLCS_Destroy has the higher priority: until vTaskDelete the
\* task gets to run only while the caller waits for room in the queue.
MayRun ==
  \/ app = "away"
  \/ app = "push" /\ Full
  \/ "destroyFromBelow" \in Faults /\ app \in {"push", "deleteTask"}

\* The condition of the loop.  FreeRTOS stops a task whose function returns.
CheckExit ==
  /\ pc = "loop"
  /\ \/ ~s_exitThread /\ pc' = "idle" /\ UNCHANGED asserted
     \/ s_exitThread /\ pc' = "returned" /\ asserted' = TRUE
  /\ UNCHANGED <<service, destruction, observer>>

\* The driver leaves the lock in an undefined state.
HwLockCtrlInit == Positions

\* Mutant: the initial state is chosen but not entered.
InitializeWithoutEnter ==
  /\ pc = "smInitialize"
  /\ s_currentState' = "SmLocked"
  /\ hardware' \in HwLockCtrlInit
  /\ pc' = "loop"
  /\ UNCHANGED <<s_eventQueue, s_stateHistory, s_lockState, reported, asserted,
                 destruction, observer>>

\* The initial pseudo state leads to SmLocked, which is entered next.
HLCS_SmInitialize ==
  /\ pc = "smInitialize"
  /\ s_currentState' = "SmLocked"
  /\ hardware' \in HwLockCtrlInit
  /\ pc' = "enter"
  /\ UNCHANGED <<s_eventQueue, s_stateHistory, s_lockState, reported, asserted,
                 destruction, observer>>

\* The state a state function returns for a signal; its own for "Handled()".
Dispatch(state, sig) ==
  CASE sig = "SIG_REQUEST_LOCKED"    -> "SmLocked"
    [] sig = "SIG_REQUEST_UNLOCKED"  -> "SmUnlocked"
    [] sig = "SIG_REQUEST_SELF_TEST" -> "SmSelfTest"
    [] OTHER                         -> state

\* Mutant: SmSelfTest records itself on the way out, as the others do.
HistoryAlways(state) == state

\* s_stateHistory after state got SM_EXIT, which SmSelfTest ignores.
HistoryAfterExit(state) ==
  IF state = "SmSelfTest" THEN s_stateHistory ELSE state

Receive(sig) ==
  /\ pc = "idle" /\ ~exitPosted
  /\ s_eventQueue # << >>
  /\ sig = Head(s_eventQueue)
  /\ s_eventQueue' = Tail(s_eventQueue)

ReceiveExit ==
  /\ pc = "idle" /\ exitPosted
  /\ exitPosted' = FALSE /\ s_exitThread' = TRUE
  /\ pc' = "loop"
  /\ UNCHANGED <<service, asserted, app, observer>>

\* HLCS_SmProcess of a signal that the state handles without a transition.
HandleInPlace(sig) ==
  /\ Receive(sig)
  /\ Dispatch(s_currentState, sig) = s_currentState
  /\ sig # Check \/ s_currentState = "SmSelfTest"
  /\ pc' = "loop"
  /\ UNCHANGED <<s_currentState, s_stateHistory, s_lockState, hardware,
                 reported, asserted, destruction, observer>>

\* SmLocked and SmUnlocked answer a current check by reading the current.
BeginCurrentCheck ==
  /\ Receive(Check)
  /\ s_currentState # "SmSelfTest"
  /\ pc' = "checkCurrent"
  /\ UNCHANGED <<s_currentState, s_stateHistory, s_lockState, hardware,
                 reported, asserted, destruction, observer>>

\* In mA, about the limit that the service sets; negative is an error that
\* nobody looks for.
HwLockCtrlReadCurrent == {-1, 1999} \cup (IF "overcurrent" \in Faults THEN {2000} ELSE {})

HLCS_DoCurrentCheck ==
  /\ pc = "checkCurrent"
  /\ \E milliamps \in HwLockCtrlReadCurrent :
       \/ milliamps < 2000 /\ pc' = "loop" /\ UNCHANGED asserted
       \/ milliamps >= 2000 /\ asserted' = TRUE /\ UNCHANGED pc
  /\ UNCHANGED <<service, destruction, observer>>

\* HLCS_SmProcess of a signal that makes a transition: exit, then enter.
TransitionTo(sig) ==
  /\ Receive(sig)
  /\ Dispatch(s_currentState, sig) # s_currentState
  /\ s_stateHistory' = HistoryAfterExit(s_currentState)
  /\ s_currentState' = Dispatch(s_currentState, sig)
  /\ reported' = "NONE"
  /\ pc' = "enter"
  /\ UNCHANGED <<s_lockState, hardware, asserted, destruction, observer>>

\* The position a state drives the lock to; the self test always ends LOCKED.
PositionIn(state) == IF state = "SmUnlocked" THEN "UNLOCKED" ELSE "LOCKED"

\* What the driver may do when told to go to position; nobody looks at its
\* return value.
Driven(position) ==
  {position} \cup (IF "driverError" \in Faults THEN {hardware} ELSE {})

\* SM_ENTER of SmLocked and SmUnlocked, up to the driver call.
MoveLock ==
  /\ pc = "enter" /\ s_currentState # "SmSelfTest"
  /\ hardware' \in Driven(PositionIn(s_currentState))
  /\ pc' = "notify"
  /\ UNCHANGED <<s_eventQueue, s_currentState, s_stateHistory, s_lockState,
                 reported, asserted, destruction, observer>>

\* Mutant: the observer is told before the state is stored.
NotifyBeforeStore ==
  /\ pc = "notify"
  /\ s_lockState' = PositionIn(s_currentState)
  /\ s_lastState' = IF s_stateChangedCallback THEN s_lockState ELSE s_lastState
  /\ pc' = "loop"
  /\ UNCHANGED <<s_eventQueue, s_currentState, s_stateHistory, hardware,
                 reported, asserted, destruction, s_stateChangedCallback>>

HLCS_NotifyChangedState ==
  /\ pc = "notify"
  /\ s_lockState' = PositionIn(s_currentState)
  /\ pc' = "callback"
  /\ UNCHANGED <<s_eventQueue, s_currentState, s_stateHistory, hardware,
                 reported, asserted, destruction, observer>>

\* The rest of HLCS_NotifyChangedState, which reads s_lockState again.
LockStateChangeCallback ==
  /\ pc = "callback"
  /\ s_lastState' = IF s_stateChangedCallback THEN s_lockState ELSE s_lastState
  /\ pc' = "loop"
  /\ UNCHANGED <<service, asserted, destruction, s_stateChangedCallback>>

\* What the menu of the application shows.
GetLockState == s_lastState

\* Mutant: the result is used whether or not the driver filled it in.
TrustResult ==
  {[told |-> told, lock |-> lock] :
     told \in {"PASS", "FAIL"}, lock \in Driven(PositionIn("SmSelfTest"))}

\* What HwLockCtrlSelfTest comes to and HLCS_NotifySelfTestResult tells.
SelfTestOutcomes ==
  {[told |-> told, lock |-> PositionIn("SmSelfTest")] : told \in {"PASS", "FAIL"}}
    \cup {[told |-> "FAIL", lock |-> lock] : lock \in Driven(PositionIn("SmSelfTest"))}

\* The application's callback prints the result and keeps nothing.
HLCS_NotifySelfTestResult(result) == reported' = result

\* Mutant: the state machine is not reminded to leave the self test.
SelfTestWithoutReminder ==
  /\ pc = "enter" /\ s_currentState = "SmSelfTest"
  /\ \E outcome \in SelfTestOutcomes :
       hardware' = outcome.lock /\ HLCS_NotifySelfTestResult(outcome.told)
  /\ pc' = "loop"
  /\ UNCHANGED <<s_eventQueue, s_currentState, s_stateHistory, s_lockState,
                 asserted, destruction, observer>>

\* SM_ENTER of SmSelfTest, up to the result callback.
HLCS_PerformSelfTest ==
  /\ pc = "enter" /\ s_currentState = "SmSelfTest"
  /\ \E outcome \in SelfTestOutcomes :
       hardware' = outcome.lock /\ HLCS_NotifySelfTestResult(outcome.told)
  /\ pc' = "remind"
  /\ UNCHANGED <<s_eventQueue, s_currentState, s_stateHistory, s_lockState,
                 asserted, destruction, observer>>

\* Mutant: the reminder takes its turn like any other request.
UrgentAtBack(queue, sig) == Append(queue, sig)

PushUrgent(queue, sig) == <<sig>> \o queue

\* Mutant: a self test always ends in SmLocked.
ReminderToLock(history) == "SIG_REQUEST_LOCKED"

\* The signal that leads back to the state history.
Reminder(history) ==
  IF history = "SmUnlocked" THEN "SIG_REQUEST_UNLOCKED" ELSE "SIG_REQUEST_LOCKED"

HLCS_PushUrgentEvent ==
  /\ pc = "remind"
  /\ ~Full
  /\ s_eventQueue' = PushUrgent(s_eventQueue, Reminder(s_stateHistory))
  /\ pc' = "loop"
  /\ UNCHANGED <<s_currentState, s_stateHistory, s_lockState, hardware,
                 reported, asserted, destruction, observer>>

\* The only task that could make room is the one that waits for it.
UrgentTimeout ==
  /\ pc = "remind"
  /\ Full
  /\ asserted' = TRUE
  /\ UNCHANGED <<service, pc, destruction, observer>>

HLCS_ProcessOneEvent ==
  \/ ReceiveExit
  \/ \E sig \in Signals : HandleInPlace(sig)
  \/ BeginCurrentCheck
  \/ \E sig \in Signals : TransitionTo(sig)

HLCS_Task ==
  /\ ~asserted /\ MayRun
  /\ \/ HLCS_SmInitialize
     \/ CheckExit
     \/ HLCS_ProcessOneEvent
     \/ HLCS_DoCurrentCheck
     \/ MoveLock
     \/ HLCS_NotifyChangedState
     \/ LockStateChangeCallback
     \/ HLCS_PerformSelfTest
     \/ HLCS_PushUrgentEvent
     \/ UrgentTimeout

Next ==
  \/ main
  \/ UserInputTask
  \/ HLCS_CheckCurrentTimerCallback
  \/ PushTimeout
  \/ HLCS_Destroy
  \/ HLCS_Task

Spec == Init /\ [][Next]_vars

\* The task has the lowest priority above idle; the tasks above it block on
\* their own queue, semaphore or delay, so the scheduler always gets to it.
\* A call of HLCS_Destroy goes on until it returns.
FairSpec == Spec /\ WF_vars(HLCS_Task) /\ WF_vars(HLCS_Destroy)

-----------------------------------------------------------------------------
(* Properties *)

\* Type invariant.
TypeOK ==
  /\ s_eventQueue \in Seq(Signals)
  /\ Waiting <= QueueDepth
  /\ s_currentState \in States \cup {"NULL"}
  /\ s_stateHistory \in {"SmLocked", "SmUnlocked", "NULL"}
  /\ s_lockState \in Positions \cup {"UNKNOWN"}
  /\ hardware \in Positions
  /\ reported \in {"NONE", "PASS", "FAIL"}
  /\ pc \in Locations
  /\ asserted \in BOOLEAN
  /\ s_exitThread \in BOOLEAN /\ exitPosted \in BOOLEAN
  /\ app \in Destroying \cup {"away"}
  /\ s_stateChangedCallback \in BOOLEAN
  /\ s_lastState \in Positions \cup {"UNKNOWN"}

\* Between events in the self test state, the next event is the task's own
\* request to go back to the state HLCS_GetState() reports; no request a client
\* or the timer posts meanwhile is processed in the self test state.
ReminderComesNext ==
  ReminderQueued =>
    /\ s_eventQueue # << >>
    /\ Head(s_eventQueue) = Reminder(s_stateHistory)
    /\ PositionIn(s_stateHistory) = s_lockState

\* Between events in any other state, state machine and HLCS_GetState() agree,
\* and so does the hardware unless the driver failed.
SettledAgrees ==
  /\ s_currentState # "SmSelfTest"
  /\ pc \in {"callback", "loop", "idle", "checkCurrent", "returned"}
  => /\ s_lockState = PositionIn(s_currentState)
     /\ "driverError" \notin Faults => hardware = s_lockState

\* The urgent push of the reminder never finds the queue full.
ReminderFits == pc = "remind" => ~Full

\* A self test is reported as passed only with the lock locked, whatever the
\* driver does, until the way back has begun.
PassedMeansLocked == reported = "PASS" => hardware = "LOCKED"

\* From HLCS_Init() until the first state of this life is entered and stored.
PoweringUp ==
  \/ pc \in {"down", "initialized", "smInitialize"}
  \/ pc \in {"enter", "notify"} /\ s_stateHistory = "NULL"

\* Once the service is up, in this life or in a later one, an application that
\* registered for it shows what HLCS_GetState() says, but for the moment between
\* the store and the call.  While the service powers up after a restart the
\* application still shows what it was told last in the earlier life, but then,
\* and only then, HLCS_GetState() says UNKNOWN.
ObserverIsCurrent ==
  /\ PoweringUp <=> HLCS_GetState = "UNKNOWN"
  /\ s_stateChangedCallback /\ ~PoweringUp /\ pc # "callback" =>
       GetLockState = HLCS_GetState

\* What a registered application shows of an earlier life does not last: unless
\* somebody destroys the service again, the start brings it up to date.
ObserverCatchesUp ==
  s_stateChangedCallback /\ pc = "smInitialize" ~>
    \/ ~PoweringUp /\ GetLockState = HLCS_GetState
    \/ app # "away"

\* What an assertion can fail for: the current, a queue that stayed full, the
\* timer in the gap that HLCS_Destroy leaves, and, when HLCS_Destroy is not
\* called from above, a task function that returns.  So the task does not
\* return into the kernel and HLCS_Init() finds nothing of an earlier life.
AssertHasCause ==
  asserted =>
    \/ pc = "checkCurrent" /\ "overcurrent" \in Faults
    \/ Full
    \/ app = "deleteTimer" /\ "lateTimer" \in Faults
    \/ pc = "returned" /\ "destroyFromBelow" \in Faults

\* As long as the current stays low and the queue has room for two events more
\* than the requests that pile up, no assertion ever fails: not in the service,
\* however often it tests itself, and not in the kernel or in HLCS_Init(),
\* however often it is destroyed and started again.
NothingAsserts == ~asserted

\* Every self test is left for the state it was begun in, if nothing asserts
\* and nobody destroys the service.
SelfTestEnds ==
  s_currentState = "SmSelfTest" ~>
    \/ pc = "idle" /\ s_currentState = s_stateHistory
    \/ pc = "down"
    \/ asserted

\* Back from a self test: SmSelfTest is left for the state in s_stateHistory;
\* a request of a client leaves s_stateHistory for the other one.
Returning == pc \in {"enter", "notify"} /\ s_currentState = s_stateHistory

\* How many steps of the task a self test is from its end.
SelfTestDistance ==
  IF s_currentState = "SmSelfTest"
  THEN CASE pc = "enter"  -> 6
         [] pc = "remind" -> 5
         [] pc = "loop"   -> 4
         [] OTHER         -> 3
  ELSE IF ~Returning THEN 0
  ELSE IF pc = "enter" THEN 2 ELSE 1

\* Until somebody destroys the service, every step that the task makes in a
\* self test brings it nearer to its end, and no step of a client or the timer
\* sets it back: with a task that is scheduled the test lasts six steps.
SelfTestAdvances ==
  [][ app = "away" /\ SelfTestDistance > 0 /\ ~asserted' =>
        /\ SelfTestDistance' <= SelfTestDistance
        /\ HLCS_Task => SelfTestDistance' < SelfTestDistance ]_vars

-----------------------------------------------------------------------------
(* The service implements LockCtrl *)

\* A request to lock or unlock is honoured when s_lockState shows it.
InFlight ==
  IF pc \in {"enter", "notify"} /\ s_stateHistory # "NULL"
     /\ s_currentState # "SmSelfTest" /\ ~Returning
  THEN <<Reminder(s_currentState)>>
  ELSE << >>

PendingRequests ==
  InFlight \o (IF ReminderQueued THEN Tail(s_eventQueue) ELSE s_eventQueue)

Testing == s_currentState = "SmSelfTest" \/ Returning

LC == INSTANCE LockCtrl WITH
        lock <- s_lockState,
        testing <- Testing,
        pending <- PendingRequests

\* Requests take effect one by one in the order they were accepted, and a self
\* test is transparent to them.
ImplementsLockCtrl == LC!Spec

\* Moreover every accepted request takes effect and every self test ends.
ImplementsFairLockCtrl == LC!FairSpec
=============================================================================
