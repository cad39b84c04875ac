# Verification of cpputest-for-freertos

TLA+ models of the CppUTest-for-FreeRTOS library and of the active object it is
demonstrated with, the TLC configurations that check them, and proofs checked by
TLAPS.  Paths below are relative to the repository.

    tlc -config MCFakeQueue.cfg MCFakeQueue        # one run
    tlapm FakeQueue_proofs.tla                     # one module of proofs

`PROJECT.json` lists every run, the source lines every definition stands for,
the hazards of the code, and for every property a mutant of the code it
catches.

## 1. Inventory

The repository has two halves.  The **library** (`cpputest-for-freertos-lib`)
replaces the FreeRTOS kernel in unit tests: queues, queue sets, semaphores and
mutexes that never block, timers and a tick count that a test moves by hand, an
assert that a test can expect.  It runs on one thread, the tester's.  The
**example** contains two active objects written against FreeRTOS, which run in
production on tasks of their own and in unit tests on the library.

| component | state | operations | talks to |
|---|---|---|---|
| fake queues (`src/..._queue.cpp`) | `FakeQueue`: length, item size, type, deque, set it is in | create, delete, send to back / front, overwrite, receive, peek, counters | the set it is in (nested send), mutex tracking (on delete) |
| fake semaphores (`..._semaphore.cpp`) | queues with items of size 0 | create counting, take, give, give from ISR | fake queues |
| fake queue sets (`..._queue_set.cpp`) | queues whose items are handles | create, add, remove, select | fake queues |
| fake mutexes, tracking (`..._mutex.cpp`) | one token; `recursiveCallCount`; the list `s_mutexes` | create, take, give, recursive take and give; tracking init and teardown, verdict, about to delete | fake queues |
| queue registry (`..._queue.cpp`) | a name | add, get, unregister | - |
| timer adapter (`..._timers.cpp`) | `s_fakeTimers` (external library FakeTimers) | create, start, stop, reset, change period, delete, move time | timer callbacks of the code under test |
| task fakes, tick count (`..._task.cpp`) | `s_tickCount` | delay, delay until, get tick count; create and delete do nothing | timer adapter |
| assert mock (`..._assert.cpp`) | whether to print | assert called: ends the test | CppUMock |
| library lifecycle (`include/..._lib.hpp`) | that of the modules | init all, teardown all | mutex tracking, timers, tasks |
| memory deleters (`include/..._memory.hpp`) | - | smart pointer deleters | queues, semaphores, timers |
| hardware lock control service (`hwLockCtrlService.c`) | event queue, current state, history, reported state | init, start, destroy, three requests, timer callback, one event | its queue and timer, the lock driver, two observers |
| button service (`buttonService.c`) | binary semaphore, callback and context | init, start, destroy, register, ISR, one event | button driver, observer |
| drivers (`drivers/*`) | stubs | lock, unlock, self test, read current; read buttons | hardware (external) |
| mocks (`example/test/mocks`) | CppUMock expectations | - | unit tests |
| demo (`demoPcApp/main.cpp`) | the keyboard; `s_lastState` | a task reads keys, posts requests to the lock, simulates button interrupts, destroys the lock service; one callback keeps the lock's state, the others print | both services |

What is hard about them:

* **Queue sets** keep two records of one fact, the messages of a member and the
  events in the set.  A send writes both, in a nested call whose result nobody
  looks at; receiving and selecting each remove from one of them, in an order
  the client chooses; joining, leaving and deleting are possible in between.
* **Mutex tracking** keeps handles of objects that tests delete, at addresses
  that the allocator reuses, and decides at the end of a test on what it reads
  through them.
* **Counters** are eight bits wide (`portmacro.h`).
* **The lock service** gets requests from any task and from the timer service
  task between any two steps of its own, posts into its own bounded queue, and
  is observed through an atomic and through the hardware while it is between
  two states.  Its driver can fail.
* **The button service** is woken by an interrupt through a semaphore that holds
  one token, reads what the driver latched, and calls an observer whose callback
  and context are two variables.  Changes, interrupts, takes, reads and the
  observer's registration overlap in any way.
* **Time** in a test has two sources, the clock of the timers and a count of the
  task fakes; which one `xTaskGetTickCount()` reads changes when the timers come
  and go, and a delay must move the right one, firing what becomes due on the
  way.
* **Lifecycles** (`HLCS_Destroy`, `ButtonService_Destroy`, `LibTeardownAll`) take
  apart what interrupts, timers or the next test still use, and a failed
  assertion cuts them short anywhere.

What makes them correct is stated per module in section 2.

## 2. Modules

| module | what it is |
|---|---|
| `QueueSet` | what a queue set promises the client that waits on it |
| `FakeQueue` | queues, counting and binary semaphores and queue sets, and their clients |
| `MCFakeQueue` | its instance for TLC (symmetry of handles) |
| `FakeQueue_proofs` | theorems about `FakeQueue` |
| `QueueSet_proofs` | the refinement of `QueueSet` by `FakeQueue`, and that no event is lost |
| `FakeMutex` | plain and recursive mutexes, tracking, reuse of addresses |
| `MCFakeMutex` | its instance for TLC |
| `FakeMutex_proofs` | theorems about `FakeMutex` |
| `FakeTime` | tick count, delays and software timers of the library, over an external model of FakeTimers |
| `FakeTime_proofs` | theorems about `FakeTime` |
| `TestRun` | a sequence of unit tests of the lock service: setup, body, teardown, and what outlives them |
| `TestRun_proofs` | theorems about `TestRun` |
| `LockCtrl` | what the lock service promises its clients |
| `HwLockCtrlService` | the lock service from `HLCS_Init` to `HLCS_Destroy` and again, with its queue, clients, timer, driver and the demo application |
| `HwLockCtrlService_proofs` | theorems about it, the refinement of `LockCtrl` included |
| `ButtonEvents` | what the button service promises its observer |
| `ButtonService` | the button service, the driver's interrupt and the application's thread |
| `MCButtonService` | its instance for TLC (symmetry of observers) |
| `ButtonService_proofs` | theorems about it, the refinement of `ButtonEvents` included |

### QueueSet and FakeQueue

The variables are functions from handles (addresses) to the fields of
`FakeQueue`; `live` is the heap.  Every accepted call of the C API is an action;
a call that is refused returns a code and changes nothing, so it is a
stuttering step.  `Announce` is the nested `xQueueGenericSend` to the set, part
of every send.  `UBaseMod` is the width of `UBaseType_t`: `Truncate` is applied
wherever the C code converts to that type, and not to `deque::size()` in the
full test, where the code does not convert.  A semaphore is a queue of `Token`s,
and `xQueueCreateCountingSemaphore` includes its loop of gives.

The ghost `credit[h]` counts how often a set named `h` to its client without the
client having received from `h` yet.  FreeRTOS asks of the clients of a set that
they read a member only after it was selected; without that no implementation
can keep events and messages together.  Such rules are guards, and the constant
`Liberties` lifts them one by one: `readUnselected`, `oversubscribe` (members
with more room than the set), `overwriteMember`, `overwriteEmpty`.  One rule is
never lifted: a queue is unlinked before it or its set is deleted (a dangling
`queueSetContainer` is a use after free with any FreeRTOS).

`OverwriteEmpty` is undefined behaviour (`pop_front()` of an empty
`std::deque`).  Its two outcomes are those a libstdc++ build shows: the message
vanishes and the set is told of it, or the process aborts.

Properties: `CountsAreExact` (the truncated counters are right, in every state);
`EntriesAreMembers`, `NoPhantomEvent` and `NoLostEvent` (events and messages of a
member correspond, at every point of the protocol); `OverwriteStoresMessage`;
`ImplementsQueueSet`.

`QueueSet` is the protocol as a waiting client may think of it, without lengths:
a send to a member stores a message and announces it in one step, whatever else
is in the set; a selection claims the oldest announcement; what was claimed can be
received; an empty member can leave.  The refinement mapping: `announced` is the
queue of each set, `stored` the length of the queue of each member, `claimed` is
`credit`.  A send of the code that found the set full would store without
announcing, which is no step of `QueueSet`; that this never happens, for a set
that has room for what its members have room for, is the content of the
refinement.

### FakeMutex

A mutex is the number of tokens in its queue.  `outstanding` is a ghost: takes
less gives, as the callers count them; `tracked` is the set of live mutexes
created since tracking began, which is what the verdict is about.  Handles are
reused after `vQueueDelete`, for mutexes and for other queues (`Other`, which is
empty at first and so reads as "locked").  What `IsAnyMutexLocked` reads through
a dangling handle is anything: the operator is the *set* of its possible
answers, and `VerdictIsTruth` says that the set has one element, the truth.

### FakeTime

`s_fakeTimers` is the time of the FakeTimers object, or NULL without one, and
`s_tickCount` the task fakes' own count.  Every call that changes a timer or moves
the time is an action: creation, the five commands, the reload mode, the two
delays, `MoveTimeForward`, and the lifecycle calls that make the time switch its
source.  `Dispatch` is the `switch` of `xTimerGenericCommandFromTask`: which method of
FakeTimers serves which command, with which value in which unit; a command it does
not know (the FROM_ISR ones) fails an assertion, which ends the test and changes
nothing.  FakeTimers is a library outside of the repository: its methods (`TimerStart`
to `TimerChangePeriod`) and the rule by which a timer fires (`AfterTick`,
`FakeTimersTick`) are what the adapter and the library's tests rely on, and are
marked external.  It moves its time tick by tick, so a delay is as many steps; `toGo`
is what is left of it.  Where no code in the repository tells how FakeTimers behaves
(a new period for a dormant timer), both outcomes are possible.

Three variables are ghosts: `goal`, the tick count the last delay is to end with;
`noted`, whether the wake time `previous` was read from the source in use; and `asked`,
what the client of each timer has asked for.  `asked` follows the rules of FreeRTOS, in
ticks, from the commands, the reload modes and the tick count alone: it does not look
at what the adapter did with them, but for the dormant timer above.  The names and
the ids of timers are left out.

Properties: `DelaysAreExact` (of whichever source), `FiresOnTime` (what the object
keeps of a timer, read through the adapter, is what was asked: whether it runs, the
tick count of its next call, its period and mode), and `NeverOversleeps`
(`xTaskDelayUntil` with a wake time from the source in use).

### LockCtrl and HwLockCtrlService

`LockCtrl` has three variables: the state the service reports, whether a self
test is under way, and the queue of accepted requests.  Requests are honoured
one by one in the order they were accepted; a self test leaves the reported
state alone, and whatever was requested meanwhile waits until it is over.
`ShutDown` forgets everything.

`HwLockCtrlService` has the C file's static variables.  `pc` is where the task
is; its steps are cut where another task can see or touch something: the queue
operations, the driver call, the store to `s_lockState`.  What `HLCS_SmProcess`
does between two such points (dispatch, exit action, choice of the new state) is
one action.  Clients (`HLCS_RequestAsync`) and the timer service task
(`HLCS_CheckCurrentTimerCallback`) post between any two steps.  The
executions that unit tests drive through `HLCS_ProcessOneEvent(UNIT_TEST)` are those in
which nobody else acts between the steps of one event.

The application is that of `main.cpp`: `main` initialises the service, may register
`LockStateChangeCallback`, and starts the service; `UserInputTask` posts requests and
at the end calls `HLCS_Destroy`.  Where the demo then exits, the model may start the
service again, as the unit tests do.  `HLCS_Destroy` is five steps, with `app` saying
which comes next; between two of them whoever the scheduler lets run may run.
`MayRun` is what the priorities in `main.cpp` and `HLCS_Start` say: the input task is
created with `tskIDLE_PRIORITY+2`, the service with `tskIDLE_PRIORITY+1`, so that the
service gets to run during the destruction only while the caller waits for room
in the queue.  The service is destroyed only after it was started, since otherwise
`vTaskDelete(NULL)` would delete the caller, and its clients are done with it then.

The exit event is the variable `exitPosted` and not an element of the queue.  It
is posted to the front; once it is there, either the task receives it first, or
the task is deleted.  The one thing that could get before it, a reminder, is
posted by the task itself, which looks at `s_exitThread` before it receives
again.  `Waiting` counts it.

`reported` is what was told of the self test in progress, `s_lastState` what the
observer of the lock was told last.  `HLCS_NotifyChangedState` is two steps, the
store of `s_lockState` and the call.

`Faults` switches on what can go wrong: the driver returns false and does
nothing, a client waits more than 100 ticks for room and asserts, the lock draws
too much current, the timer fires between `vQueueDelete` and `xTimerDelete`
(`lateTimer`), or `HLCS_Destroy` is called by a task that is not above the service
(`destroyFromBelow`).  A failed `configASSERT` sets `asserted`, which stops the
system.  That the service's own urgent post fails is not a fault of the
environment but a consequence of a full queue, and is always possible
(`UrgentTimeout`).

The refinement mapping: `lock` is `s_lockState`; `testing` holds from entering
`SmSelfTest` until `s_lockState` is stored again on the way back; `pending` is the
queue without the service's own reminder, preceded by the request that was
received but is not visible in `s_lockState` yet.

Properties: `ReminderComesNext` (between events in `SmSelfTest`, the reminder is
at the head of the queue, and leads to what is reported), `SettledAgrees` (state
machine, reported state and hardware agree between events), `PassedMeansLocked`
(a driver that fails without writing its result is never told as a pass),
`ObserverIsCurrent` (once the service has entered its first state, in whichever life,
the observer's copy of the state is the service's; while it powers up after a restart
the observer may still show the earlier life, and then, and only then,
`HLCS_GetState()` says UNKNOWN), `ObserverCatchesUp` (that phase comes to its end),
`AssertHasCause` (what an assertion can fail for; that `HLCS_Init` finds nothing of
an earlier life, and that a task destroyed from above does not return into the
kernel unless the queue was full, follow from it), `NothingAsserts` (without such
a cause, and with room for two events more than clients and timer post, nothing
does), `ReminderFits`, `SelfTestEnds`, `SelfTestAdvances` (every step of the task in
a self test brings it nearer to its end, by the measure `SelfTestDistance`, and no
step of anybody else sets it back), `ImplementsLockCtrl`, and `ImplementsFairLockCtrl`, which adds that every request is
honoured, once the lock was powered up, and every self test ends.  `SettledAgrees`
leaves out the hardware once a driver call has failed: `HLCS_GetState()` reports
what was asked of the driver, not what it did.

### ButtonEvents and ButtonService

`ButtonEvents` counts how often each change of a button is still to be told: up to
twice, because a change that occurs again while it is on its way to the observer
is told again, and one that occurs again before it was read is not.  While an
observer is registered nothing may be taken off that account but by telling it,
and with fairness every change is told.

`ButtonService` has the C file's static variables and the driver's state: which
buttons are down, which changes are latched, whether an interrupt is pending.
The actions of the task are cut where the interrupt or the application's thread
can see or touch something: the take of the token, the read of the latches, the
test of `s_callback`, each of the two calls of `Emit`.  The application's thread
(`app`) calls `ButtonService_Init`, `_Start`, `_Destroy` and registers observers, in
the two stores that the code makes; `ButtonService_Destroy` is three steps, after
each of which the task may run.  `Liberties` says whether the application registers
while the service runs, whether it destroys the service while buttons are in
use, and whether `ButtonReaderRead()` may fail, which fails the task's assertion
(`ReadFails`).  A word that is 0 makes no call of `Emit`: `NextEmit` says which call comes
next.  `ButtonService_SimulateIsr`, a key of the demo, runs the handler by hand: the task
then may read a change before its interrupt comes, or find nothing to read.  When
the handler finds no semaphore, or a deleted one, the program ends
(`halted`).

`missed` is a ghost: latched changes from the time when no handler was registered
for them.  They are read with the next ones, but nobody is woken for them.

The refinement mapping: `owed` is one for a latched change that was not missed
plus one for a change in the task's local variables; the observer is `registered`
from the store to `s_callback` until destruction begins, then `leaving` until
`s_callback` is reset; `told` is what the callback was last called with.

Properties: `NoLostWakeup` (what the driver has latched since the task listens is
going to be read), `ImplementsButtonEvents` and `ImplementsFairButtonEvents`, and
`ContextMatches` (a callback is called with its own context; `Calling` says that the
task is at a call of `Emit` that has a change to tell, which is when it reads the two
variables).

### TestRun

The unit tests of the lock service run one after the other in one process, on the
static variables of the library and of the service.  `pc` is the call that comes
next in `setup()` (`LibInitAll`, `HLCS_Init`, the registrations), in the body, or in
`teardown()` (`HLCS_Destroy`, `mock().clear()`, `LibTeardownAll`).  The body is any
sequence of the things the tests do: requests, processing, starting, moving the
time, locking a mutex, expecting an assertion, silencing assertions, a failed
check.  `cmsAssertCalled` fails the test unless the assertion was expected, and
ends the part of the test it happens in; `Leave` is where CppUTest goes on: with
the teardown after a setup or a body, with nothing after a teardown.  The queue is
its length here, and the mutexes are one flag; what they do in detail is in
`HwLockCtrlService` and `FakeMutex`.

`blame` is a ghost: the test failed a check or an assertion of its own in the body,
or left it with a locked mutex or a full queue.  The properties say what a test
without blame suffers from the ones before: `FailureHasCause`, `CascadeEnds`, and
that static variables keep their meaning across tests: `TimerHasItsClock`,
`SilenceIsOwn`.

## 3. Runs

| run | config | question | bounds |
|---|---|---|---|
| `fake_queue` | `MCFakeQueue.cfg` | do events and messages of a set correspond if clients follow the rules, so that it is a `QueueSet`, and are the counters exact? | 4 handles: a set, two members and a spare address; one kind of item (contents play no role); lengths 1, 2 and 7, the latter truncated to 3 by a two-bit width; at most 3 selections of one member pending; empty mailboxes outside of sets may be overwritten |
| `fake_queue_overwrite_empty` | `MCFakeQueue_overwriteEmpty.cfg` | violated, see findings | 3 handles |
| `fake_mutex` | `MCFakeMutex.cfg` | is the verdict at the end of a test right? | 3 handles, nesting up to 3 |
| `fake_mutex_delete_recursive` | `MCFakeMutex_deleteRecursive.cfg` | violated, see findings | 2 handles |
| `fake_time` | `FakeTime.cfg` | are delays exact and does every timer do what its commands ask, whatever the tests do with either? | 2 timers, periods and increments of 1 and 3 ticks, tick counts up to 4, any number of lifecycle calls |
| `hlcs` | `HwLockCtrlService.cfg` | order, liveness, transparency of self tests, observer and restarts (does it catch up?) when nothing fails, and does nothing assert? | queue of 6 with at most 4 requests waiting; any number of lives |
| `hlcs_faults` | `HwLockCtrlService_faults.cfg` | what survives a full queue and all five faults, and does a self test still make progress? | queue of 4 that clients can fill |
| `hlcs_reminder` | `HwLockCtrlService_reminder.cfg` | violated, see findings | queue of 3 |
| `button_service` | `MCButtonService.cfg` | is every change told, and none invented, through every overlap, late registration, failing read, destruction and restart? | one supported button, one bit that is ignored, two observers |
| `button_late_register` | `MCButtonService_lateRegister.cfg` | violated, see findings | one button, two observers |
| `test_run` | `TestRun.cfg` | whom does a test that went wrong take along? | any number of tests; queue of 2, timer period 2, time up to 4 |
| `test_run_teardown` | `TestRun_teardown.cfg` | violated, see findings | the same, time up to 2 |

Why the bounds are enough.  A violation of the correspondence in a set needs two
members at most (one that crowds out the other), one message too many for the
set, and one address that is reused; four handles allow all of these at once,
and lengths up to 3 allow a set with room for both members and one without.  The
width of two bits puts the length 7 beyond it and lengths 1 and 2 below, as 256
and 10 are for eight bits.  A mutex that is nested three deep has an outermost,
an inner and an innermost give.  In the lock service four waiting requests hold
every order of lock, unlock, self test and current check; the difference that
matters is whether clients can fill the queue (`hlcs_faults`, `hlcs_reminder`) or
leave a place to the reminder and one to the exit event (`hlcs`).  For the button service one supported
button has all the overlaps of a change with the same and with the opposite
change, and the ignored bit shares reads with it; buttons do not otherwise
interact.  A test run needs a queue that is empty, partly filled and full, and a
timer that fires more than once in a test.  For time, the periods 1 and 3 and four
ticks let one timer fire several times within one delay, expire in the middle of
one and right at its end, and be armed again in between; two timers suffice
because FakeTimers treats each by itself.  Handles and observers are symmetric
where nothing compares them but for equality, and no run with symmetry checks
liveness.

`CHECK_DEADLOCK FALSE` is set where the process may die: in `FakeQueue`, where the
overwrite of an empty mailbox may abort it, and in the runs of the lock service
with faults, where an assertion stops the system.

Fairness.  `HwLockCtrlService` assumes weak fairness of the task's steps,
`WF_vars(HLCS_Task)`, and nothing of the clients, the timer or the driver's
success, and `WF_vars(HLCS_Destroy)`: a call, once begun, goes on until it returns.
The task has the priority `tskIDLE_PRIORITY+1`; every task above it in
the repository spends its time blocked on a queue, a semaphore or a delay, so
the scheduler reaches it again and again.  The task's `xQueueReceive` waits
forever on an empty queue, which is why an empty queue disables the step instead
of making it fail.

`ButtonService` assumes that a pending interrupt is taken,
`WF_vars(ButtonService_IsrCallback)`, and that its task runs when it can,
`WF_vars(ButtonService_Task)`: it is created with `tskIDLE_PRIORITY+3`, the highest
priority of the application.  Nothing is assumed of the buttons or of the
application's thread.

`TestRun`, `FakeTime`, `FakeQueue` and `FakeMutex` assume no fairness: a test may go on
for ever.

## 4. Proofs

| theorem | says | assumes |
|---|---|---|
| `FakeQueue_proofs!TypeCorrect` | `TypeOK` | - |
| `FakeQueue_proofs!CountersExact` | `CountsAreExact` | - |
| `FakeQueue_proofs!SetsNameTheirMembers` | `EntriesAreMembers` | clients do not overwrite members and read only what was selected |
| `FakeQueue_proofs!EventsHaveMessages` | `NoPhantomEvent` | the same |
| `QueueSet_proofs!Refinement` | `ImplementsQueueSet` | the same, and sets have room for what their members have room for (`Disciplined`) |
| `QueueSet_proofs!NoEventIsLost` | `NoLostEvent` | `Disciplined` |
| `FakeQueue_proofs!OverwriteStores` | `OverwriteStoresMessage` | nobody overwrites an empty mailbox |
| `FakeMutex_proofs!TypeCorrect`, `!LockedExactly` | `TypeOK`, `LockedIffOutstanding` | - |
| `FakeMutex_proofs!TrackingIsSound`, `!DeletedStaysSilent` | `VerdictIsTruth`, `DeletedIsNotReported` | `~DeleteRecursive` |
| `HwLockCtrlService_proofs!TypeCorrect`, `!ReminderNext`, `!SettledSafe` | `TypeOK`, `ReminderComesNext`, `SettledAgrees` | - |
| `HwLockCtrlService_proofs!PassIsTrue`, `!ObserverFollows`, `!AssertsForACause` | `PassedMeansLocked`, `ObserverIsCurrent`, `AssertHasCause` | - |
| `HwLockCtrlService_proofs!Refinement` | `ImplementsLockCtrl` | - |
| `HwLockCtrlService_proofs!SelfTestsAdvance` | `SelfTestAdvances` | - |
| `HwLockCtrlService_proofs!RemindersFit` | `ReminderFits` | two places more in the queue than clients and timer fill (`RoomAssumed`) |
| `HwLockCtrlService_proofs!NeverAsserts` | `NothingAsserts` | `RoomAssumed`, and no fault but a failing driver (`Calm`) |
| `FakeTime_proofs!TypeCorrect`, `!DelaysExact`, `!TimersFireOnTime`, `!SleepIsBounded` | `TypeOK`, `DelaysAreExact`, `FiresOnTime`, `NeverOversleeps` | - |
| `ButtonService_proofs!TypeCorrect`, `!NoWakeupIsLost` | `TypeOK`, `NoLostWakeup` | - |
| `ButtonService_proofs!ContextIsRight` | `ContextMatches` | nobody registers while the service runs |
| `ButtonService_proofs!Refinement` | `ImplementsButtonEvents` | - |
| `TestRun_proofs!TypeCorrect`, `!FailuresHaveCauses`, `!CascadesEnd`, `!TimersHaveClocks`, `!SilenceIsOwned` | `TypeOK`, `FailureHasCause`, `CascadeEnds`, `TimerHasItsClock`, `SilenceIsOwn` | - |

All hold for every value of the constants that the named assumptions of the
modules allow: any finite or infinite set of handles, any width, any queue depth,
any combination of faults, any set of buttons and observers.

*FakeQueue.*  The counters need the invariant that no queue holds more than its
truncated length, inductive with the types.  That events have messages is
inductive only together with two more facts: a set has entries of its members
only (so that joining with a clean record is joining with no entries), and a
queue outside of any set has no credit it could bring along.  Under the clients'
rules an event, once selected, is credit, and the receive spends both sides at
once.  How an append, a removal of the head or of another element changes the
number of occurrences of a handle is stated in lemmas of its own.

*QueueSet.*  A send must find room in its set whenever it finds room in the queue.
The invariant behind it is `RoomForMembers`: the places of the members of a set,
pairs of a member and a number up to its length, are finite in number and not more
than the set has.  It is what `xQueueAddToSet`'s caller looks at, and every other
step keeps it because it gives no set a new member and no member more places
(`NoNewPlaces`).  `SetHasRoom` then maps the announcements of a set one to one into
those places, the k-th announcement of a member to its k-th place: by
`NoPhantomEvent` a member has at most as many announcements as messages, and a
member with room for another message has a place that none is mapped to.  So the
set holds fewer announcements than it has places.  This is a statement about one
injection, and avoids a sum over the members, which would need induction over
finite sets.  With it each step of `FakeQueue` is one of `QueueSet` or a stutter
(`StepMaps`), and `NoEventIsLost` follows from the steps of `QueueSet`: `Send` adds
to both sides, `Select` moves from one addend to the other, `Receive` takes from
both.

*FakeMutex.*  The token of a plain mutex is away exactly if one take is
outstanding; of a recursive one exactly if `recursiveCallCount`, which then is
the number of outstanding takes, is positive.  The verdict adds that, while
tracking is on, the list is exactly `tracked`; this is where the deletion of a
recursive mutex breaks the induction.

*HwLockCtrlService.*  `ReminderComesNext` and `SettledAgrees` speak of the moments
between events.  To be inductive they need what holds inside a transition:
`Shape` (which states go with which place of the task) and `Stored` (in the
middle of a transition, `s_lockState` is the position of the state in
`s_stateHistory`, or `UNKNOWN` before the first).  With this invariant every step
of the service is shown to be a step of `LockCtrl` or a stutter: a post is an
`Accept` even when the reminder is at the head of the queue; a request that moves
the lock is honoured by the store to `s_lockState`, any other when it is received;
the reminder's own round trip is `FinishTest`; the last step of `HLCS_Destroy` is
`ShutDown`.

The invariant has a second half, `Around`, for destruction and restart: `Lifecycle`
says which flags and which place of the task go with which step of `HLCS_Destroy`
(so that everything is as `HLCS_Init` wants it once the service is down), and
`ResultInTest` that a result is kept only while the machine is in the self test.
With these `AssertHasCause` goes through the assertions one by one.  `ObserverShows`, that
an observer shows any state that is not `UNKNOWN`, is kept by every step; that the
service says `UNKNOWN` in the phase `PoweringUp` and in no other follows from `Shape` and
`Stored`, and the two together are `ObserverIsCurrent`.

`RemindersFit` and `NeverAsserts` add how full the queue can get: clients and timer
leave at most `MaxOutstanding` requests in it (`LoadIsBounded`, which does not count
the reminder), on top of which come one reminder and one exit event, never two of
either.  In the code the queue holds ten; with up to eight requests waiting at a
time every configuration satisfies `RoomAssumed`.  That clients keep to such a bound is
theirs to see to, the code does not enforce it; the run `hlcs_reminder` shows what
happens when they do not.  Under `Calm` the remaining causes of `AssertHasCause` are
excluded one by one.  `Calm` allows a driver that fails, because nobody looks at
its result.

`SelfTestsAdvance` is what is left of `SelfTestEnds` without fairness: that a step
of the task in the self test, when it has nothing to wait for, lowers
`SelfTestDistance` rests on the reminder being the first in the queue.

*FakeTime.*  The types include that without a FakeTimers object there are no timers
and no delay in progress.  `DelaysAreExact` is then inductive, a tick moving the
clock and `toGo` by the same amount.  `FiresOnTime` follows from `Agreement`, that every
timer of the object, in ms, is the one its client asked for, in ticks, which at 1000
Hz are the same numbers (`Conversions`).  `Agreement` is inductive: `DispatchAsAsked` goes
through the commands, `TickAsAsked` shows that a tick calls a timer exactly when it is
due, and the rest leaves both sides alone.  It rests on the model of FakeTimers.
`NeverOversleeps` needs that a noted wake time is not ahead of the
source in use; without `noted` it fails, because the count falls back when the
source is switched.

*ButtonService.*  `NoLostWakeup` is inductive with `Shape`, which relates the places
of the task and of the application to the semaphore and the registration of the
handler.  The refinement then needs no more: a change occurs in both; a read moves
it from the latches to the hand and leaves the account as it is; an emit is a
`Tell` of what was emitted; what is dropped (an unsupported bit, a missed change, a
task that is deleted with something in hand) is either not a change of
`ButtonEvents`, not owed, or a `Discard` while no observer is registered.

*TestRun.*  The invariant says what a test may find when it begins: everything in
order; or the timers up and nothing else (a locked mutex cut `LibTeardownAll`
short), and then the test before was to blame; or the timers up and a full queue
(`HLCS_Destroy` was cut short), which can be many tests old.  In the latter two the
test before failed.  The setup gets beyond `TimersInit` in the first case only, so
that a body always starts from scratch.

Only model-checked: liveness, that is `SelfTestEnds`, `ObserverCatchesUp` and the fairness
parts of `ImplementsFairLockCtrl` and `ImplementsFairButtonEvents`, because the prover does
not reach fairness and `ENABLED`.  Every invariant and every action property that a
run checks is stated by a theorem, `TeardownIsComplete` excepted, which the code
violates whatever the constants.

## 5. Findings

1. **Overwrite of an empty mailbox** (`fake_queue_overwrite_empty`).  Undefined
   behaviour; the message is lost or the process dies.  The test of the
   repository fills the mailbox first.
2. **Deleted recursive mutex** (`fake_mutex_delete_recursive`).  It is not taken
   off the tracking list, so the end of the test reads freed memory.  The test
   that covers the case passes only if that memory happens to read as unlocked.
3. **Reminder into a full queue** (`hlcs_reminder`).  Requests posted while a self
   test runs can take the place of the request that ends it; the service asserts.
4. **Torn registration** (`button_late_register`).  The task, which has the higher
   priority, can run between the stores of callback and context, and calls the new
   callback with the context stored before: of the observer it replaces or, as in
   the run's trace, the NULL of a service that had none.
5. **Unfinished teardown** (`test_run_teardown`).  A locked mutex ends
   `LibTeardownAll` before the timers are destroyed; the setup of the next test
   asserts.  `CascadeEnds` shows that it is one test only, whose own teardown
   repairs the state.

More that no run is spent on.

* *Overwrite of a member of a set.*  An overwrite of a full mailbox announces its
  message a second time, which FreeRTOS does not; a client then selects a queue that
  is empty.  With `Liberties = {"overwriteMember"}` TLC finds `NoPhantomEvent` violated.
* *`xTaskDelayUntil`* leaves `*previous` as it is, where FreeRTOS advances it by the
  increment: a loop that relies on that stops waiting once the time has passed
  its first goal.  `src/README.md:13-14` promises
  fakes "that provide equivalent functionality" without naming this one.
* *A full event queue at the end of a test* makes every later test fail, because
  `HLCS_Destroy` asserts each time before it empties anything; this is the exception
  in `CascadeEnds`.
* *`HLCS_Destroy` among running tasks.*  A timer that fires between `vQueueDelete` and
  `xTimerDelete` sends to the deleted queue (`lateTimer`); the task function returns
  if the caller waits for room in a full queue, or has not the higher priority
  (`destroyFromBelow`).  These are causes in `AssertHasCause`.
* *`ButtonService_Destroy`* leaves its interrupt handler registered with the driver;
  this is how `ButtonService` reaches `halted`.

## 6. Not modelled, and the plan

Not modelled, and why:

* `xQueuePeek`, the queue registry, the names and ids of timers: they read, or store
  what nothing else reads.  `xQueueGenericCreateStatic` is `xQueueGenericCreate`.
* `xTaskCreate`, `xTaskCreateStatic` and `vTaskDelete` of the library have no effect.
* the smart-pointer deleters of `..._memory.hpp` forward to the deletions modelled.
* the driver mocks and the tests are scripts; `FreeRTOSConfig.h` (both copies) and
  `portmacro.h` are constants and macros, of which the tick rate and the width of
  the counters matter to a model and are in `FakeTime` and `FakeQueue`.
* the texts of the demo, its callbacks that only print, and `exit(0)`.

Next, in this order:

1. `TestRun` with the tracked mutexes of `FakeMutex` in place of the flag `locked`,
   with the clock of `FakeTime`, and with the tests of the button service as a
   second group.
2. The demo as a composition of `LockCtrl` and `ButtonEvents`, and that the detailed
   services may be replaced by what they promise.
3. That `LockCtrl`, `ButtonEvents` and `QueueSet` by themselves have the properties
   their readers rely on (such as: what was claimed of a set is there), proved of the
   abstract modules, and that the properties of the detailed ones follow.
