------------------------------ MODULE FakeTime ------------------------------
(* Time in a unit test: the tick count and the delays of the task fakes, and  *)
(* the software timers, which are an adapter to the external class            *)
(* FakeTimers.  While a FakeTimers object exists its clock is the time;       *)
(* without one the task fakes count by themselves.                            *)
(*                                                                            *)
(* FakeTimers moves its time system tick by system tick and calls what is     *)
(* due, so a delay takes as many steps as ticks; what else the test thread    *)
(* does waits for the delay to end.  A call that fails an assertion (timers   *)
(* that are not active, or active already) ends the test and changes nothing. *)
EXTENDS Integers

CONSTANTS
  Timer,    \* handles FakeTimers may give out
  Periods,  \* periods and increments in use, in ticks
  MaxTime,  \* bound of either tick count
  NULL

\* What the object FakeTimers keeps of a timer: times in ms.
TimerRecord ==
  [period : Nat \ {0}, autoReload : BOOLEAN, expiry : Nat \cup {NULL}]

\* What its client asked for: times in ticks.
Demand ==
  [period : Nat \ {0}, autoReload : BOOLEAN, due : Nat \cup {NULL}]

ASSUME PeriodsAssumption == Periods \subseteq Nat \ {0}
ASSUME MaxTimeAssumption == MaxTime \in Nat
ASSUME NullAssumption == NULL \notin Nat \cup TimerRecord \cup Demand

VARIABLES
  s_fakeTimers,  \* the time of the FakeTimers object in ms, or NULL
  timer,         \* what the object keeps of each handle, or NULL
  asked,         \* ghost: what the client has asked of it, in ticks, or NULL
  s_tickCount,   \* of the task fakes
  toGo,          \* ms the call in progress has still to move the time
  previous,      \* a wake time the code under test keeps for xTaskDelayUntil
  goal,          \* ghost: the tick count the last delay is to end with, or NULL
  noted          \* ghost: previous was read from the source now in use

vars == <<s_fakeTimers, timer, asked, s_tickCount, toGo, previous, goal, noted>>

TimersIsActive == s_fakeTimers # NULL

configTICK_RATE_HZ == 1000

pdTICKS_TO_MS(ticks) == (ticks * 1000) \div configTICK_RATE_HZ

pdMS_TO_TICKS(ms) == (ms * configTICK_RATE_HZ) \div 1000

TicksToChrono(ticks) == pdTICKS_TO_MS(ticks)

GetCurrentInternalTime == IF TimersIsActive THEN s_fakeTimers ELSE 0

xTaskGetTickCount ==
  IF TimersIsActive THEN pdMS_TO_TICKS(GetCurrentInternalTime) ELSE s_tickCount

Init ==
  /\ s_fakeTimers = NULL
  /\ timer = [h \in Timer |-> NULL]
  /\ asked = [h \in Timer |-> NULL]
  /\ s_tickCount = 0
  /\ toGo = 0
  /\ previous = 0
  /\ goal = NULL
  /\ noted = TRUE

Idle == toGo = 0

\* Bound: how far a call may move the time.
InTime(ticks) == xTaskGetTickCount + ticks <= MaxTime

-----------------------------------------------------------------------------
(* Lifecycle *)

\* TaskDestroy does the same.
TaskInit ==
  /\ Idle
  /\ s_tickCount' = 0
  /\ goal' = NULL /\ noted' = (noted /\ TimersIsActive)
  /\ UNCHANGED <<s_fakeTimers, timer, asked, toGo, previous>>

TimersInit ==
  /\ Idle /\ ~TimersIsActive
  /\ s_fakeTimers' = 0
  /\ goal' = NULL /\ noted' = FALSE
  /\ UNCHANGED <<timer, asked, s_tickCount, toGo, previous>>

TimersDestroy ==
  /\ Idle /\ TimersIsActive
  /\ s_fakeTimers' = NULL
  /\ timer' = [h \in Timer |-> NULL]
  /\ asked' = [h \in Timer |-> NULL]
  /\ goal' = NULL /\ noted' = FALSE
  /\ UNCHANGED <<s_tickCount, toGo, previous>>

-----------------------------------------------------------------------------
(* The class FakeTimers.  A timer has its period and the time it fires next   *)
(* (NULL while dormant) in ms.  Each method leaves one of the given records,  *)
(* NULL for a timer that was deleted.                                         *)

Running(h) == timer[h] # NULL /\ timer[h].expiry # NULL

\* t starts to run, or starts over.
Armed(t) == [t EXCEPT !.expiry = s_fakeTimers + t.period]

TimerStart(t) == {Armed(t)}

TimerReset(t) == {Armed(t)}

TimerStop(t) == {[t EXCEPT !.expiry = NULL]}

TimerDelete(t) == {NULL}

\* A running timer starts over with the new period; how a dormant one reacts
\* no code in this repository tells.
TimerChangePeriod(t, ms) ==
  LET changed == [t EXCEPT !.period = ms]
  IN  {Armed(changed)} \cup (IF t.expiry = NULL THEN {changed} ELSE {})

\* What becomes of timer t when the time gets to now.
AfterTick(t, now) ==
  IF t = NULL \/ t.expiry # now THEN t
  ELSE [t EXCEPT !.expiry = IF t.autoReload THEN now + t.period ELSE NULL]

-----------------------------------------------------------------------------
(* What the client asked for, by the rules of FreeRTOS: the period, and the   *)
(* tick count at which the timer is due (NULL while it is to be dormant)      *)

Commands ==
  {"tmrCOMMAND_START", "tmrCOMMAND_RESET", "tmrCOMMAND_STOP", "tmrCOMMAND_DELETE",
   "tmrCOMMAND_CHANGE_PERIOD", "tmrCOMMAND_START_FROM_ISR"}

\* The optional value FreeRTOS's macros pass with a command.
OptionalValues(xCommandID) ==
  CASE xCommandID = "tmrCOMMAND_CHANGE_PERIOD" -> Periods
    [] xCommandID \in {"tmrCOMMAND_STOP", "tmrCOMMAND_DELETE"} -> {0}
    [] OTHER -> {xTaskGetTickCount}

\* What a command asks of a timer.  FreeRTOS starts a dormant timer whose period
\* is changed; this one is free to stay dormant.
Asked(a, xCommandID, xOptionalValue, staysDormant) ==
  CASE xCommandID \in {"tmrCOMMAND_START", "tmrCOMMAND_RESET"} ->
         [a EXCEPT !.due = xTaskGetTickCount + a.period]
    [] xCommandID = "tmrCOMMAND_STOP" -> [a EXCEPT !.due = NULL]
    [] xCommandID = "tmrCOMMAND_DELETE" -> NULL
    [] xCommandID = "tmrCOMMAND_CHANGE_PERIOD" ->
         [a EXCEPT !.period = xOptionalValue,
                   !.due = IF staysDormant THEN NULL
                           ELSE xTaskGetTickCount + xOptionalValue]

\* What is asked of a timer once the tick count has got to tick.
AskedAfter(a, tick) ==
  IF a = NULL \/ a.due # tick THEN a
  ELSE [a EXCEPT !.due = IF a.autoReload THEN tick + a.period ELSE NULL]

-----------------------------------------------------------------------------
(* The adapter *)

xTimerCreate(h, xTimerPeriodInTicks, xAutoReload) ==
  /\ Idle /\ TimersIsActive /\ timer[h] = NULL
  /\ timer' = [timer EXCEPT ![h] =
       [period |-> TicksToChrono(xTimerPeriodInTicks), autoReload |-> xAutoReload,
        expiry |-> NULL]]
  /\ asked' = [asked EXCEPT ![h] =
       [period |-> xTimerPeriodInTicks, autoReload |-> xAutoReload, due |-> NULL]]
  /\ goal' = NULL
  /\ UNCHANGED <<s_fakeTimers, s_tickCount, toGo, previous, noted>>

\* Mutant: a change of the period is handled like a reset.
DispatchChangeAsReset(t, xCommandID, xOptionalValue) ==
  CASE xCommandID = "tmrCOMMAND_START" -> TimerStart(t)
    [] xCommandID = "tmrCOMMAND_DELETE" -> TimerDelete(t)
    [] xCommandID = "tmrCOMMAND_STOP" -> TimerStop(t)
    [] xCommandID = "tmrCOMMAND_CHANGE_PERIOD" -> TimerReset(t)
    [] xCommandID = "tmrCOMMAND_RESET" -> TimerReset(t)
    [] OTHER -> {}

\* Which method serves which command; any other command fails an assertion.
Dispatch(t, xCommandID, xOptionalValue) ==
  CASE xCommandID = "tmrCOMMAND_START" -> TimerStart(t)
    [] xCommandID = "tmrCOMMAND_DELETE" -> TimerDelete(t)
    [] xCommandID = "tmrCOMMAND_STOP" -> TimerStop(t)
    [] xCommandID = "tmrCOMMAND_CHANGE_PERIOD" ->
         TimerChangePeriod(t, pdTICKS_TO_MS(xOptionalValue))
    [] xCommandID = "tmrCOMMAND_RESET" -> TimerReset(t)
    [] OTHER -> {}

\* An unknown handle fails the assertion on ok.
xTimerGenericCommandFromTask(h, xCommandID, xOptionalValue) ==
  /\ Idle /\ TimersIsActive /\ timer[h] # NULL
  /\ \E t \in Dispatch(timer[h], xCommandID, xOptionalValue) :
       /\ timer' = [timer EXCEPT ![h] = t]
       /\ asked' = [asked EXCEPT ![h] =
            Asked(@, xCommandID, xOptionalValue, @.due = NULL /\ ~Running(h)')]
  /\ goal' = NULL
  /\ UNCHANGED <<s_fakeTimers, s_tickCount, toGo, previous, noted>>

vTimerSetReloadMode(h, xAutoReload) ==
  /\ Idle /\ TimersIsActive /\ timer[h] # NULL
  /\ timer' = [timer EXCEPT ![h].autoReload = xAutoReload]
  /\ asked' = [asked EXCEPT ![h].autoReload = xAutoReload]
  /\ goal' = NULL
  /\ UNCHANGED <<s_fakeTimers, s_tickCount, toGo, previous, noted>>

xTimerGetReloadMode(h) == timer[h].autoReload

xTimerGetExpiryTime(h) == pdMS_TO_TICKS(timer[h].expiry)

xTimerGetPeriod(h) == pdMS_TO_TICKS(timer[h].period)

-----------------------------------------------------------------------------
(* Delays *)

\* Mutant: the timers are not told.
DelayAlone(ticks) ==
  /\ s_tickCount' = s_tickCount + ticks
  /\ goal' = xTaskGetTickCount + ticks
  /\ UNCHANGED toGo

\* Mutant: the timers are told, whether there are any or not.
DelayByTimers(ticks) ==
  /\ goal' = xTaskGetTickCount + ticks
  /\ toGo' = pdTICKS_TO_MS(ticks)
  /\ UNCHANGED s_tickCount

Delay(ticks) ==
  /\ goal' = xTaskGetTickCount + ticks
  /\ IF TimersIsActive
     THEN toGo' = pdTICKS_TO_MS(ticks) /\ UNCHANGED s_tickCount
     ELSE s_tickCount' = s_tickCount + ticks /\ UNCHANGED toGo

vTaskDelay(ticks) ==
  /\ Idle /\ InTime(ticks)
  /\ Delay(ticks)
  /\ UNCHANGED <<s_fakeTimers, timer, asked, previous, noted>>

MoveTimeForward(ms) ==
  /\ Idle /\ TimersIsActive /\ InTime(pdMS_TO_TICKS(ms))
  /\ toGo' = ms
  /\ goal' = NULL
  /\ UNCHANGED <<s_fakeTimers, timer, asked, s_tickCount, previous, noted>>

NoteTickCount ==
  /\ Idle
  /\ previous' = xTaskGetTickCount /\ noted' = TRUE
  /\ goal' = NULL
  /\ UNCHANGED <<s_fakeTimers, timer, asked, s_tickCount, toGo>>

NextWake(ticks) == previous + ticks

\* Mutant: the tick count of the task fakes, timers or no timers.
DelayUntilAlone(increment) ==
  /\ Idle
  /\ NextWake(increment) > s_tickCount /\ InTime(NextWake(increment) - s_tickCount)
  /\ Delay(NextWake(increment) - s_tickCount)
  /\ UNCHANGED <<s_fakeTimers, timer, asked, previous, noted>>

\* When the moment has come already nothing happens.  The code takes previous
\* by reference and leaves it as it is.
xTaskDelayUntil(increment) ==
  /\ Idle
  /\ NextWake(increment) > xTaskGetTickCount /\ NextWake(increment) <= MaxTime
  /\ Delay(NextWake(increment) - xTaskGetTickCount)
  /\ UNCHANGED <<s_fakeTimers, timer, asked, previous, noted>>

\* One system tick of the call in progress.
FakeTimersTick ==
  /\ toGo > 0
  /\ toGo' = toGo - 1
  /\ s_fakeTimers' = s_fakeTimers + 1
  /\ timer' = [h \in Timer |-> AfterTick(timer[h], s_fakeTimers + 1)]
  /\ asked' = [h \in Timer |-> AskedAfter(asked[h], xTaskGetTickCount')]
  /\ UNCHANGED <<s_tickCount, previous, goal, noted>>

-----------------------------------------------------------------------------
Next ==
  \/ TaskInit
  \/ TimersInit
  \/ TimersDestroy
  \/ \E h \in Timer :
       \/ \E period \in Periods, autoReload \in BOOLEAN :
            xTimerCreate(h, period, autoReload)
       \/ \E xCommandID \in Commands :
            \E xOptionalValue \in OptionalValues(xCommandID) :
              xTimerGenericCommandFromTask(h, xCommandID, xOptionalValue)
       \/ \E xAutoReload \in BOOLEAN : vTimerSetReloadMode(h, xAutoReload)
  \/ \E ticks \in Periods :
       vTaskDelay(ticks) \/ MoveTimeForward(ticks) \/ xTaskDelayUntil(ticks)
  \/ NoteTickCount
  \/ FakeTimersTick

Spec == Init /\ [][Next]_vars

-----------------------------------------------------------------------------
(* Properties *)

\* Type invariant.
TypeOK ==
  /\ s_fakeTimers \in Nat \cup {NULL}
  /\ timer \in [Timer -> TimerRecord \cup {NULL}]
  /\ asked \in [Timer -> Demand \cup {NULL}]
  /\ s_tickCount \in Nat /\ toGo \in Nat /\ previous \in Nat
  /\ goal \in Nat \cup {NULL}
  /\ noted \in BOOLEAN
  /\ ~TimersIsActive => toGo = 0 /\ \A h \in Timer : timer[h] = NULL

\* Whichever source the time comes from, a delay of so many ticks moves what
\* xTaskGetTickCount() returns by exactly that, and xTaskDelayUntil ends at
\* the moment asked for.
DelaysAreExact ==
  goal # NULL => xTaskGetTickCount + pdMS_TO_TICKS(toGo) = goal

\* Whatever commands a timer was given and in whatever portions the time moved,
\* the timer is dormant or runs as the last command asked, and the tick count of
\* its next call is the one that command, the period and the mode it was given
\* ask for: the adapter gave each command to the right method, with the right
\* value in the right unit.
FiresOnTime ==
  \A h \in Timer : asked[h] # NULL =>
    /\ Running(h) <=> asked[h].due # NULL
    /\ Running(h) => xTimerGetExpiryTime(h) = asked[h].due
    /\ xTimerGetPeriod(h) = asked[h].period
    /\ xTimerGetReloadMode(h) = asked[h].autoReload

\* With a wake time from the source in use, xTaskDelayUntil never sleeps longer
\* than the increment, although the count falls back whenever timers come or go.
NeverOversleeps ==
  [][\A increment \in Periods :
       noted /\ xTaskDelayUntil(increment) =>
         goal' - xTaskGetTickCount <= increment]_vars
=============================================================================
