--------------------------- MODULE FakeTime_proofs ---------------------------
(* Theorems about FakeTime, for any handles, any periods and any bound.       *)
EXTENDS FakeTime, TLAPS

\* At 1000 Hz a tick is a millisecond.
LEMMA Conversions ==
  ASSUME NEW t \in Nat
  PROVE  pdTICKS_TO_MS(t) = t /\ pdMS_TO_TICKS(t) = t /\ TicksToChrono(t) = t
BY DEF pdTICKS_TO_MS, pdMS_TO_TICKS, TicksToChrono, configTICK_RATE_HZ

\* What xTaskGetTickCount() returns, without the conversion.
LEMMA TickCount ==
  ASSUME TypeOK
  PROVE  /\ xTaskGetTickCount \in Nat
         /\ TimersIsActive => s_fakeTimers \in Nat /\ xTaskGetTickCount = s_fakeTimers
         /\ ~TimersIsActive => xTaskGetTickCount = s_tickCount
BY Conversions, NullAssumption
   DEF TypeOK, xTaskGetTickCount, GetCurrentInternalTime, TimersIsActive

-----------------------------------------------------------------------------
(* One timer: the object's record t and the client's demand a *)

AsAsked(t, a) ==
  /\ t = NULL <=> a = NULL
  /\ t # NULL => t.period = a.period /\ t.autoReload = a.autoReload /\ t.expiry = a.due

\* Every timer the object has is the one the client asked for.
Agreement == \A h \in Timer : AsAsked(timer[h], asked[h])

\* At 1000 Hz that is what FiresOnTime says in ticks.
LEMMA AgreementOnTime == TypeOK /\ Agreement => FiresOnTime
<1> SUFFICES ASSUME TypeOK, Agreement, NEW h \in Timer, asked[h] # NULL
             PROVE  /\ Running(h) <=> asked[h].due # NULL
                    /\ Running(h) => xTimerGetExpiryTime(h) = asked[h].due
                    /\ xTimerGetPeriod(h) = asked[h].period
                    /\ xTimerGetReloadMode(h) = asked[h].autoReload
  BY DEF FiresOnTime
<1>1. timer[h] \in TimerRecord /\ timer[h] # NULL /\ AsAsked(timer[h], asked[h])
  BY DEF Agreement, AsAsked, TypeOK
<1>2. timer[h].period \in Nat /\ (Running(h) => timer[h].expiry \in Nat)
  BY <1>1 DEF TimerRecord, Running
<1>3. pdMS_TO_TICKS(timer[h].period) = timer[h].period
  BY <1>2, Conversions
<1>4. Running(h) => pdMS_TO_TICKS(timer[h].expiry) = timer[h].expiry
  BY <1>2, Conversions
<1> QED
  BY <1>1, <1>3, <1>4
     DEF AsAsked, Running, xTimerGetExpiryTime, xTimerGetPeriod, xTimerGetReloadMode

\* A timer that is armed is due a period from now.
LEMMA ArmedAsAsked ==
  ASSUME TypeOK, TimersIsActive,
         NEW t \in TimerRecord, NEW a \in Demand, AsAsked(t, a), t # NULL
  PROVE  LET b == [a EXCEPT !.due = xTaskGetTickCount + a.period]
         IN  Armed(t) \in TimerRecord /\ b \in Demand /\ AsAsked(Armed(t), b)
<1> DEFINE b == [a EXCEPT !.due = xTaskGetTickCount + a.period]
           now == s_fakeTimers + t.period
<1>1. s_fakeTimers \in Nat /\ xTaskGetTickCount = s_fakeTimers
  BY TickCount
<1>2. t.period \in Nat \ {0} /\ t.period = a.period /\ t.autoReload = a.autoReload
  BY DEF TimerRecord, AsAsked
<1>3. now \in Nat /\ xTaskGetTickCount + a.period = now
  BY <1>1, <1>2
<1>4. Armed(t) = [t EXCEPT !.expiry = now]
  BY DEF Armed
<1>5. b = [a EXCEPT !.due = now]
  BY <1>3
<1> HIDE DEF now, b
<1>6. Armed(t) \in TimerRecord /\ b \in Demand
  BY <1>3, <1>4, <1>5 DEF TimerRecord, Demand
<1>7. /\ Armed(t).expiry = now /\ b.due = now
      /\ Armed(t).period = t.period /\ b.period = a.period
      /\ Armed(t).autoReload = t.autoReload /\ b.autoReload = a.autoReload
  BY <1>4, <1>5 DEF TimerRecord, Demand
<1>8. Armed(t) # NULL /\ b # NULL
  BY <1>6, NullAssumption
<1>9. AsAsked(Armed(t), b)
  BY <1>2, <1>7, <1>8 DEF AsAsked
<1> QED
  BY <1>6, <1>9 DEF b

\* A command leaves what it asks for.
LEMMA DispatchAsAsked ==
  ASSUME TypeOK, TimersIsActive,
         NEW t \in TimerRecord, NEW a \in Demand, AsAsked(t, a), t # NULL,
         NEW xCommandID \in Commands, NEW value \in OptionalValues(xCommandID),
         NEW u \in Dispatch(t, xCommandID, value),
         NEW dormant \in BOOLEAN,
         dormant <=> a.due = NULL /\ ~(u # NULL /\ u.expiry # NULL)
  PROVE  LET b == Asked(a, xCommandID, value, dormant)
         IN  u \in TimerRecord \cup {NULL} /\ b \in Demand \cup {NULL} /\ AsAsked(u, b)
<1> DEFINE b == Asked(a, xCommandID, value, dormant)
<1>1. CASE xCommandID \in {"tmrCOMMAND_START", "tmrCOMMAND_RESET"}
  <2>1. u = Armed(t)
    BY <1>1 DEF Dispatch, TimerStart, TimerReset
  <2>2. b = [a EXCEPT !.due = xTaskGetTickCount + a.period]
    BY <1>1 DEF Asked
  <2> QED
    BY <2>1, <2>2, ArmedAsAsked
<1>2. CASE xCommandID = "tmrCOMMAND_STOP"
  <2>1. u = [t EXCEPT !.expiry = NULL]
    BY <1>2 DEF Dispatch, TimerStop
  <2>2. b = [a EXCEPT !.due = NULL]
    BY <1>2 DEF Asked
  <2> HIDE DEF b
  <2>3. u \in TimerRecord /\ b \in Demand
    BY <2>1, <2>2 DEF TimerRecord, Demand
  <2>4. /\ u.expiry = NULL /\ b.due = NULL
        /\ u.period = t.period /\ b.period = a.period
        /\ u.autoReload = t.autoReload /\ b.autoReload = a.autoReload
    BY <2>1, <2>2 DEF TimerRecord, Demand
  <2>5. AsAsked(u, b)
    BY <2>3, <2>4, NullAssumption DEF AsAsked
  <2> QED
    BY <2>3, <2>5 DEF b
<1>3. CASE xCommandID = "tmrCOMMAND_DELETE"
  <2>1. u = NULL
    BY <1>3 DEF Dispatch, TimerDelete
  <2>2. b = NULL
    BY <1>3 DEF Asked
  <2> QED
    BY <2>1, <2>2 DEF AsAsked
<1>4. CASE xCommandID = "tmrCOMMAND_CHANGE_PERIOD"
  <2> DEFINE changed == [t EXCEPT !.period = value]
             wished == [a EXCEPT !.period = value]
             started == [wished EXCEPT !.due = xTaskGetTickCount + wished.period]
  <2>1. value \in Nat \ {0} /\ pdTICKS_TO_MS(value) = value
    BY <1>4, PeriodsAssumption, Conversions DEF OptionalValues
  <2>2. changed \in TimerRecord /\ wished \in Demand
    BY <2>1 DEF TimerRecord, Demand
  <2>3. /\ changed.period = value /\ wished.period = value
        /\ changed.expiry = t.expiry /\ wished.due = a.due
        /\ changed.autoReload = t.autoReload /\ wished.autoReload = a.autoReload
    BY DEF TimerRecord, Demand
  <2>4. AsAsked(changed, wished) /\ changed # NULL
    BY <2>2, <2>3, NullAssumption DEF AsAsked
  <2>5. u = Armed(changed) \/ (t.expiry = NULL /\ u = changed)
    BY <1>4, <2>1 DEF Dispatch, TimerChangePeriod
  <2>6. b = IF dormant THEN [wished EXCEPT !.due = NULL] ELSE started
    BY <1>4, <2>1 DEF Asked, Demand
  <2>7. Armed(changed) \in TimerRecord /\ started \in Demand /\ AsAsked(Armed(changed), started)
    BY <2>2, <2>4, ArmedAsAsked
  <2>8. CASE u = Armed(changed)
    <3>1. u.expiry = s_fakeTimers + changed.period /\ u # NULL
      BY <2>2, <2>7, <2>8, NullAssumption DEF Armed, TimerRecord
    <3>2. ~dormant
      <4>1. u.expiry \in Nat
        BY <2>1, <2>3, <3>1, TickCount
      <4> QED
        BY <3>1, <4>1, NullAssumption
    <3> QED
      BY <2>6, <2>7, <2>8, <3>2
  <2>9. CASE t.expiry = NULL /\ u = changed
    <3>1. a.due = NULL /\ dormant
      BY <2>3, <2>9 DEF AsAsked
    <3>2. [wished EXCEPT !.due = NULL] = wished
      BY <2>2, <2>3, <3>1 DEF Demand
    <3> QED
      BY <2>2, <2>4, <2>6, <2>9, <3>1, <3>2
  <2> QED
    BY <2>5, <2>8, <2>9
<1>5. CASE xCommandID = "tmrCOMMAND_START_FROM_ISR"
  BY <1>5 DEF Dispatch
<1> QED
  BY <1>1, <1>2, <1>3, <1>4, <1>5 DEF Commands

\* A tick serves a timer the moment it is due, and no other.
LEMMA TickAsAsked ==
  ASSUME NEW now \in Nat,
         NEW t \in TimerRecord \cup {NULL}, NEW a \in Demand \cup {NULL}, AsAsked(t, a)
  PROVE  /\ AfterTick(t, now) \in TimerRecord \cup {NULL}
         /\ AskedAfter(a, now) \in Demand \cup {NULL}
         /\ AsAsked(AfterTick(t, now), AskedAfter(a, now))
<1>1. CASE t = NULL \/ t.expiry # now
  <2>1. AfterTick(t, now) = t
    BY <1>1 DEF AfterTick
  <2>2. AskedAfter(a, now) = a
    BY <1>1 DEF AskedAfter, AsAsked
  <2> QED
    BY <2>1, <2>2
<1>2. CASE t # NULL /\ t.expiry = now
  <2> DEFINE next == IF t.autoReload THEN now + t.period ELSE NULL
             u == AfterTick(t, now)
             b == AskedAfter(a, now)
  <2>1. /\ t \in TimerRecord /\ a \in Demand /\ a # NULL /\ a.due = now
        /\ t.period = a.period /\ t.autoReload = a.autoReload
    BY <1>2 DEF AsAsked
  <2>2. u = [t EXCEPT !.expiry = next]
    BY <1>2 DEF AfterTick
  <2>3. b = [a EXCEPT !.due = next]
    BY <2>1 DEF AskedAfter
  <2>4. next \in Nat \cup {NULL}
    BY <2>1 DEF TimerRecord
  <2> HIDE DEF next, u, b
  <2>5. u \in TimerRecord /\ b \in Demand
    BY <2>1, <2>2, <2>3, <2>4 DEF TimerRecord, Demand
  <2>6. /\ u.expiry = next /\ b.due = next
        /\ u.period = t.period /\ b.period = a.period
        /\ u.autoReload = t.autoReload /\ b.autoReload = a.autoReload
    BY <2>1, <2>2, <2>3 DEF TimerRecord, Demand
  <2>7. AsAsked(u, b)
    BY <2>1, <2>5, <2>6, NullAssumption DEF AsAsked
  <2> QED
    BY <2>5, <2>7 DEF u, b
<1> QED
  BY <1>1, <1>2
-----------------------------------------------------------------------------
(* The invariant *)

\* A wake time read from the source in use is not in the future.
NotedIsPast == noted => previous <= xTaskGetTickCount

IInv == TypeOK /\ DelaysAreExact /\ Agreement /\ NotedIsPast

LEMMA InitIInv == Init => IInv
<1> SUFFICES ASSUME Init PROVE IInv
  OBVIOUS
<1>1. TypeOK
  BY DEF Init, TypeOK, TimersIsActive
<1>2. DelaysAreExact
  BY DEF Init, DelaysAreExact
<1>3. Agreement
  BY DEF Init, Agreement, AsAsked
<1>4. NotedIsPast
  BY <1>1, TickCount DEF Init, NotedIsPast, TimersIsActive
<1> QED
  BY <1>1, <1>2, <1>3, <1>4 DEF IInv

\* Every step of the code keeps the invariant.
LEMMA StepPreserves == IInv /\ [Next]_vars => IInv'
<1> SUFFICES ASSUME IInv, [Next]_vars PROVE IInv'
  OBVIOUS
<1> USE DEF IInv
<1>a. TypeOK /\ DelaysAreExact /\ Agreement /\ NotedIsPast
  OBVIOUS
<1>c. /\ xTaskGetTickCount \in Nat
      /\ TimersIsActive => s_fakeTimers \in Nat /\ xTaskGetTickCount = s_fakeTimers
      /\ ~TimersIsActive => xTaskGetTickCount = s_tickCount
  BY <1>a, TickCount
<1>d. ASSUME UNCHANGED <<timer, asked>>
      PROVE  Agreement'
  BY <1>a, <1>d DEF Agreement, AsAsked
<1>e. ASSUME TypeOK'
      PROVE  /\ xTaskGetTickCount' \in Nat
             /\ s_fakeTimers' # NULL => s_fakeTimers' \in Nat /\ xTaskGetTickCount' = s_fakeTimers'
             /\ s_fakeTimers' = NULL => xTaskGetTickCount' = s_tickCount'
  <2>1. (/\ xTaskGetTickCount \in Nat
         /\ TimersIsActive => s_fakeTimers \in Nat /\ xTaskGetTickCount = s_fakeTimers
         /\ ~TimersIsActive => xTaskGetTickCount = s_tickCount)'
    BY <1>e, TickCount, PTL
  <2> QED
    BY <2>1 DEF TimersIsActive
<1>f. ASSUME UNCHANGED <<s_fakeTimers, s_tickCount>>
      PROVE  xTaskGetTickCount' = xTaskGetTickCount
  BY <1>f DEF xTaskGetTickCount, GetCurrentInternalTime, TimersIsActive, pdMS_TO_TICKS,
              configTICK_RATE_HZ
<1>g. ASSUME NEW ticks \in Nat \ {0}, Delay(ticks), Idle,
             UNCHANGED <<s_fakeTimers, timer, asked, previous, noted>>
      PROVE  IInv'
  <2>1. pdTICKS_TO_MS(ticks) = ticks
    BY Conversions
  <2>2. TypeOK'
    BY <1>a, <1>c, <1>g, <2>1 DEF TypeOK, Delay, TimersIsActive, Idle
  <2>3. /\ s_fakeTimers # NULL => xTaskGetTickCount' = xTaskGetTickCount /\ toGo' = ticks
        /\ s_fakeTimers = NULL => xTaskGetTickCount' = xTaskGetTickCount + ticks /\ toGo' = 0
        /\ goal' = xTaskGetTickCount + ticks
    BY <1>c, <1>e, <1>g, <2>1, <2>2 DEF Delay, TimersIsActive, Idle
  <2>4. pdMS_TO_TICKS(toGo') = toGo'
    BY <2>2, Conversions DEF TypeOK
  <2>5. DelaysAreExact'
    BY <1>c, <2>3, <2>4 DEF DelaysAreExact, pdMS_TO_TICKS, configTICK_RATE_HZ
  <2>6. Agreement'
    BY <1>d, <1>g
  <2>7. NotedIsPast'
    <3>1. xTaskGetTickCount' >= xTaskGetTickCount
      BY <1>c, <2>3
    <3>2. previous \in Nat /\ xTaskGetTickCount' \in Nat
      BY <1>a, <1>e, <2>2 DEF TypeOK
    <3> QED
      BY <1>a, <1>c, <1>g, <3>1, <3>2 DEF NotedIsPast
  <2> QED
    BY <2>2, <2>5, <2>6, <2>7
<1>h. ASSUME NEW h \in Timer, TimersIsActive, timer[h] # NULL
      PROVE  timer[h] \in TimerRecord /\ asked[h] \in Demand /\ AsAsked(timer[h], asked[h])
  BY <1>a, <1>h DEF Agreement, AsAsked, TypeOK
<1>1. CASE TaskInit
  <2>1. TypeOK'
    BY <1>a, <1>1 DEF TypeOK, TaskInit, TimersIsActive
  <2>2. DelaysAreExact'
    BY <1>1 DEF TaskInit, DelaysAreExact
  <2>3. Agreement'
    BY <1>1, <1>d DEF TaskInit
  <2>4. NotedIsPast'
    BY <1>1, <1>a, <1>c, <1>e, <2>1 DEF TaskInit, NotedIsPast, TimersIsActive
  <2> QED
    BY <2>1, <2>2, <2>3, <2>4
<1>2. CASE TimersInit
  <2>1. TypeOK'
    BY <1>a, <1>2, NullAssumption DEF TypeOK, TimersInit, TimersIsActive
  <2>2. DelaysAreExact'
    BY <1>2 DEF TimersInit, DelaysAreExact
  <2>3. Agreement'
    BY <1>2, <1>d DEF TimersInit
  <2>4. NotedIsPast'
    BY <1>2 DEF TimersInit, NotedIsPast
  <2> QED
    BY <2>1, <2>2, <2>3, <2>4
<1>3. CASE TimersDestroy
  <2>1. TypeOK'
    BY <1>a, <1>3 DEF TypeOK, TimersDestroy, TimersIsActive, Idle
  <2>2. DelaysAreExact'
    BY <1>3 DEF TimersDestroy, DelaysAreExact
  <2>3. Agreement'
    BY <1>3 DEF TimersDestroy, Agreement, AsAsked
  <2>4. NotedIsPast'
    BY <1>3 DEF TimersDestroy, NotedIsPast
  <2> QED
    BY <2>1, <2>2, <2>3, <2>4
<1>4. ASSUME NEW h \in Timer, NEW t \in TimerRecord \cup {NULL},
             NEW a \in Demand \cup {NULL}, AsAsked(t, a), TimersIsActive,
             timer' = [timer EXCEPT ![h] = t], asked' = [asked EXCEPT ![h] = a],
             goal' = NULL,
             UNCHANGED <<s_fakeTimers, s_tickCount, toGo, previous, noted>>
      PROVE  IInv'
  <2>1. TypeOK'
    BY <1>a, <1>4 DEF TypeOK, TimersIsActive
  <2>2. DelaysAreExact'
    BY <1>4 DEF DelaysAreExact
  <2>3. Agreement'
    <3>1. \A g \in Timer : /\ timer'[g] = IF g = h THEN t ELSE timer[g]
                           /\ asked'[g] = IF g = h THEN a ELSE asked[g]
      BY <1>4, <1>a DEF TypeOK
    <3>2. \A g \in Timer : AsAsked(timer'[g], asked'[g])
      BY <1>4, <1>a, <3>1 DEF Agreement
    <3> QED
      BY <3>2 DEF Agreement, AsAsked
  <2>4. NotedIsPast'
    BY <1>4, <1>a, <1>f DEF NotedIsPast
  <2> QED
    BY <2>1, <2>2, <2>3, <2>4
<1>5. ASSUME NEW h \in Timer, NEW period \in Periods, NEW autoReload \in BOOLEAN,
             xTimerCreate(h, period, autoReload)
      PROVE  IInv'
  <2> DEFINE t == [period |-> TicksToChrono(period), autoReload |-> autoReload,
                   expiry |-> NULL]
             a == [period |-> period, autoReload |-> autoReload, due |-> NULL]
  <2>1. TicksToChrono(period) = period /\ period \in Nat \ {0}
    BY Conversions, PeriodsAssumption
  <2>2. t \in TimerRecord /\ a \in Demand
    BY <2>1 DEF TimerRecord, Demand
  <2>3. AsAsked(t, a)
    BY <2>1, <2>2, NullAssumption DEF AsAsked
  <2> QED
    BY <1>4, <1>5, <2>2, <2>3 DEF xTimerCreate
<1>6. ASSUME NEW h \in Timer, NEW id \in Commands, NEW value \in OptionalValues(id),
             xTimerGenericCommandFromTask(h, id, value)
      PROVE  IInv'
  <2> DEFINE dormant == asked[h].due = NULL /\ ~Running(h)'
             a == Asked(asked[h], id, value, dormant)
  <2>1. TimersIsActive /\ timer[h] # NULL
    BY <1>6 DEF xTimerGenericCommandFromTask
  <2>2. PICK t \in Dispatch(timer[h], id, value) :
          timer' = [timer EXCEPT ![h] = t] /\ asked' = [asked EXCEPT ![h] = a]
    <3>1. PICK t \in Dispatch(timer[h], id, value) :
            /\ timer' = [timer EXCEPT ![h] = t]
            /\ asked' = [asked EXCEPT ![h] =
                 Asked(@, id, value, @.due = NULL /\ ~Running(h)')]
      BY <1>6 DEF xTimerGenericCommandFromTask
    <3> QED
      BY <3>1
  <2>3. dormant \in BOOLEAN
    OBVIOUS
  <2>4. timer'[h] = t
    BY <1>a, <2>2 DEF TypeOK
  <2>5. dormant <=> asked[h].due = NULL /\ ~(t # NULL /\ t.expiry # NULL)
    BY <2>4 DEF Running
  <2> HIDE DEF dormant
  <2>6. t \in TimerRecord \cup {NULL} /\ a \in Demand \cup {NULL} /\ AsAsked(t, a)
    BY <1>a, <1>h, <2>1, <2>3, <2>5, DispatchAsAsked
  <2> HIDE DEF a
  <2> QED
    BY <1>4, <1>6, <2>1, <2>2, <2>6 DEF xTimerGenericCommandFromTask
<1>7. ASSUME NEW h \in Timer, NEW mode \in BOOLEAN, vTimerSetReloadMode(h, mode)
      PROVE  IInv'
  <2> DEFINE t == [timer[h] EXCEPT !.autoReload = mode]
             a == [asked[h] EXCEPT !.autoReload = mode]
  <2>1. timer[h] \in TimerRecord /\ asked[h] \in Demand /\ AsAsked(timer[h], asked[h])
        /\ timer[h] # NULL
    BY <1>7, <1>h DEF vTimerSetReloadMode
  <2>2. t \in TimerRecord /\ a \in Demand
    BY <2>1 DEF TimerRecord, Demand
  <2>3. /\ t.expiry = timer[h].expiry /\ t.period = timer[h].period /\ t.autoReload = mode
        /\ a.due = asked[h].due /\ a.period = asked[h].period /\ a.autoReload = mode
    BY <2>1 DEF TimerRecord, Demand
  <2>4. AsAsked(t, a)
    BY <2>1, <2>2, <2>3, NullAssumption DEF AsAsked
  <2>5. timer' = [timer EXCEPT ![h] = t] /\ asked' = [asked EXCEPT ![h] = a]
    BY <1>7 DEF vTimerSetReloadMode
  <2> HIDE DEF t, a
  <2> QED
    BY <1>4, <1>7, <2>2, <2>4, <2>5 DEF vTimerSetReloadMode
<1>8. ASSUME NEW ticks \in Periods, vTaskDelay(ticks)
      PROVE  IInv'
  BY <1>8, <1>g, PeriodsAssumption DEF vTaskDelay
<1>9. ASSUME NEW ticks \in Periods, MoveTimeForward(ticks)
      PROVE  IInv'
  <2>1. TypeOK'
    BY <1>9, <1>a, PeriodsAssumption DEF MoveTimeForward, TypeOK, TimersIsActive
  <2>2. DelaysAreExact'
    BY <1>9 DEF MoveTimeForward, DelaysAreExact
  <2>3. Agreement'
    BY <1>9, <1>d DEF MoveTimeForward
  <2>4. NotedIsPast'
    BY <1>9, <1>a, <1>f DEF MoveTimeForward, NotedIsPast
  <2> QED
    BY <2>1, <2>2, <2>3, <2>4
<1>10. ASSUME NEW increment \in Periods, xTaskDelayUntil(increment)
       PROVE  IInv'
  <2>1. previous + increment - xTaskGetTickCount \in Nat \ {0}
    BY <1>10, <1>a, <1>c, PeriodsAssumption DEF xTaskDelayUntil, NextWake, TypeOK
  <2>2. PICK n \in Nat \ {0} : n = previous + increment - xTaskGetTickCount
    BY <2>1
  <2>3. Delay(n) /\ Idle /\ UNCHANGED <<s_fakeTimers, timer, asked, previous, noted>>
    BY <1>10, <1>a, <1>c, <2>2, PeriodsAssumption
       DEF xTaskDelayUntil, NextWake, Delay, TypeOK
  <2> QED
    BY <1>g, <2>3
<1>11. CASE NoteTickCount
  <2>1. TypeOK'
    BY <1>11, <1>a, <1>c DEF NoteTickCount, TypeOK, TimersIsActive
  <2>2. DelaysAreExact'
    BY <1>11 DEF NoteTickCount, DelaysAreExact
  <2>3. Agreement'
    BY <1>11, <1>d DEF NoteTickCount
  <2>4. NotedIsPast'
    BY <1>11, <1>c, <1>f DEF NoteTickCount, NotedIsPast
  <2> QED
    BY <2>1, <2>2, <2>3, <2>4
<1>12. CASE FakeTimersTick
  <2>1. TimersIsActive /\ s_fakeTimers \in Nat /\ toGo \in Nat
    BY <1>12, <1>a, <1>c DEF FakeTimersTick, TypeOK
  <2>2. s_fakeTimers' = s_fakeTimers + 1 /\ s_fakeTimers' \in Nat
    BY <1>12, <2>1 DEF FakeTimersTick
  <2>3. xTaskGetTickCount' = s_fakeTimers + 1
    <3>1. s_fakeTimers' # NULL
      BY <2>2, NullAssumption
    <3>2. xTaskGetTickCount' = (s_fakeTimers' * 1000) \div 1000
      BY <3>1 DEF xTaskGetTickCount, GetCurrentInternalTime, TimersIsActive,
                  pdMS_TO_TICKS, configTICK_RATE_HZ
    <3> QED
      BY <2>2, <3>2
  <2>4. \A h \in Timer :
           /\ AfterTick(timer[h], s_fakeTimers + 1) \in TimerRecord \cup {NULL}
           /\ AskedAfter(asked[h], s_fakeTimers + 1) \in Demand \cup {NULL}
           /\ AsAsked(AfterTick(timer[h], s_fakeTimers + 1),
                      AskedAfter(asked[h], s_fakeTimers + 1))
    BY <1>a, <2>1, TickAsAsked DEF TypeOK, Agreement
  <2>5. /\ timer' = [h \in Timer |-> AfterTick(timer[h], s_fakeTimers + 1)]
        /\ asked' = [h \in Timer |-> AskedAfter(asked[h], s_fakeTimers + 1)]
    BY <1>12, <2>3 DEF FakeTimersTick
  <2>6. TypeOK'
    BY <1>12, <1>a, <2>1, <2>2, <2>4, <2>5, NullAssumption
       DEF FakeTimersTick, TypeOK, TimersIsActive
  <2>7. xTaskGetTickCount' = xTaskGetTickCount + 1
    BY <1>12, <1>c, <1>e, <2>1, <2>6, NullAssumption DEF FakeTimersTick
  <2>8. DelaysAreExact'
    <3>1. pdMS_TO_TICKS(toGo) = toGo
      BY <2>1, Conversions
    <3>2. toGo' \in Nat /\ pdMS_TO_TICKS(toGo') = toGo'
      BY <2>6, Conversions DEF TypeOK
    <3>3. toGo' = toGo - 1 /\ goal' = goal
      BY <1>12 DEF FakeTimersTick
    <3>4. pdMS_TO_TICKS(toGo)' = toGo'
      BY <3>2 DEF pdMS_TO_TICKS, configTICK_RATE_HZ
    <3> QED
      BY <1>a, <1>c, <2>1, <2>7, <3>1, <3>3, <3>4 DEF DelaysAreExact
  <2>9. Agreement'
    BY <2>4, <2>5 DEF Agreement, AsAsked
  <2>10. NotedIsPast'
    <3>1. noted' = noted /\ previous' = previous /\ previous \in Nat
      BY <1>12, <1>a DEF FakeTimersTick, TypeOK
    <3> QED
      BY <1>a, <1>c, <2>7, <3>1 DEF NotedIsPast
  <2> QED
    BY <2>6, <2>8, <2>9, <2>10
<1>13. CASE UNCHANGED vars
  <2>1. TypeOK'
    BY <1>13, <1>a DEF vars, TypeOK, TimersIsActive
  <2>2. DelaysAreExact' /\ NotedIsPast'
    BY <1>13, <1>a, <1>f DEF vars, DelaysAreExact, NotedIsPast, pdMS_TO_TICKS,
                             configTICK_RATE_HZ
  <2>3. Agreement'
    BY <1>13, <1>d DEF vars
  <2> QED
    BY <2>1, <2>2, <2>3
<1> QED
  BY <1>1, <1>2, <1>3, <1>5, <1>6, <1>7, <1>8, <1>9, <1>10, <1>11, <1>12, <1>13 DEF Next

THEOREM Invariance == Spec => []IInv
<1>1. Init => IInv
  BY InitIInv
<1>2. IInv /\ [Next]_vars => IInv'
  BY StepPreserves
<1> QED
  BY <1>1, <1>2, PTL DEF Spec

\* The variables keep their types, and no timer outlives the FakeTimers object.
THEOREM TypeCorrect == Spec => []TypeOK
<1>1. IInv => TypeOK
  BY DEF IInv
<1> QED
  BY Invariance, <1>1, PTL

\* A delay moves the tick count by what was asked, with timers and without
\* (vTaskDelay, xTaskDelayUntil, xTaskGetTickCount).
THEOREM DelaysExact == Spec => []DelaysAreExact
<1>1. IInv => DelaysAreExact
  BY DEF IInv
<1> QED
  BY Invariance, <1>1, PTL

\* Every timer runs and is called as its client's commands ask, in ticks, however
\* commands and moves of time mix (xTimerCreate, xTimerGenericCommandFromTask,
\* vTimerSetReloadMode).
THEOREM TimersFireOnTime == Spec => []FiresOnTime
<1>1. IInv => FiresOnTime
  BY AgreementOnTime DEF IInv
<1> QED
  BY Invariance, <1>1, PTL

\* With a wake time from the source in use xTaskDelayUntil sleeps for the
\* increment at most.
THEOREM SleepIsBounded == Spec => NeverOversleeps
<1>1. ASSUME IInv, NEW increment \in Periods, noted, xTaskDelayUntil(increment)
      PROVE  goal' - xTaskGetTickCount <= increment
  <2>1. xTaskGetTickCount \in Nat /\ previous \in Nat /\ increment \in Nat
    BY <1>1, TickCount, PeriodsAssumption DEF IInv, TypeOK
  <2>2. goal' = xTaskGetTickCount + (previous + increment - xTaskGetTickCount)
    BY <1>1, <2>1 DEF xTaskDelayUntil, NextWake, Delay
  <2>3. previous <= xTaskGetTickCount
    BY <1>1 DEF IInv, NotedIsPast
  <2> QED
    BY <2>1, <2>2, <2>3
<1>2. IInv /\ [Next]_vars =>
        [\A increment \in Periods :
           noted /\ xTaskDelayUntil(increment) =>
             goal' - xTaskGetTickCount <= increment]_vars
  BY <1>1
<1> QED
  BY Invariance, <1>2, PTL DEF Spec, NeverOversleeps
=============================================================================
