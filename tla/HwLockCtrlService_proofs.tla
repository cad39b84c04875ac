----------------------- MODULE HwLockCtrlService_proofs -----------------------
(* Theorems about HwLockCtrlService, for any queue depth, any load and any    *)
(* combination of faults.                                                     *)
EXTENDS HwLockCtrlService, SequenceTheorems, TLAPS

Unstarted == pc \in {"down", "initialized", "smInitialize"}

\* Which state handlers go with which place of the task.
Shape ==
  /\ Unstarted =>
       s_currentState = "NULL" /\ s_stateHistory = "NULL" /\ s_lockState = "UNKNOWN"
  /\ ~Unstarted => s_currentState \in States
  /\ ~Unstarted /\ s_stateHistory = "NULL" => s_currentState = "SmLocked"
  /\ pc \in {"notify", "callback", "checkCurrent"} => s_currentState # "SmSelfTest"
  /\ pc = "remind" => s_currentState = "SmSelfTest"
  /\ pc \in {"callback", "loop", "idle", "returned", "checkCurrent", "remind"} =>
       s_lockState # "UNKNOWN"

\* What HLCS_GetState() says while the task is somewhere in a transition: the
\* state that was left, or UNKNOWN before the first one was entered.
Stored ==
  /\ pc \in {"enter", "notify", "remind"} =>
       s_lockState = IF s_stateHistory = "NULL" THEN "UNKNOWN"
                                                ELSE PositionIn(s_stateHistory)
  /\ pc = "notify" /\ "driverError" \notin Faults =>
       hardware = PositionIn(s_currentState)

\* Machine, queue, hardware and s_lockState.
Core == TypeOK /\ Shape /\ Stored /\ ReminderComesNext /\ SettledAgrees

\* HLCS_Destroy starts on a service that was started, and leaves nothing of it.
Lifecycle ==
  /\ pc = "down" => ServiceIsDown
  /\ app # "away" => pc \notin {"down", "initialized"}
  /\ app = "away" => ~s_exitThread
  /\ exitPosted => app \notin {"away", "push"}

\* An observer that has been told of this life shows what is stored.
ObserverShows ==
  s_stateChangedCallback /\ s_lockState # "UNKNOWN" /\ pc # "callback" =>
    GetLockState = s_lockState

\* A result belongs to the self test state.
ResultInTest ==
  /\ s_currentState # "SmSelfTest" => reported = "NONE"
  /\ PassedMeansLocked

Around == Lifecycle /\ ResultInTest /\ ObserverShows /\ AssertHasCause

IInv == Core /\ Around

-----------------------------------------------------------------------------
(* Sequences of signals *)

LEMMA ReminderIsRequest ==
  \A history : Reminder(history) \in Requests /\ Reminder(history) \in Signals
  BY DEF Reminder, Requests, Signals

LEMMA PushUrgentProperties ==
  ASSUME NEW S, NEW q \in Seq(S), NEW sig \in S
  PROVE  /\ PushUrgent(q, sig) \in Seq(S)
         /\ PushUrgent(q, sig) # << >>
         /\ Len(PushUrgent(q, sig)) = Len(q) + 1
         /\ Head(PushUrgent(q, sig)) = sig
         /\ Tail(PushUrgent(q, sig)) = q
<1> DEFINE p == <<sig>> \o q
<1>1. <<sig>> \in Seq(S) /\ Len(<<sig>>) = 1 /\ <<sig>>[1] = sig
  OBVIOUS
<1>2. /\ p \in Seq(S) /\ Len(p) = Len(q) + 1 /\ Len(q) \in Nat
      /\ \A i \in 1 .. Len(q) + 1 : p[i] = IF i <= 1 THEN sig ELSE q[i - 1]
  BY <1>1, ConcatProperties, LenProperties
<1> HIDE DEF p
<1>3. p # << >>
  BY <1>2, EmptySeq
<1>4. Head(p) = sig
  BY <1>2, <1>3
<1>5. Tail(p) = q
  <2>1. /\ Tail(p) \in Seq(S) /\ Len(Tail(p)) = Len(q)
        /\ \A i \in 1 .. Len(q) : Tail(p)[i] = p[i + 1]
    BY <1>2, <1>3, HeadTailProperties
  <2>2. \A i \in 1 .. Len(q) : Tail(p)[i] = q[i]
    BY <1>2, <2>1
  <2> QED
    BY <2>1, <2>2, SeqEqual
<1> QED
  BY <1>2, <1>3, <1>4, <1>5 DEF PushUrgent, p

LEMMA AppendKeepsHead ==
  ASSUME NEW S, NEW q \in Seq(S), NEW sig \in S
  PROVE  /\ Append(q, sig) \in Seq(S)
         /\ Append(q, sig) # << >>
         /\ Len(Append(q, sig)) = Len(q) + 1
         /\ q # << >> => /\ Head(Append(q, sig)) = Head(q)
                         /\ Tail(Append(q, sig)) = Append(Tail(q), sig)
<1> DEFINE p == Append(q, sig)
<1>1. /\ p \in Seq(S) /\ p # << >> /\ Len(p) = Len(q) + 1 /\ Len(q) \in Nat
      /\ \A i \in 1 .. Len(q) : p[i] = q[i]
      /\ p[Len(q) + 1] = sig
  BY AppendProperties, LenProperties
<1> HIDE DEF p
<1>2. ASSUME q # << >> PROVE Head(p) = Head(q) /\ Tail(p) = Append(Tail(q), sig)
  <2> DEFINE t == Append(Tail(q), sig)
  <2>1. /\ Tail(q) \in Seq(S) /\ Len(Tail(q)) = Len(q) - 1 /\ Len(q) \in Nat \ {0}
        /\ \A i \in 1 .. Len(q) - 1 : Tail(q)[i] = q[i + 1]
    BY <1>2, HeadTailProperties, EmptySeq
  <2>2. /\ Tail(p) \in Seq(S) /\ Len(Tail(p)) = Len(q)
        /\ \A i \in 1 .. Len(q) : Tail(p)[i] = p[i + 1]
    BY <1>1, HeadTailProperties
  <2>3. /\ t \in Seq(S) /\ Len(t) = Len(q)
        /\ \A i \in 1 .. Len(q) - 1 : t[i] = Tail(q)[i]
        /\ t[Len(q)] = sig
    BY <2>1, AppendProperties
  <2>4. ASSUME NEW i \in 1 .. Len(q) PROVE Tail(p)[i] = t[i]
    <3>1. CASE i = Len(q)
      BY <1>1, <2>2, <2>3, <3>1
    <3>2. CASE i # Len(q)
      <4>1. Len(q) \in Nat /\ i \in 1 .. Len(q)
        BY <1>1
      <4>2. i \in 1 .. Len(q) - 1 /\ i + 1 \in 1 .. Len(q)
        BY <3>2, <4>1
      <4> QED
        BY <1>1, <2>1, <2>2, <2>3, <4>2
    <3> QED
      BY <3>1, <3>2
  <2>5. Tail(p) = t
    <3> HIDE DEF t
    <3> QED
      BY <2>2, <2>3, <2>4, SeqEqual
  <2>6. Head(p) = Head(q)
    BY <1>1, <1>2, <2>1
  <2> QED
    BY <2>5, <2>6
<1> QED
  BY <1>1, <1>2 DEF p

-----------------------------------------------------------------------------
(* The inductive invariant *)

LEMMA InitEstablishes == Init => IInv
<1> SUFFICES ASSUME Init PROVE IInv
  OBVIOUS
<1>1. s_eventQueue \in Seq(Signals) /\ Len(s_eventQueue) = 0
  BY DEF Init
<1>2. /\ asserted \in BOOLEAN /\ s_exitThread \in BOOLEAN /\ exitPosted \in BOOLEAN
      /\ s_stateChangedCallback \in BOOLEAN
      /\ ~asserted /\ ~s_exitThread /\ ~exitPosted /\ ~s_stateChangedCallback
  BY Zenon DEF Init
<1>3. TypeOK
  BY <1>1, <1>2, DepthAssumption DEF Init, TypeOK, Locations, Waiting
<1>4. Shape /\ Stored /\ ReminderComesNext /\ SettledAgrees
  BY DEF Init, Shape, Stored, ReminderComesNext, SettledAgrees, Unstarted, ReminderQueued
<1>5. Around
  BY <1>2 DEF Init, Around, Lifecycle, ServiceIsDown, ResultInTest, PassedMeansLocked,
       ObserverShows, AssertHasCause
<1> QED
  BY <1>3, <1>4, <1>5 DEF IInv, Core

\* A push by a client or the timer touches only the tail of the queue.
LEMMA PushPreserves ==
  ASSUME Core, NEW sig \in Signals, HLCS_PushEvent(sig)
  PROVE  Core'
<1> USE DEF HLCS_PushEvent, destruction, observer
<1>1. /\ s_eventQueue' \in Seq(Signals)
      /\ Len(s_eventQueue') = Len(s_eventQueue) + 1
      /\ s_eventQueue # << >> => s_eventQueue' # << >>
      /\ s_eventQueue # << >> => Head(s_eventQueue') = Head(s_eventQueue)
  BY AppendKeepsHead DEF Core, TypeOK, PushToBack
<1>2. TypeOK'
  <2>1. Len(s_eventQueue) \in Nat /\ Waiting < QueueDepth
    BY LenProperties, DepthAssumption DEF Core, TypeOK, Full, Waiting
  <2> QED
    BY <1>1, <2>1, DepthAssumption DEF Core, TypeOK, Waiting
<1>3. Shape' /\ Stored' /\ SettledAgrees'
  BY DEF Core, Shape, Stored, SettledAgrees, Unstarted, PositionIn
<1>4. ReminderComesNext'
  BY <1>1 DEF Core, ReminderComesNext, ReminderQueued, Reminder, PositionIn
<1> QED
  BY <1>2, <1>3, <1>4 DEF Core

\* What the task finds when it takes an event.
LEMMA ReceiveProperties ==
  ASSUME Core, NEW sig, Receive(sig), exitPosted' = exitPosted
  PROVE  /\ sig \in Signals
         /\ s_eventQueue' \in Seq(Signals)
         /\ Waiting' <= QueueDepth
         /\ Len(s_eventQueue') < Len(s_eventQueue)
         /\ s_currentState \in States
         /\ s_currentState = "SmSelfTest" =>
              /\ sig = Reminder(s_stateHistory)
              /\ sig \in Requests \ {"SIG_REQUEST_SELF_TEST"}
              /\ Dispatch(s_currentState, sig) # "SmSelfTest"
<1> USE DEF Receive, Core, TypeOK
<1>1. /\ Len(s_eventQueue) \in Nat
      /\ s_eventQueue' \in Seq(Signals)
      /\ Len(s_eventQueue') = Len(s_eventQueue) - 1
      /\ sig \in Signals
  BY HeadTailProperties, LenProperties
<1>2. s_currentState \in States
  BY DEF Shape, Unstarted
<1>3. s_currentState = "SmSelfTest" => sig = Reminder(s_stateHistory)
  BY DEF ReminderComesNext, ReminderQueued
<1>4. s_currentState = "SmSelfTest" =>
        /\ sig \in Requests \ {"SIG_REQUEST_SELF_TEST"}
        /\ Dispatch(s_currentState, sig) # "SmSelfTest"
  BY <1>3 DEF Reminder, Requests, Dispatch
<1>5. Waiting' <= QueueDepth /\ Len(s_eventQueue') < Len(s_eventQueue)
  BY <1>1, DepthAssumption DEF Waiting
<1> QED
  BY <1>1, <1>2, <1>3, <1>4, <1>5

\* Every step keeps machine, queue, hardware and s_lockState in step.
LEMMA CorePreserved == Core /\ [Next]_vars => Core'
<1> SUFFICES ASSUME Core, [Next]_vars PROVE Core'
  OBVIOUS
<1> USE DEF Core, destruction, observer, service
<1>1. CASE main
  <2>1. asserted' \in BOOLEAN /\ s_stateChangedCallback' \in BOOLEAN
    BY <1>1, Zenon DEF main, HLCS_Init, HLCS_RegisterChangeStateCallback, HLCS_Start, TypeOK
  <2>2. /\ UNCHANGED <<service, s_exitThread, exitPosted, app, s_lastState>>
        /\ pc \in {"down", "initialized"}
        /\ pc' \in {"down", "initialized", "smInitialize"}
    BY <1>1 DEF main, HLCS_Init, HLCS_RegisterChangeStateCallback, HLCS_Start
  <2> QED
    BY <2>1, <2>2 DEF TypeOK, Shape, Stored, ReminderComesNext, SettledAgrees,
         Unstarted, Locations, PositionIn, ReminderQueued, Waiting
<1>2. CASE UserInputTask
  <2>1. CASE HLCS_RequestAsync
    BY <2>1, PushPreserves DEF HLCS_RequestAsync, Signals
  <2>2. CASE DestroyBegin
    BY <2>2 DEF DestroyBegin, TypeOK, Shape, Stored, ReminderComesNext, SettledAgrees,
         Unstarted, PositionIn, ReminderQueued, Reminder, Waiting, Destroying
  <2> QED
    BY <1>2, <2>1, <2>2 DEF UserInputTask
<1>3. CASE HLCS_CheckCurrentTimerCallback
  <2>1. CASE HLCS_PushEvent(Check)
    BY <2>1, PushPreserves DEF Signals
  <2>2. CASE asserted' = TRUE /\ UNCHANGED <<service, pc, destruction, observer>>
    BY <2>2 DEF TypeOK, Shape, Stored, ReminderComesNext, SettledAgrees, Unstarted,
         PositionIn, ReminderQueued, Reminder, Waiting
  <2> QED
    BY <1>3, <2>1, <2>2 DEF HLCS_CheckCurrentTimerCallback
<1>4. CASE PushTimeout
  BY <1>4 DEF PushTimeout, TypeOK, Shape, Stored, ReminderComesNext, SettledAgrees,
       Unstarted, PositionIn, ReminderQueued, Reminder, Waiting
<1>5. CASE DestroyPush \/ DestroyTask \/ DestroyQueue
  <2>1. Waiting' <= QueueDepth
    BY <1>5, LenProperties, DepthAssumption
       DEF DestroyPush, DestroyTask, DestroyQueue, TypeOK, Full, Waiting
  <2>2. /\ UNCHANGED <<service, pc, asserted, s_exitThread, observer>>
        /\ exitPosted' \in BOOLEAN /\ app' \in Destroying
    BY <1>5 DEF DestroyPush, DestroyTask, DestroyQueue, TypeOK, Destroying
  <2> QED
    BY <2>1, <2>2 DEF TypeOK, Shape, Stored, ReminderComesNext, SettledAgrees,
         Unstarted, PositionIn, ReminderQueued, Reminder
<1>6. CASE DestroyReset
  <2>1. s_eventQueue' \in Seq(Signals) /\ Waiting' <= QueueDepth
    BY <1>6, DepthAssumption DEF DestroyReset, ServiceReset, Waiting
  <2>2. TypeOK'
    BY <1>6, <2>1 DEF DestroyReset, ServiceReset, TypeOK, Locations
  <2> QED
    BY <1>6, <2>2 DEF DestroyReset, ServiceReset, Shape, Stored, ReminderComesNext,
         SettledAgrees, Unstarted, ReminderQueued
<1>7. CASE HLCS_SmInitialize
  BY <1>7 DEF HLCS_SmInitialize, HwLockCtrlInit, TypeOK, Shape, Stored, ReminderComesNext,
       SettledAgrees, Unstarted, Locations, States, PositionIn, ReminderQueued, Waiting
<1>8. CASE CheckExit \/ LockStateChangeCallback
  <2>1. asserted' \in BOOLEAN
    BY <1>8, Zenon DEF CheckExit, LockStateChangeCallback, TypeOK
  <2>2. /\ UNCHANGED <<service, s_exitThread, exitPosted, app, s_stateChangedCallback>>
        /\ s_lastState' \in Positions \cup {"UNKNOWN"}
        /\ \/ pc = "loop" /\ pc' \in {"idle", "returned"}
           \/ pc = "callback" /\ pc' = "loop"
    BY <1>8 DEF CheckExit, LockStateChangeCallback, TypeOK
  <2> QED
    BY <2>1, <2>2 DEF TypeOK, Shape, Stored, ReminderComesNext, SettledAgrees,
         Unstarted, Locations, PositionIn, ReminderQueued, Reminder, Waiting
<1>9. CASE ReceiveExit
  <2>1. Waiting' <= QueueDepth
    BY <1>9, LenProperties, DepthAssumption DEF ReceiveExit, TypeOK, Waiting
  <2> QED
    BY <1>9, <2>1 DEF ReceiveExit, TypeOK, Shape, Stored, ReminderComesNext,
         SettledAgrees, Unstarted, Locations, PositionIn, ReminderQueued, Reminder
<1>10. ASSUME NEW sig \in Signals, HandleInPlace(sig) PROVE Core'
  <2>1. Receive(sig) /\ pc = "idle" /\ exitPosted' = exitPosted
    BY <1>10 DEF HandleInPlace, Receive
  <2>2. s_currentState # "SmSelfTest"
    BY <1>10, <2>1, ReceiveProperties DEF HandleInPlace
  <2>3. TypeOK'
    BY <1>10, <2>1, ReceiveProperties DEF HandleInPlace, TypeOK, Locations
  <2>4. Shape' /\ Stored' /\ ReminderComesNext' /\ SettledAgrees'
    BY <1>10, <2>1, <2>2
       DEF HandleInPlace, Shape, Stored, ReminderComesNext, SettledAgrees,
           Unstarted, PositionIn, ReminderQueued
  <2> QED
    BY <2>3, <2>4
<1>11. CASE BeginCurrentCheck
  <2>1. Receive(Check) /\ pc = "idle" /\ exitPosted' = exitPosted
    BY <1>11 DEF BeginCurrentCheck, Receive
  <2>2. TypeOK'
    BY <1>11, <2>1, ReceiveProperties DEF BeginCurrentCheck, TypeOK, Locations
  <2>3. Shape' /\ Stored' /\ ReminderComesNext' /\ SettledAgrees'
    BY <1>11, <2>1
       DEF BeginCurrentCheck, Shape, Stored, ReminderComesNext, SettledAgrees,
           Unstarted, PositionIn, ReminderQueued
  <2> QED
    BY <2>2, <2>3
<1>12. CASE HLCS_DoCurrentCheck
  <2>0. asserted' = asserted \/ asserted' = TRUE
    <3>1. PICK milliamps \in HwLockCtrlReadCurrent :
            \/ milliamps < 2000 /\ pc' = "loop" /\ UNCHANGED asserted
            \/ milliamps >= 2000 /\ asserted' = TRUE /\ UNCHANGED pc
      BY <1>12 DEF HLCS_DoCurrentCheck
    <3>2. CASE UNCHANGED asserted
      BY <3>2, Zenon
    <3>3. CASE asserted' = TRUE
      BY <3>3, Zenon
    <3> QED
      BY <3>1, <3>2, <3>3
  <2>1. asserted' \in BOOLEAN
    <3>1. CASE asserted' = asserted
      BY <3>1, Zenon DEF TypeOK
    <3>2. CASE asserted' = TRUE
      BY <3>2, Zenon
    <3> QED
      BY <2>0, <3>1, <3>2, Zenon
  <2>2. /\ UNCHANGED <<service, destruction, observer>>
        /\ pc = "checkCurrent" /\ pc' \in {"checkCurrent", "loop"}
    BY <1>12 DEF HLCS_DoCurrentCheck
  <2> QED
    BY <2>1, <2>2 DEF TypeOK, Shape, Stored, ReminderComesNext, SettledAgrees,
         Unstarted, Locations, PositionIn, ReminderQueued, Waiting
<1>13. ASSUME NEW sig \in Signals, TransitionTo(sig) PROVE Core'
  <2>1. /\ Receive(sig) /\ pc = "idle" /\ pc' = "enter"
        /\ s_currentState' = Dispatch(s_currentState, sig)
        /\ s_currentState' # s_currentState
        /\ s_stateHistory' = HistoryAfterExit(s_currentState)
        /\ reported' = "NONE"
        /\ UNCHANGED <<s_lockState, hardware, asserted, destruction, observer>>
    BY <1>13 DEF TransitionTo, Receive
  <2>2. s_currentState \in States /\ s_currentState' \in States
    BY <2>1, ReceiveProperties DEF Dispatch, States
  <2>3. TypeOK'
    BY <2>1, <2>2, ReceiveProperties DEF TypeOK, HistoryAfterExit, Locations, States
  <2>4. s_stateHistory' # "NULL"
    BY <2>1, <2>2 DEF HistoryAfterExit, Shape, Unstarted, States
  <2>5. s_lockState' = PositionIn(s_stateHistory')
    BY <2>1 DEF HistoryAfterExit, ReminderComesNext, ReminderQueued, SettledAgrees
  <2>6. Shape'
    BY <2>1, <2>2, <2>4 DEF Shape, Unstarted
  <2>7. Stored' /\ ReminderComesNext' /\ SettledAgrees'
    BY <2>1, <2>4, <2>5 DEF Stored, ReminderComesNext, ReminderQueued, SettledAgrees
  <2> QED
    BY <2>3, <2>6, <2>7
<1>14. CASE MoveLock
  <2>1. hardware' \in Positions /\
        ("driverError" \notin Faults => hardware' = PositionIn(s_currentState))
    BY <1>14 DEF MoveLock, Driven, PositionIn, Positions, TypeOK
  <2> QED
    BY <1>14, <2>1 DEF MoveLock, TypeOK, Shape, Stored, ReminderComesNext,
         SettledAgrees, Unstarted, Locations, PositionIn, ReminderQueued, Waiting
<1>15. CASE HLCS_NotifyChangedState
  <2>1. s_lockState' \in Positions /\ s_lockState' # "UNKNOWN"
    BY <1>15 DEF HLCS_NotifyChangedState, PositionIn, Positions
  <2> QED
    BY <1>15, <2>1 DEF HLCS_NotifyChangedState, TypeOK, Shape, Stored,
         ReminderComesNext, SettledAgrees, Unstarted, Locations, PositionIn,
         ReminderQueued, Waiting
<1>16. CASE HLCS_PerformSelfTest
  <2>1. hardware' \in Positions /\ reported' \in {"PASS", "FAIL"}
    BY <1>16 DEF HLCS_PerformSelfTest, HLCS_NotifySelfTestResult, SelfTestOutcomes, Driven, PositionIn, Positions, TypeOK
  <2>2. s_stateHistory # "NULL"
    BY <1>16 DEF HLCS_PerformSelfTest, Shape, Unstarted
  <2>3. s_lockState = PositionIn(s_stateHistory) /\ s_lockState # "UNKNOWN"
    BY <1>16, <2>2 DEF HLCS_PerformSelfTest, Stored, PositionIn
  <2>4. UNCHANGED <<s_eventQueue, s_currentState, s_stateHistory, s_lockState, asserted,
                    destruction, observer>>
        /\ pc = "enter" /\ pc' = "remind" /\ s_currentState = "SmSelfTest"
    BY <1>16 DEF HLCS_PerformSelfTest
  <2> QED
    BY <2>1, <2>2, <2>3, <2>4 DEF TypeOK, Shape, Stored, ReminderComesNext,
         SettledAgrees, Unstarted, Locations, PositionIn, ReminderQueued, Waiting
<1>17. CASE HLCS_PushUrgentEvent
  <2>1. /\ s_eventQueue' \in Seq(Signals) /\ s_eventQueue' # << >>
        /\ Len(s_eventQueue') = Len(s_eventQueue) + 1
        /\ Head(s_eventQueue') = Reminder(s_stateHistory)
    BY <1>17, PushUrgentProperties, ReminderIsRequest DEF HLCS_PushUrgentEvent, TypeOK
  <2>2. Waiting' <= QueueDepth
    BY <1>17, <2>1, LenProperties, DepthAssumption
       DEF HLCS_PushUrgentEvent, Full, TypeOK, Waiting
  <2>3. TypeOK'
    BY <1>17, <2>1, <2>2 DEF HLCS_PushUrgentEvent, TypeOK, Locations
  <2>4. s_currentState = "SmSelfTest" /\ s_stateHistory # "NULL"
    BY <1>17 DEF HLCS_PushUrgentEvent, Shape, Unstarted
  <2>5. s_lockState = PositionIn(s_stateHistory)
    BY <1>17, <2>4 DEF HLCS_PushUrgentEvent, Stored
  <2>6. Shape' /\ Stored' /\ SettledAgrees'
    BY <1>17, <2>4, <2>5
       DEF HLCS_PushUrgentEvent, Shape, Stored, SettledAgrees, Unstarted, PositionIn
  <2>7. ReminderComesNext'
    BY <1>17, <2>1, <2>5
       DEF HLCS_PushUrgentEvent, ReminderComesNext, Reminder, PositionIn
  <2> QED
    BY <2>3, <2>6, <2>7
<1>18. CASE UrgentTimeout
  BY <1>18 DEF UrgentTimeout, TypeOK, Shape, Stored, ReminderComesNext,
       SettledAgrees, Unstarted, PositionIn, ReminderQueued, Waiting
<1>19. CASE UNCHANGED vars
  BY <1>19 DEF vars, TypeOK, Shape, Stored, ReminderComesNext, SettledAgrees,
       Unstarted, PositionIn, Reminder, ReminderQueued, Waiting
<1> QED
  BY <1>1, <1>2, <1>3, <1>4, <1>5, <1>6, <1>7, <1>8, <1>9, <1>10, <1>11, <1>12,
     <1>13, <1>14, <1>15, <1>16, <1>17, <1>18, <1>19
     DEF Next, HLCS_Destroy, HLCS_Task, HLCS_ProcessOneEvent

\* Every step leaves destruction, observer, results and assertions in order.
LEMMA AroundPreserved == Core /\ Around /\ [Next]_vars => Around'
<1> SUFFICES ASSUME Core, Around, [Next]_vars PROVE Around'
  OBVIOUS
<1> USE DEF Around, Lifecycle, ResultInTest, PassedMeansLocked, ObserverShows,
            AssertHasCause, GetLockState, destruction, observer, service
<1>1. CASE main
  <2>1. pc = "down" => ServiceIsDown
    OBVIOUS
  <2>2. s_lockState = "UNKNOWN"
    BY <1>1 DEF main, HLCS_Init, HLCS_RegisterChangeStateCallback, HLCS_Start, Core, Shape,
         Unstarted
  <2>3. ~asserted' /\ pc' # "down"
    <3>1. CASE HLCS_Init
      <4>1. ~asserted'
        BY <2>1, <3>1, Zenon DEF HLCS_Init
      <4>2. pc' = "initialized"
        BY <2>1, <3>1 DEF HLCS_Init
      <4> QED
        BY <4>1, <4>2
    <3> QED
      BY <1>1, <3>1 DEF main, HLCS_RegisterChangeStateCallback, HLCS_Start
  <2> QED
    BY <1>1, <2>2, <2>3
       DEF main, HLCS_Init, HLCS_RegisterChangeStateCallback, HLCS_Start
<1>2. ASSUME NEW sig \in Signals, Running, app # "deleteTimer", HLCS_PushEvent(sig)
      PROVE  Around'
  BY <1>2 DEF HLCS_PushEvent, Running
<1>3. CASE UserInputTask
  <2>1. CASE HLCS_RequestAsync
    BY <1>2, <1>3, <2>1 DEF UserInputTask, HLCS_RequestAsync, Signals
  <2>2. CASE DestroyBegin
    BY <1>3, <2>2 DEF UserInputTask, DestroyBegin, Started, Running
  <2> QED
    BY <1>3, <2>1, <2>2 DEF UserInputTask
<1>4. CASE HLCS_CheckCurrentTimerCallback
  <2>1. CASE app # "deleteTimer"
    BY <1>2, <1>4, <2>1 DEF HLCS_CheckCurrentTimerCallback, Started, Signals
  <2>2. CASE app = "deleteTimer"
    BY <1>4, <2>2 DEF HLCS_CheckCurrentTimerCallback, Started, Running
  <2> QED
    BY <2>1, <2>2
<1>5. CASE PushTimeout
  BY <1>5 DEF PushTimeout, Running, Full, Waiting
<1>6. CASE ~asserted /\ (DestroyPush \/ DestroyTask \/ DestroyQueue)
  BY <1>6 DEF DestroyPush, DestroyTask, DestroyQueue
<1>7. CASE ~asserted /\ DestroyReset
  BY <1>7 DEF DestroyReset, ServiceReset, ServiceIsDown
<1>8. CASE ~asserted /\ MayRun /\ CheckExit
  <2>1. pc = "loop" /\ UNCHANGED <<service, destruction, observer>>
    BY <1>8 DEF CheckExit
  <2>2. CASE ~s_exitThread
    BY <1>8, <2>1, <2>2 DEF CheckExit
  <2>3. CASE s_exitThread
    <3>1. app # "away" /\ pc' = "returned"
      BY <1>8, <2>3 DEF CheckExit
    <3>2. Full \/ "destroyFromBelow" \in Faults
      BY <1>8, <3>1 DEF MayRun
    <3>3. Full' = Full
      BY <2>1 DEF Full, Waiting
    <3> QED
      BY <2>1, <3>1, <3>2, <3>3
  <2> QED
    BY <2>2, <2>3
<1>9. CASE ~asserted /\ ReceiveExit
  BY <1>9 DEF ReceiveExit
<1>10. CASE ~asserted /\ HLCS_SmInitialize
  <2>1. reported = "NONE" /\ s_lockState = "UNKNOWN"
    BY <1>10 DEF HLCS_SmInitialize, Core, Shape, Unstarted
  <2> QED
    BY <1>10, <2>1 DEF HLCS_SmInitialize
<1>11. ASSUME ~asserted, NEW sig \in Signals, HandleInPlace(sig) PROVE Around'
  BY <1>11 DEF HandleInPlace, Receive
<1>12. CASE ~asserted /\ BeginCurrentCheck
  BY <1>12 DEF BeginCurrentCheck, Receive
<1>13. CASE ~asserted /\ HLCS_DoCurrentCheck
  BY <1>13 DEF HLCS_DoCurrentCheck, HwLockCtrlReadCurrent
<1>14. ASSUME ~asserted, NEW sig \in Signals, TransitionTo(sig) PROVE Around'
  BY <1>14 DEF TransitionTo, Receive
<1>15. CASE ~asserted /\ (MoveLock \/ HLCS_NotifyChangedState)
  <2>1. reported = "NONE"
    BY <1>15 DEF MoveLock, HLCS_NotifyChangedState, Core, Shape
  <2> QED
    BY <1>15, <2>1 DEF MoveLock, HLCS_NotifyChangedState
<1>16. CASE ~asserted /\ LockStateChangeCallback
  BY <1>16 DEF LockStateChangeCallback
<1>17. CASE ~asserted /\ HLCS_PerformSelfTest
  <2>1. reported' = "PASS" => hardware' = "LOCKED"
    <3>1. PICK outcome \in SelfTestOutcomes :
            hardware' = outcome.lock /\ reported' = outcome.told
      BY <1>17 DEF HLCS_PerformSelfTest, HLCS_NotifySelfTestResult
    <3>2. CASE \E told \in {"PASS", "FAIL"} :
                 outcome = [told |-> told, lock |-> PositionIn("SmSelfTest")]
      BY <3>1, <3>2 DEF PositionIn
    <3>3. CASE \E lock \in Driven(PositionIn("SmSelfTest")) :
                 outcome = [told |-> "FAIL", lock |-> lock]
      BY <3>1, <3>3
    <3> QED
      BY <3>1, <3>2, <3>3 DEF SelfTestOutcomes
  <2> QED
    BY <1>17, <2>1 DEF HLCS_PerformSelfTest
<1>18. CASE ~asserted /\ HLCS_PushUrgentEvent
  BY <1>18 DEF HLCS_PushUrgentEvent
<1>19. CASE UrgentTimeout
  BY <1>19 DEF UrgentTimeout, Full, Waiting
<1>20. CASE UNCHANGED vars
  BY <1>20 DEF vars, ServiceIsDown, Full, Waiting
<1> QED
  BY <1>1, <1>3, <1>4, <1>5, <1>6, <1>7, <1>8, <1>9, <1>10, <1>11, <1>12, <1>13,
     <1>14, <1>15, <1>16, <1>17, <1>18, <1>19, <1>20
     DEF Next, HLCS_Destroy, HLCS_Task, HLCS_ProcessOneEvent

LEMMA StepPreserves == IInv /\ [Next]_vars => IInv'
  BY CorePreserved, AroundPreserved DEF IInv

\* Queue, state machine, hardware and s_lockState stay in step, whatever the
\* depth of the queue, the load and the faults.
THEOREM Invariance == Spec => []IInv
  BY InitEstablishes, StepPreserves, PTL DEF Spec

-----------------------------------------------------------------------------
(* The properties *)

\* Type correctness of the service.
THEOREM TypeCorrect == Spec => []TypeOK
<1>1. IInv => TypeOK
  BY DEF IInv, Core
<1> QED
  BY <1>1, Invariance, PTL

\* The event a settled self test finds first is always the service's own
\* request, and it leads back to the state HLCS_GetState() reports.
THEOREM ReminderNext == Spec => []ReminderComesNext
<1>1. IInv => ReminderComesNext
  BY DEF IInv, Core
<1> QED
  BY <1>1, Invariance, PTL

\* Between events, outside of the self test, HLCS_GetState(), the state machine
\* and (unless the driver fails) the lock agree.
THEOREM SettledSafe == Spec => []SettledAgrees
<1>1. IInv => SettledAgrees
  BY DEF IInv, Core
<1> QED
  BY <1>1, Invariance, PTL

\* A self test is reported as passed only with the lock locked, although the
\* driver may fail in any way.
THEOREM PassIsTrue == Spec => []PassedMeansLocked
<1>1. IInv => PassedMeansLocked
  BY DEF IInv, Around, ResultInTest
<1> QED
  BY <1>1, Invariance, PTL

\* From the first state that is entered after a start until the destruction, a
\* registered application shows what HLCS_GetState() says whenever the task is not
\* between the store and the call.  Before that, and only then, HLCS_GetState()
\* says UNKNOWN, and the application may show the state of an earlier life.
THEOREM ObserverFollows == Spec => []ObserverIsCurrent
<1>1. ASSUME IInv PROVE PoweringUp <=> HLCS_GetState = "UNKNOWN"
  <2>1. CASE Unstarted
    BY <1>1, <2>1 DEF IInv, Core, Shape, Unstarted, PoweringUp, HLCS_GetState
  <2>2. CASE pc \in {"enter", "notify"}
    <3>1. PositionIn(s_stateHistory) # "UNKNOWN"
      BY DEF PositionIn
    <3> QED
      BY <1>1, <2>2, <3>1 DEF IInv, Core, Stored, PoweringUp, HLCS_GetState
  <2>3. CASE pc = "remind"
    BY <1>1, <2>3 DEF IInv, Core, Shape, PoweringUp, HLCS_GetState
  <2>4. CASE pc \in {"callback", "loop", "idle", "returned", "checkCurrent"}
    BY <1>1, <2>4 DEF IInv, Core, Shape, PoweringUp, HLCS_GetState
  <2> QED
    BY <1>1, <2>1, <2>2, <2>3, <2>4 DEF IInv, Core, TypeOK, Locations, Unstarted
<1>2. IInv => ObserverIsCurrent
  BY <1>1 DEF IInv, Around, ObserverShows, ObserverIsCurrent, HLCS_GetState
<1> QED
  BY <1>2, Invariance, PTL

\* Assertions fail for the four reasons listed only; in particular the task
\* never returns into the kernel when HLCS_Destroy is called from above and the
\* queue has room, and a restart finds nothing of the life before.
THEOREM AssertsForACause == Spec => []AssertHasCause
<1>1. IInv => AssertHasCause
  BY DEF IInv, Around
<1> QED
  BY <1>1, Invariance, PTL

-----------------------------------------------------------------------------
(* Nothing asserts, if the queue has room and nothing else goes wrong *)

\* No more requests pile up than clients and timer let, whatever the task does:
\* the reminder of a self test comes on top of them, and never twice.
LoadIsBounded == Outstanding <= MaxOutstanding

RoomAssumed == MaxOutstanding + 2 <= QueueDepth

LEMMA LoadPreserved == IInv /\ LoadIsBounded /\ [Next]_vars => LoadIsBounded'
<1> SUFFICES ASSUME IInv, LoadIsBounded, [Next]_vars PROVE LoadIsBounded'
  OBVIOUS
<1> USE DEF destruction, observer, service
<1>0. Core /\ Lifecycle /\ s_eventQueue \in Seq(Signals) /\ Len(s_eventQueue) \in Nat
  BY LenProperties DEF IInv, Core, Around, TypeOK
<1>1. CASE s_eventQueue' = s_eventQueue /\ ReminderQueued' = ReminderQueued
  BY <1>1 DEF LoadIsBounded, Outstanding
<1>2. ASSUME NEW sig \in Signals, HLCS_PushEvent(sig) PROVE LoadIsBounded'
  <2>1. Len(s_eventQueue') = Len(s_eventQueue) + 1 /\ ReminderQueued' = ReminderQueued
    BY <1>0, <1>2, AppendKeepsHead DEF HLCS_PushEvent, PushToBack, ReminderQueued
  <2> QED
    BY <1>0, <1>2, <2>1, OutstandingAssumption DEF HLCS_PushEvent, LoadIsBounded, Outstanding
<1>3. CASE DestroyReset
  <2>1. Len(s_eventQueue') = 0
    BY <1>3 DEF DestroyReset, ServiceReset
  <2> QED
    BY <2>1, OutstandingAssumption DEF LoadIsBounded, Outstanding
<1>4. ASSUME NEW sig \in Signals, Receive(sig), exitPosted' = exitPosted, ~ReminderQueued'
      PROVE  LoadIsBounded'
  <2>1. Len(s_eventQueue') = Len(s_eventQueue) - 1
    BY <1>0, <1>4, HeadTailProperties DEF Receive
  <2> QED
    BY <1>0, <1>4, <2>1, OutstandingAssumption DEF LoadIsBounded, Outstanding
<1>5. ASSUME NEW sig \in Signals, HandleInPlace(sig) PROVE LoadIsBounded'
  <2>1. Receive(sig) /\ exitPosted' = exitPosted /\ s_currentState' = s_currentState
    BY <1>5 DEF HandleInPlace
  <2>2. s_currentState # "SmSelfTest"
    BY <1>0, <1>5, <2>1, ReceiveProperties DEF HandleInPlace
  <2> QED
    BY <1>4, <2>1, <2>2 DEF ReminderQueued
<1>6. CASE BeginCurrentCheck
  BY <1>4, <1>6 DEF BeginCurrentCheck, ReminderQueued, Signals
<1>7. ASSUME NEW sig \in Signals, TransitionTo(sig) PROVE LoadIsBounded'
  BY <1>4, <1>7 DEF TransitionTo, ReminderQueued
<1>8. CASE HLCS_PushUrgentEvent
  <2>1. Len(s_eventQueue') = Len(s_eventQueue) + 1
    BY <1>0, <1>8, PushUrgentProperties, ReminderIsRequest DEF HLCS_PushUrgentEvent
  <2>2. ~ReminderQueued /\ ReminderQueued'
    BY <1>0, <1>8 DEF HLCS_PushUrgentEvent, ReminderQueued, Core, Shape
  <2> QED
    BY <1>0, <2>1, <2>2, OutstandingAssumption DEF LoadIsBounded, Outstanding
<1>9. CASE main \/ DestroyBegin \/ DestroyPush \/ DestroyTask \/ DestroyQueue
  BY <1>1, <1>9 DEF main, HLCS_Init, HLCS_RegisterChangeStateCallback, HLCS_Start,
     DestroyBegin, DestroyPush, DestroyTask, DestroyQueue, ReminderQueued
<1>10. CASE \/ HLCS_SmInitialize \/ CheckExit \/ ReceiveExit \/ HLCS_DoCurrentCheck
            \/ MoveLock \/ HLCS_NotifyChangedState \/ LockStateChangeCallback
            \/ HLCS_PerformSelfTest \/ UrgentTimeout
  <2>1. s_eventQueue' = s_eventQueue
    BY <1>10 DEF HLCS_SmInitialize, CheckExit, ReceiveExit, HLCS_DoCurrentCheck, MoveLock,
       HLCS_NotifyChangedState, LockStateChangeCallback, HLCS_PerformSelfTest, UrgentTimeout
  <2>2. ReminderQueued' = ReminderQueued
    BY <1>0, <1>10
       DEF HLCS_SmInitialize, CheckExit, ReceiveExit, HLCS_DoCurrentCheck, MoveLock,
           HLCS_NotifyChangedState, LockStateChangeCallback, HLCS_PerformSelfTest,
           UrgentTimeout, ReminderQueued, Core, Shape
  <2> QED
    BY <1>1, <2>1, <2>2
<1>11. CASE UNCHANGED <<service, pc>>
  BY <1>1, <1>11 DEF ReminderQueued
<1> QED
  BY <1>2, <1>3, <1>5, <1>6, <1>7, <1>8, <1>9, <1>10, <1>11
     DEF Next, vars, UserInputTask, HLCS_RequestAsync, HLCS_CheckCurrentTimerCallback,
         PushTimeout, HLCS_Destroy, HLCS_Task, HLCS_ProcessOneEvent, Signals

LEMMA LoadInvariance == Spec => []LoadIsBounded
<1>1. Init => LoadIsBounded
  <2> SUFFICES ASSUME Init PROVE LoadIsBounded
    OBVIOUS
  <2>1. Len(s_eventQueue) = 0
    BY DEF Init
  <2> QED
    BY <2>1, OutstandingAssumption DEF LoadIsBounded, Outstanding
<1> QED
  BY <1>1, LoadPreserved, Invariance, PTL DEF Spec

\* Only the reminder and the exit event together can fill the queue.
LEMMA RoomLeft ==
  ASSUME RoomAssumed, IInv, LoadIsBounded, ~ReminderQueued \/ ~exitPosted
  PROVE  ~Full
<1>1. Len(s_eventQueue) \in Nat
  BY LenProperties DEF IInv, Core, TypeOK
<1> QED
  BY <1>1, DepthAssumption, OutstandingAssumption
     DEF RoomAssumed, LoadIsBounded, Outstanding, Full, Waiting

\* With room for two events more than clients and timer let pile up, the urgent
\* push of a self test succeeds, even from a service that is being destroyed.
THEOREM RemindersFit ==
  ASSUME RoomAssumed
  PROVE  Spec => []ReminderFits
<1>1. IInv /\ LoadIsBounded => ReminderFits
  BY RoomLeft DEF ReminderFits, ReminderQueued
<1> QED
  BY <1>1, Invariance, LoadInvariance, PTL

\* What is left to go wrong is the driver.
Calm == Faults \subseteq {"driverError"}

LEMMA CalmPreserved ==
  ASSUME RoomAssumed, Calm
  PROVE  IInv /\ LoadIsBounded /\ NothingAsserts /\ [Next]_vars => NothingAsserts'
<1> SUFFICES ASSUME IInv, LoadIsBounded, ~asserted, [Next]_vars PROVE ~asserted'
  BY DEF NothingAsserts
<1> USE DEF destruction, observer, service
<1>0. Lifecycle
  BY DEF IInv, Around
<1>1. CASE UNCHANGED asserted
  BY <1>1, Zenon
<1>2. CASE HLCS_Init
  <2>1. ServiceIsDown
    BY <1>0, <1>2 DEF HLCS_Init, Lifecycle
  <2> QED
    BY <1>2, <2>1, Zenon DEF HLCS_Init
<1>3. CASE MayRun /\ CheckExit
  <2>1. app = "away"
    <3>1. ASSUME app = "push" PROVE ~Full
      BY <1>0, <3>1, RoomLeft DEF Lifecycle
    <3> QED
      BY <1>3, <3>1 DEF MayRun, Calm
  <2>2. ~s_exitThread
    BY <1>0, <2>1 DEF Lifecycle
  <2> QED
    BY <1>1, <1>3, <2>2 DEF CheckExit
<1>4. CASE HLCS_DoCurrentCheck
  <2>1. HwLockCtrlReadCurrent = {-1, 1999}
    BY DEF HwLockCtrlReadCurrent, Calm
  <2>2. UNCHANGED asserted
    BY <1>4, <2>1 DEF HLCS_DoCurrentCheck
  <2> QED
    BY <1>1, <2>2
<1>5. CASE UrgentTimeout
  BY <1>5, RoomLeft DEF UrgentTimeout, ReminderQueued
<1>6. CASE HLCS_CheckCurrentTimerCallback
  BY <1>1, <1>6 DEF HLCS_CheckCurrentTimerCallback, HLCS_PushEvent, Calm
<1>7. CASE PushTimeout
  BY <1>7 DEF PushTimeout, Calm
<1>8. CASE UserInputTask \/ HLCS_RegisterChangeStateCallback \/ HLCS_Start
  BY <1>1, <1>8 DEF UserInputTask, HLCS_RequestAsync, HLCS_PushEvent, DestroyBegin,
     HLCS_RegisterChangeStateCallback, HLCS_Start
<1>9. CASE HLCS_Destroy
  BY <1>1, <1>9
     DEF HLCS_Destroy, DestroyPush, DestroyTask, DestroyQueue, DestroyReset
<1>10. CASE \/ HLCS_SmInitialize \/ HLCS_ProcessOneEvent \/ MoveLock
            \/ HLCS_NotifyChangedState \/ LockStateChangeCallback
            \/ HLCS_PerformSelfTest \/ HLCS_PushUrgentEvent
  <2>1. UNCHANGED asserted
    BY <1>10
       DEF HLCS_SmInitialize, HLCS_ProcessOneEvent, ReceiveExit, HandleInPlace,
           BeginCurrentCheck, TransitionTo, MoveLock, HLCS_NotifyChangedState,
           LockStateChangeCallback, HLCS_PerformSelfTest, HLCS_PushUrgentEvent
  <2> QED
    BY <1>1, <2>1
<1>11. CASE UNCHANGED vars
  BY <1>1, <1>11 DEF vars
<1> QED
  BY <1>2, <1>3, <1>4, <1>5, <1>6, <1>7, <1>8, <1>9, <1>10, <1>11 DEF Next, main, HLCS_Task

\* With that room, and with nothing going wrong but the driver, no assertion of
\* the service, of HLCS_Init() or of the kernel fails, for any load within the
\* bound and through every destruction and restart.
THEOREM NeverAsserts ==
  ASSUME RoomAssumed, Calm
  PROVE  Spec => []NothingAsserts
<1>1. Init => NothingAsserts
  BY Zenon DEF Init, NothingAsserts
<1> QED
  BY <1>1, CalmPreserved, Invariance, LoadInvariance, PTL DEF Spec

-----------------------------------------------------------------------------
(* A self test makes progress *)

\* A step of the task in a self test that nobody is about to interrupt.
LEMMA TaskAdvances ==
  ASSUME IInv, app = "away", SelfTestDistance > 0, HLCS_Task, ~asserted'
  PROVE  SelfTestDistance' < SelfTestDistance
<1> USE DEF destruction, observer, service
<1>0. /\ Core /\ Shape /\ TypeOK /\ ~s_exitThread /\ ~exitPosted
  BY DEF IInv, Core, Around, Lifecycle
<1>1. CASE s_currentState = "SmSelfTest"
  <2>1. SelfTestDistance = CASE pc = "enter"  -> 6
                             [] pc = "remind" -> 5
                             [] pc = "loop"   -> 4
                             [] OTHER         -> 3
    BY <1>1 DEF SelfTestDistance
  <2>2. CASE HLCS_PerformSelfTest
    <3>1. pc = "enter" /\ pc' = "remind" /\ s_currentState' = s_currentState
      BY <2>2 DEF HLCS_PerformSelfTest
    <3> QED
      BY <1>1, <3>1 DEF SelfTestDistance
  <2>3. CASE HLCS_PushUrgentEvent
    <3>1. pc = "remind" /\ pc' = "loop" /\ s_currentState' = s_currentState
      BY <2>3 DEF HLCS_PushUrgentEvent
    <3> QED
      BY <1>1, <3>1 DEF SelfTestDistance
  <2>4. CASE CheckExit
    <3>1. pc = "loop" /\ pc' = "idle" /\ s_currentState' = s_currentState
      BY <1>0, <2>4 DEF CheckExit
    <3> QED
      BY <1>1, <3>1 DEF SelfTestDistance
  <2>5. ASSUME NEW sig \in Signals, TransitionTo(sig)
        PROVE  SelfTestDistance' < SelfTestDistance
    <3>1. /\ Receive(sig) /\ pc = "idle" /\ pc' = "enter" /\ exitPosted' = exitPosted
          /\ s_stateHistory' = s_stateHistory
          /\ s_currentState' = Dispatch(s_currentState, sig)
      BY <1>1, <2>5 DEF TransitionTo, Receive, HistoryAfterExit
    <3>2. sig = Reminder(s_stateHistory)
      BY <1>0, <1>1, <3>1, ReceiveProperties
    <3>3. s_stateHistory \in {"SmLocked", "SmUnlocked"}
      BY <1>0, <1>1, <3>1 DEF Shape, Unstarted, TypeOK
    <3>4. s_currentState' = s_stateHistory
      BY <3>1, <3>2, <3>3 DEF Reminder, Dispatch
    <3>5. SelfTestDistance' = 2
      BY <3>1, <3>3, <3>4 DEF SelfTestDistance, Returning
    <3> QED
      BY <2>1, <3>1, <3>5
  <2>6. ASSUME NEW sig \in Signals, HandleInPlace(sig) PROVE FALSE
    <3>1. Receive(sig) /\ exitPosted' = exitPosted
      BY <2>6 DEF HandleInPlace
    <3> QED
      BY <1>0, <1>1, <2>6, <3>1, ReceiveProperties DEF HandleInPlace
  <2>7. ~UrgentTimeout
    BY Zenon DEF UrgentTimeout
  <2>8. /\ ~HLCS_SmInitialize /\ ~HLCS_DoCurrentCheck /\ ~LockStateChangeCallback
        /\ ~HLCS_NotifyChangedState
    BY <1>0, <1>1 DEF HLCS_SmInitialize, HLCS_DoCurrentCheck, LockStateChangeCallback,
       HLCS_NotifyChangedState, Shape, Unstarted
  <2>9. ~MoveLock /\ ~BeginCurrentCheck /\ ~ReceiveExit
    BY <1>0, <1>1 DEF MoveLock, BeginCurrentCheck, ReceiveExit
  <2> QED
    BY <2>2, <2>3, <2>4, <2>5, <2>6, <2>7, <2>8, <2>9 DEF HLCS_Task, HLCS_ProcessOneEvent
<1>2. CASE s_currentState # "SmSelfTest"
  <2>1. Returning /\ SelfTestDistance = IF pc = "enter" THEN 2 ELSE 1
    BY <1>2 DEF SelfTestDistance
  <2>2. CASE MoveLock
    <3>1. /\ pc = "enter" /\ pc' = "notify"
          /\ s_currentState' = s_currentState /\ s_stateHistory' = s_stateHistory
      BY <2>2 DEF MoveLock
    <3> QED
      BY <1>2, <2>1, <3>1 DEF SelfTestDistance, Returning
  <2>3. CASE HLCS_NotifyChangedState
    <3>1. pc = "notify" /\ pc' = "callback" /\ s_currentState' = s_currentState
      BY <2>3 DEF HLCS_NotifyChangedState
    <3> QED
      BY <1>2, <2>1, <3>1 DEF SelfTestDistance, Returning
  <2>4. pc \in {"enter", "notify"}
    BY <2>1 DEF Returning
  <2> QED
    BY <1>2, <2>2, <2>3, <2>4
       DEF HLCS_Task, HLCS_ProcessOneEvent, HLCS_SmInitialize, CheckExit, ReceiveExit,
           HandleInPlace, BeginCurrentCheck, TransitionTo, Receive, HLCS_DoCurrentCheck,
           LockStateChangeCallback, HLCS_PerformSelfTest, HLCS_PushUrgentEvent, UrgentTimeout
<1> QED
  BY <1>1, <1>2

\* A step of anybody else, unless it is one of HLCS_Destroy.
LEMMA OthersDoNotSetBack ==
  ASSUME IInv, app = "away", SelfTestDistance > 0, [Next]_vars, ~HLCS_Task
  PROVE  SelfTestDistance' = SelfTestDistance
<1> USE DEF destruction, observer, service
<1>1. ~main
  <2>1. \/ s_currentState # "SmSelfTest" /\ pc \notin {"enter", "notify"}
        \/ pc \notin {"down", "initialized"}
    BY DEF IInv, Core, Shape, Unstarted
  <2> QED
    BY <2>1 DEF main, HLCS_Init, HLCS_RegisterChangeStateCallback, HLCS_Start,
       SelfTestDistance, Returning
<1>2. ~HLCS_Destroy
  BY DEF HLCS_Destroy, DestroyPush, DestroyTask, DestroyQueue, DestroyReset
<1>3. UNCHANGED <<pc, s_currentState, s_stateHistory>>
  BY <1>1, <1>2
     DEF Next, vars, UserInputTask, HLCS_RequestAsync, HLCS_PushEvent, DestroyBegin,
         HLCS_CheckCurrentTimerCallback, PushTimeout
<1> QED
  BY <1>3 DEF SelfTestDistance, Returning

\* The part of SelfTestEnds that does not depend on the scheduler, for any
\* depth of the queue, any load and any faults.
THEOREM SelfTestsAdvance == Spec => SelfTestAdvances
<1> DEFINE Advances ==
      app = "away" /\ SelfTestDistance > 0 /\ ~asserted' =>
        /\ SelfTestDistance' <= SelfTestDistance
        /\ HLCS_Task => SelfTestDistance' < SelfTestDistance
<1>1. IInv /\ [Next]_vars => Advances
  <2> SUFFICES ASSUME IInv, [Next]_vars, app = "away", SelfTestDistance > 0, ~asserted'
               PROVE  /\ SelfTestDistance' <= SelfTestDistance
                      /\ HLCS_Task => SelfTestDistance' < SelfTestDistance
    OBVIOUS
  <2>1. SelfTestDistance \in Nat /\ SelfTestDistance' \in Nat
    BY DEF SelfTestDistance
  <2>2. CASE HLCS_Task
    <3>1. SelfTestDistance' < SelfTestDistance
      BY <2>2, TaskAdvances
    <3> QED
      BY <2>1, <3>1
  <2>3. CASE ~HLCS_Task
    <3>1. SelfTestDistance' = SelfTestDistance
      BY <2>3, OthersDoNotSetBack
    <3> QED
      BY <2>1, <2>3, <3>1
  <2> QED
    BY <2>2, <2>3
<1> HIDE DEF Advances
<1>2. IInv /\ [Next]_vars => [Advances]_vars
  BY <1>1
<1>3. Spec => [][Advances]_vars
  BY <1>2, Invariance, PTL DEF Spec
<1> QED
  BY <1>3 DEF SelfTestAdvances, Advances

-----------------------------------------------------------------------------
(* The service implements LockCtrl *)

LEMMA ConcatAppend ==
  ASSUME NEW S, NEW p \in Seq(S), NEW q \in Seq(S), NEW x \in S
  PROVE  p \o Append(q, x) = Append(p \o q, x)
<1> DEFINE l == p \o Append(q, x)
           r == Append(p \o q, x)
<1>1. /\ Append(q, x) \in Seq(S) /\ Len(Append(q, x)) = Len(q) + 1
      /\ Len(p) \in Nat /\ Len(q) \in Nat
      /\ \A i \in 1 .. Len(q) : Append(q, x)[i] = q[i]
      /\ Append(q, x)[Len(q) + 1] = x
  BY AppendProperties, LenProperties
<1>2. /\ l \in Seq(S) /\ Len(l) = Len(p) + (Len(q) + 1)
      /\ \A i \in 1 .. Len(p) + (Len(q) + 1) :
           l[i] = IF i <= Len(p) THEN p[i] ELSE Append(q, x)[i - Len(p)]
  BY <1>1, ConcatProperties
<1>3. /\ p \o q \in Seq(S) /\ Len(p \o q) = Len(p) + Len(q)
      /\ \A i \in 1 .. Len(p) + Len(q) :
           (p \o q)[i] = IF i <= Len(p) THEN p[i] ELSE q[i - Len(p)]
  BY ConcatProperties
<1>4. /\ r \in Seq(S) /\ Len(r) = Len(p) + Len(q) + 1
      /\ \A i \in 1 .. Len(p) + Len(q) : r[i] = (p \o q)[i]
      /\ r[Len(p) + Len(q) + 1] = x
  BY <1>3, AppendProperties
<1>5. ASSUME NEW i \in 1 .. Len(p) + Len(q) + 1 PROVE l[i] = r[i]
  <2> HIDE DEF l, r
  <2>1. CASE i <= Len(p)
    <3>1. i \in 1 .. Len(p) + Len(q) /\ i \in 1 .. Len(p) + (Len(q) + 1)
      BY <1>1, <2>1
    <3>2. l[i] = p[i]
      BY <1>2, <2>1, <3>1
    <3> QED
      BY <1>3, <1>4, <2>1, <3>1, <3>2
  <2>2. CASE i > Len(p) /\ i <= Len(p) + Len(q)
    <3>1. i - Len(p) \in 1 .. Len(q) /\ i \in 1 .. Len(p) + Len(q) /\ ~(i <= Len(p))
      BY <1>1, <2>2
    <3>2. l[i] = Append(q, x)[i - Len(p)]
      BY <1>1, <1>2, <2>2
    <3> QED
      BY <1>1, <1>3, <1>4, <3>1, <3>2
  <2>3. CASE i = Len(p) + Len(q) + 1
    <3>1. i - Len(p) = Len(q) + 1 /\ ~(i <= Len(p))
      BY <1>1, <2>3
    <3> QED
      BY <1>1, <1>2, <1>4, <2>3, <3>1
  <2> QED
    BY <1>1, <2>1, <2>2, <2>3
<1>6. l = r
  <2> HIDE DEF l, r
  <2> QED
    BY <1>1, <1>2, <1>4, <1>5, SeqEqual
<1> QED
  BY <1>6

\* <<x>> \o q, as the mapping writes it and as the urgent push does.
LEMMA Singleton ==
  ASSUME NEW S, NEW q \in Seq(S), NEW x \in S
  PROVE  /\ <<x>> \o q \in Seq(S)
         /\ <<x>> \o q # << >>
         /\ Head(<<x>> \o q) = x
         /\ Tail(<<x>> \o q) = q
  BY PushUrgentProperties DEF PushUrgent

LEMMA HeadThenTail ==
  ASSUME NEW S, NEW q \in Seq(S), q # << >>
  PROVE  <<Head(q)>> \o Tail(q) = q
<1> DEFINE r == <<Head(q)>> \o Tail(q)
<1>1. /\ Head(q) \in S /\ Tail(q) \in Seq(S) /\ Len(Tail(q)) = Len(q) - 1
      /\ \A i \in 1 .. Len(Tail(q)) : Tail(q)[i] = q[i + 1]
      /\ Len(q) \in Nat /\ Len(q) # 0 /\ Head(q) = q[1]
  BY HeadTailProperties, EmptySeq, LenProperties
<1>2. /\ r \in Seq(S) /\ Len(r) = Len(q)
      /\ \A i \in 1 .. Len(q) :
           r[i] = IF i <= 1 THEN <<Head(q)>>[i] ELSE Tail(q)[i - 1]
  <2>1. <<Head(q)>> \in Seq(S) /\ Len(<<Head(q)>>) = 1
    BY <1>1
  <2> QED
    BY <1>1, <2>1, ConcatProperties
<1>3. ASSUME NEW i \in 1 .. Len(q) PROVE r[i] = q[i]
  <2> HIDE DEF r
  <2>1. CASE i = 1
    BY <1>1, <1>2, <2>1
  <2>2. CASE i # 1
    <3>1. i - 1 \in 1 .. Len(Tail(q)) /\ ~(i <= 1) /\ (i - 1) + 1 = i
      BY <1>1, <2>2
    <3> QED
      BY <1>1, <1>2, <3>1
  <2> QED
    BY <2>1, <2>2
<1>4. r = q
  <2> HIDE DEF r
  <2> QED
    BY <1>2, <1>3, SeqEqual
<1> QED
  BY <1>4

LEMMA TestingTyped == Testing \in BOOLEAN /\ Testing' \in BOOLEAN
  BY Zenon DEF Testing, Returning

LEMMA RefineInit == Init => LC!Init
<1> SUFFICES ASSUME Init PROVE LC!Init
  OBVIOUS
<1>1. InFlight = << >> /\ ~Testing /\ ~ReminderQueued
  BY DEF Init, InFlight, Testing, Returning, ReminderQueued
<1>2. PendingRequests = << >>
  <2>1. << >> \in Seq(Signals)
    OBVIOUS
  <2> QED
    BY <1>1, <2>1, ConcatEmptySeq DEF Init, PendingRequests
<1> QED
  BY <1>1, <1>2 DEF Init, LC!Init

\* The parts of the mapping, in any state of the service.
LEMMA MappingTyped ==
  ASSUME IInv
  PROVE  /\ InFlight \in Seq(Signals)
         /\ ~ReminderQueued => PendingRequests = InFlight \o s_eventQueue
         /\ ReminderQueued => /\ Tail(s_eventQueue) \in Seq(Signals)
                              /\ PendingRequests = Tail(s_eventQueue)
         /\ pc \notin {"enter", "notify"} => InFlight = << >> /\ ~Returning
<1>1. InFlight \in Seq(Signals)
  <2>1. <<Reminder(s_currentState)>> \in Seq(Signals) /\ << >> \in Seq(Signals)
    BY ReminderIsRequest
  <2> QED
    BY <2>1 DEF InFlight
<1>2. ASSUME ReminderQueued
      PROVE  Tail(s_eventQueue) \in Seq(Signals) /\ PendingRequests = Tail(s_eventQueue)
  <2>1. s_eventQueue # << >> /\ InFlight = << >>
    BY <1>2 DEF ReminderQueued, IInv, Core, ReminderComesNext, InFlight
  <2>2. Tail(s_eventQueue) \in Seq(Signals)
    BY <2>1, HeadTailProperties DEF IInv, Core, TypeOK
  <2> QED
    BY <1>2, <2>1, <2>2, ConcatEmptySeq DEF PendingRequests
<1> QED
  BY <1>1, <1>2 DEF PendingRequests, InFlight, Returning

\* A push by a client or the timer is an Accept, self test or not.
LEMMA PushAccepts ==
  ASSUME IInv, NEW sig \in Signals, HLCS_PushEvent(sig)
  PROVE  LC!Accept
<1>1. /\ InFlight' = InFlight /\ Testing' = Testing /\ s_lockState' = s_lockState
      /\ ReminderQueued' = ReminderQueued
      /\ s_eventQueue' = Append(s_eventQueue, sig)
  BY DEF HLCS_PushEvent, PushToBack, InFlight, Testing, Returning, ReminderQueued, Reminder
<1>2. PendingRequests' = Append(PendingRequests, sig)
  <2>1. s_eventQueue \in Seq(Signals) /\ InFlight \in Seq(Signals)
    BY MappingTyped DEF IInv, Core, TypeOK
  <2>2. CASE ReminderQueued
    <3>1. s_eventQueue # << >> /\ Tail(s_eventQueue) \in Seq(Signals)
      BY <2>1, <2>2, MappingTyped DEF ReminderQueued, IInv, Core, ReminderComesNext
    <3>2. Tail(s_eventQueue') = Append(Tail(s_eventQueue), sig)
      BY <1>1, <2>1, <3>1, AppendKeepsHead
    <3>3. /\ PendingRequests = InFlight \o Tail(s_eventQueue)
          /\ PendingRequests' = InFlight' \o Tail(s_eventQueue')
      BY <1>1, <2>2 DEF PendingRequests
    <3>4. InFlight \o Append(Tail(s_eventQueue), sig)
            = Append(InFlight \o Tail(s_eventQueue), sig)
      BY <2>1, <3>1, ConcatAppend
    <3> QED
      BY <1>1, <3>2, <3>3, <3>4
  <2>3. CASE ~ReminderQueued
    BY <1>1, <2>1, <2>3, ConcatAppend DEF PendingRequests
  <2> QED
    BY <2>2, <2>3
<1>3. sig \in LC!Requests
  BY DEF LC!Requests, Signals, Requests, Check
<1> QED
  BY <1>1, <1>2, <1>3 DEF LC!Accept

\* An event other than the reminder, handled without moving the lock, is
\* honoured when it is received.
LEMMA ReceiveHonours ==
  ASSUME IInv, NEW sig, Receive(sig), exitPosted' = exitPosted, s_currentState # "SmSelfTest",
         InFlight' = << >>, ~ReminderQueued', s_eventQueue' \in Seq(Signals),
         s_lockState' = s_lockState,
         Testing' = (sig = "SIG_REQUEST_SELF_TEST"),
         sig \in Requests /\ sig # "SIG_REQUEST_SELF_TEST" =>
           Dispatch(s_currentState, sig) = s_currentState
  PROVE  LC!Honour
<1>1. pc = "idle" /\ s_eventQueue # << >> /\ sig = Head(s_eventQueue)
      /\ s_eventQueue' = Tail(s_eventQueue) /\ s_eventQueue \in Seq(Signals)
  BY DEF Receive, IInv, Core, TypeOK
<1>2. sig \in Signals
  BY ReceiveProperties DEF IInv
<1>3. ~ReminderQueued /\ InFlight = << >> /\ ~Testing
  BY <1>1 DEF ReminderQueued, InFlight, Testing, Returning
<1>4. PendingRequests = s_eventQueue
  BY <1>1, <1>3, ConcatEmptySeq DEF PendingRequests
<1>5. PendingRequests' = s_eventQueue'
  BY ConcatEmptySeq DEF PendingRequests
<1>6. s_lockState # "UNKNOWN" /\ s_lockState = PositionIn(s_currentState)
  BY <1>1 DEF IInv, Core, Shape, SettledAgrees
<1>7. s_lockState' = LC!Effect(sig)
  BY <1>2, <1>6
     DEF LC!Effect, Dispatch, PositionIn, Signals, Requests, Check
<1> QED
  BY <1>1, <1>3, <1>4, <1>5, <1>6, <1>7 DEF LC!Honour

\* A transition: to the self test it honours the request; back from it, and
\* between the other two states, nothing changes for the clients yet.
LEMMA TransitionRefines ==
  ASSUME IInv, NEW sig \in Signals, TransitionTo(sig)
  PROVE  LC!Honour \/ UNCHANGED LC!vars
<1>1. /\ Receive(sig) /\ pc = "idle" /\ pc' = "enter"
      /\ s_eventQueue # << >> /\ sig = Head(s_eventQueue)
      /\ s_eventQueue' = Tail(s_eventQueue) /\ s_eventQueue \in Seq(Signals)
      /\ s_currentState' = Dispatch(s_currentState, sig)
      /\ s_currentState' # s_currentState
      /\ s_stateHistory' = HistoryAfterExit(s_currentState)
      /\ s_lockState' = s_lockState /\ exitPosted' = exitPosted
  BY DEF TransitionTo, Receive, IInv, Core, TypeOK, destruction
<1>2. /\ s_eventQueue' \in Seq(Signals)
      /\ s_currentState \in States
      /\ s_currentState = "SmSelfTest" => sig = Reminder(s_stateHistory)
  BY <1>1, ReceiveProperties DEF IInv
<1>3. InFlight = << >> /\ ~Returning /\ ~ReminderQueued'
  BY <1>1 DEF InFlight, Returning, ReminderQueued
<1>4. CASE s_currentState = "SmSelfTest"
  <2>1. s_stateHistory \in {"SmLocked", "SmUnlocked"} /\ s_stateHistory' = s_stateHistory
    BY <1>1, <1>4 DEF IInv, Core, TypeOK, Shape, Unstarted, HistoryAfterExit
  <2>2. s_currentState' = s_stateHistory'
    BY <1>1, <1>2, <1>4, <2>1 DEF Dispatch, Reminder
  <2>3. Returning' /\ InFlight' = << >>
    BY <1>1, <2>2 DEF Returning, InFlight
  <2>4. ReminderQueued /\ PendingRequests = s_eventQueue'
    BY <1>1, <1>4, MappingTyped DEF ReminderQueued
  <2>5. PendingRequests' = s_eventQueue'
    BY <1>2, <1>3, <2>3, ConcatEmptySeq DEF PendingRequests
  <2>6. Testing /\ Testing'
    BY <1>4, <2>3 DEF Testing
  <2> QED
    BY <1>1, <2>4, <2>5, <2>6, Zenon DEF LC!vars
<1>5. CASE s_currentState # "SmSelfTest" /\ sig = "SIG_REQUEST_SELF_TEST"
  <2>1. s_currentState' = "SmSelfTest"
    BY <1>1, <1>5 DEF Dispatch
  <2>2. InFlight' = << >> /\ Testing'
    BY <2>1 DEF InFlight, Testing
  <2>3. Testing' = (sig = "SIG_REQUEST_SELF_TEST")
    BY <1>5, <2>1 DEF Testing
  <2>4. LC!Honour
    BY <1>1, <1>2, <1>3, <1>5, <2>2, <2>3, ReceiveHonours
  <2> QED
    BY <2>4
<1>6. CASE s_currentState # "SmSelfTest" /\ sig # "SIG_REQUEST_SELF_TEST"
  <2>1. /\ s_stateHistory' = s_currentState /\ s_stateHistory' # "NULL"
        /\ s_currentState' # s_stateHistory'
        /\ s_currentState' # "SmSelfTest"
        /\ Reminder(s_currentState') = sig
    BY <1>1, <1>2, <1>6 DEF Dispatch, HistoryAfterExit, States, Reminder,
         Signals, Requests, Check
  <2>2. ~Returning' /\ InFlight' = <<sig>>
    BY <1>1, <2>1 DEF Returning, InFlight, Reminder
  <2>3. ~Testing /\ ~Testing'
    BY <1>3, <1>6, <2>1, <2>2 DEF Testing
  <2>4. PendingRequests = s_eventQueue
    BY <1>1, <1>3, <1>6, ConcatEmptySeq DEF PendingRequests, ReminderQueued
  <2>5. PendingRequests' = s_eventQueue
    BY <1>1, <1>3, <2>2, HeadThenTail DEF PendingRequests
  <2> QED
    BY <1>1, <2>3, <2>4, <2>5, TestingTyped, Zenon DEF LC!vars
<1> QED
  BY <1>4, <1>5, <1>6

\* The step that makes HLCS_GetState() follow the lock.
LEMMA NotifyRefines ==
  ASSUME IInv, HLCS_NotifyChangedState
  PROVE  LC!PowerUp \/ LC!Honour \/ LC!FinishTest
<1>1. /\ pc = "notify" /\ pc' = "callback"
      /\ s_lockState' = PositionIn(s_currentState)
      /\ s_eventQueue' = s_eventQueue /\ s_eventQueue \in Seq(Signals)
      /\ s_currentState' = s_currentState /\ s_stateHistory' = s_stateHistory
  BY DEF HLCS_NotifyChangedState, IInv, Core, TypeOK
<1>2. s_currentState \in {"SmLocked", "SmUnlocked"}
  BY <1>1 DEF IInv, Core, Shape, Unstarted, States
<1>3. /\ InFlight' = << >> /\ ~Returning' /\ ~Testing'
      /\ ~ReminderQueued /\ ~ReminderQueued'
  BY <1>1, <1>2 DEF InFlight, Returning, Testing, ReminderQueued
<1>4. PendingRequests' = s_eventQueue /\ PendingRequests = InFlight \o s_eventQueue
  BY <1>1, <1>3, ConcatEmptySeq DEF PendingRequests
<1>5. CASE s_stateHistory = "NULL"
  <2>1. s_currentState = "SmLocked" /\ s_lockState = "UNKNOWN"
    BY <1>1, <1>5 DEF IInv, Core, Shape, Unstarted, Stored
  <2>2. InFlight = << >> /\ ~Testing /\ s_lockState' = "LOCKED"
    BY <1>1, <1>5, <2>1 DEF InFlight, Testing, Returning, PositionIn
  <2>3. PendingRequests = s_eventQueue
    BY <1>1, <1>4, <2>2, ConcatEmptySeq
  <2>4. Testing' = Testing
    BY <1>3, <2>2, TestingTyped, Zenon
  <2> QED
    BY <1>4, <2>1, <2>2, <2>3, <2>4 DEF LC!PowerUp
<1>6. CASE Returning
  <2>1. s_currentState = s_stateHistory /\ s_lockState = PositionIn(s_currentState)
    BY <1>1, <1>2, <1>6 DEF Returning, IInv, Core, Stored
  <2>2. InFlight = << >> /\ Testing
    BY <1>6 DEF InFlight, Testing
  <2>3. PendingRequests = s_eventQueue
    BY <1>1, <1>4, <2>2, ConcatEmptySeq
  <2>4. Testing' = FALSE
    BY <1>3, TestingTyped, Zenon
  <2> QED
    BY <1>1, <1>4, <2>1, <2>2, <2>3, <2>4 DEF LC!FinishTest
<1>7. CASE s_stateHistory # "NULL" /\ ~Returning
  <2>1. InFlight = <<Reminder(s_currentState)>> /\ ~Testing
    BY <1>1, <1>2, <1>7 DEF InFlight, Testing
  <2>2. /\ PendingRequests # << >>
        /\ Head(PendingRequests) = Reminder(s_currentState)
        /\ Tail(PendingRequests) = s_eventQueue
    BY <1>1, <1>4, <2>1, Singleton, ReminderIsRequest
  <2>3. s_lockState # "UNKNOWN"
    BY <1>1, <1>7 DEF IInv, Core, Stored, PositionIn
  <2>4. s_lockState' = LC!Effect(Reminder(s_currentState))
    BY <1>1, <1>2 DEF LC!Effect, Reminder, PositionIn
  <2>5. Testing' = (Head(PendingRequests) = "SIG_REQUEST_SELF_TEST")
    <3>1. Head(PendingRequests) # "SIG_REQUEST_SELF_TEST"
      BY <2>2 DEF Reminder
    <3> QED
      BY <1>3, <3>1, TestingTyped, Zenon
  <2> QED
    BY <1>4, <2>1, <2>2, <2>3, <2>4, <2>5 DEF LC!Honour
<1> QED
  BY <1>5, <1>6, <1>7

\* A step that leaves the queue and what the clients see of the service alone,
\* and neither starts nor ends a transition, is a stutter.
LEMMA QuietStep ==
  ASSUME s_eventQueue' = s_eventQueue, s_lockState' = s_lockState,
         InFlight' = InFlight, Testing' = Testing, ReminderQueued' = ReminderQueued
  PROVE  UNCHANGED LC!vars
<1>1. PendingRequests' = PendingRequests
  BY DEF PendingRequests
<1> QED
  BY <1>1, Zenon DEF LC!vars

\* Every step of the service is one of LockCtrl's or a stutter.
LEMMA RefineStep == IInv /\ [Next]_vars => [LC!Next]_LC!vars
<1> SUFFICES ASSUME IInv, [Next]_vars PROVE [LC!Next]_LC!vars
  OBVIOUS
<1> USE DEF LC!Next
<1>1. CASE HLCS_RequestAsync
  BY <1>1, PushAccepts DEF HLCS_RequestAsync, Signals
<1>2. CASE HLCS_PushEvent(Check)
  BY <1>2, PushAccepts DEF Signals
<1>3. ASSUME NEW sig \in Signals, HandleInPlace(sig) PROVE LC!Next
  <2>1. /\ Receive(sig) /\ exitPosted' = exitPosted /\ pc' = "loop"
        /\ s_currentState' = s_currentState /\ s_lockState' = s_lockState
        /\ s_stateHistory' = s_stateHistory
        /\ Dispatch(s_currentState, sig) = s_currentState
    BY <1>3 DEF HandleInPlace, Receive, destruction
  <2>2. s_currentState # "SmSelfTest" /\ s_eventQueue' \in Seq(Signals)
    BY <2>1, ReceiveProperties DEF IInv
  <2>3. sig # "SIG_REQUEST_SELF_TEST"
    BY <2>1, <2>2 DEF Dispatch
  <2>4. InFlight' = << >> /\ ~ReminderQueued' /\ ~Testing'
    BY <2>1, <2>2 DEF InFlight, ReminderQueued, Testing, Returning
  <2>5. Testing' = (sig = "SIG_REQUEST_SELF_TEST")
    BY <2>3, <2>4, TestingTyped, Zenon
  <2>6. LC!Honour
    BY <2>1, <2>2, <2>4, <2>5, ReceiveHonours
  <2> QED
    BY <2>6
<1>4. CASE BeginCurrentCheck
  <2>1. /\ Receive(Check) /\ exitPosted' = exitPosted
        /\ pc' = "checkCurrent" /\ s_currentState # "SmSelfTest"
        /\ s_currentState' = s_currentState /\ s_lockState' = s_lockState
        /\ s_stateHistory' = s_stateHistory
    BY <1>4 DEF BeginCurrentCheck, destruction
  <2>2. s_eventQueue' \in Seq(Signals)
    BY <2>1, ReceiveProperties DEF IInv
  <2>3. InFlight' = << >> /\ ~ReminderQueued' /\ ~Testing'
    BY <2>1 DEF InFlight, ReminderQueued, Testing, Returning
  <2>4. Check # "SIG_REQUEST_SELF_TEST" /\ Check \notin Requests
    BY DEF Check, Requests
  <2>5. Testing' = (Check = "SIG_REQUEST_SELF_TEST")
    BY <2>3, <2>4, TestingTyped, Zenon
  <2>6. LC!Honour
    BY <2>1, <2>2, <2>3, <2>4, <2>5, ReceiveHonours
  <2> QED
    BY <2>6
<1>5. ASSUME NEW sig \in Signals, TransitionTo(sig) PROVE [LC!Next]_LC!vars
  BY <1>5, TransitionRefines
<1>6. CASE HLCS_NotifyChangedState
  BY <1>6, NotifyRefines
<1>7. CASE HLCS_PushUrgentEvent
  <2>1. /\ s_eventQueue \in Seq(Signals)
        /\ s_eventQueue' = PushUrgent(s_eventQueue, Reminder(s_stateHistory))
        /\ s_currentState = "SmSelfTest" /\ pc = "remind" /\ pc' = "loop"
        /\ s_currentState' = s_currentState /\ s_lockState' = s_lockState
    BY <1>7 DEF HLCS_PushUrgentEvent, IInv, Core, TypeOK, Shape
  <2>2. /\ InFlight = << >> /\ InFlight' = << >> /\ Testing /\ Testing'
        /\ ~ReminderQueued /\ ReminderQueued'
    BY <2>1 DEF InFlight, Testing, ReminderQueued
  <2>3. PendingRequests = s_eventQueue
    BY <2>1, <2>2, ConcatEmptySeq DEF PendingRequests
  <2>4. PendingRequests' = s_eventQueue
    <3>1. Tail(s_eventQueue') = s_eventQueue
      BY <2>1, PushUrgentProperties, ReminderIsRequest
    <3> QED
      BY <2>1, <2>2, <3>1, ConcatEmptySeq DEF PendingRequests
  <2> QED
    BY <2>1, <2>2, <2>3, <2>4, TestingTyped, Zenon DEF LC!vars
<1>8. CASE main \/ HLCS_SmInitialize
  <2> USE DEF main, HLCS_Init, HLCS_RegisterChangeStateCallback, HLCS_Start,
              HLCS_SmInitialize, service
  <2>1. /\ s_eventQueue' = s_eventQueue /\ s_lockState' = s_lockState
        /\ s_stateHistory' = s_stateHistory
        /\ s_currentState' \in {"NULL", "SmLocked"}
        /\ s_currentState = "NULL" /\ s_stateHistory = "NULL"
        /\ pc \notin {"enter", "notify"} /\ pc' # "notify"
        /\ pc' # "enter" \/ s_currentState' = "SmLocked"
    BY <1>8 DEF IInv, Core, Shape, Unstarted
  <2>2. /\ InFlight = << >> /\ InFlight' = << >> /\ ~Testing /\ ~Testing'
        /\ ~ReminderQueued /\ ~ReminderQueued'
    BY <2>1 DEF InFlight, Testing, Returning, ReminderQueued
  <2>3. Testing' = Testing /\ ReminderQueued' = ReminderQueued
    BY <2>2, TestingTyped, Zenon DEF ReminderQueued
  <2> QED
    BY <2>1, <2>2, <2>3, QuietStep
<1>9. CASE \/ CheckExit \/ ReceiveExit \/ HLCS_DoCurrentCheck \/ MoveLock
           \/ LockStateChangeCallback \/ HLCS_PerformSelfTest
  <2> USE DEF CheckExit, ReceiveExit, HLCS_DoCurrentCheck, MoveLock,
              LockStateChangeCallback, HLCS_PerformSelfTest, service
  <2>1. /\ s_eventQueue' = s_eventQueue /\ s_lockState' = s_lockState
        /\ s_currentState' = s_currentState /\ s_stateHistory' = s_stateHistory
    BY <1>9
  <2>2. InFlight' = InFlight
    BY <1>9, <2>1 DEF InFlight, Returning
  <2>3. Testing' = Testing
    BY <1>9, <2>1 DEF Testing, Returning
  <2>4. ReminderQueued' = ReminderQueued
    BY <1>9, <2>1 DEF ReminderQueued, IInv, Core, Shape
  <2> QED
    BY <2>1, <2>2, <2>3, <2>4, QuietStep
<1>10. CASE UNCHANGED <<service, pc>>
  <2>1. UNCHANGED <<s_eventQueue, s_lockState, s_currentState, s_stateHistory, pc>>
    BY <1>10 DEF service
  <2>2. InFlight' = InFlight /\ Testing' = Testing /\ ReminderQueued' = ReminderQueued
    BY <2>1 DEF InFlight, Testing, Returning, ReminderQueued, Reminder
  <2> QED
    BY <2>1, <2>2, QuietStep
<1>11. CASE DestroyReset
  <2>1. InFlight' = << >> /\ ~Testing' /\ ~ReminderQueued' /\ s_eventQueue' = << >>
        /\ s_lockState' = "UNKNOWN"
    BY <1>11 DEF DestroyReset, ServiceReset, InFlight, Testing, Returning, ReminderQueued
  <2>2. PendingRequests' = << >>
    <3>1. << >> \in Seq(Signals)
      OBVIOUS
    <3> QED
      BY <2>1, <3>1, ConcatEmptySeq DEF PendingRequests
  <2>3. Testing' = FALSE
    BY <2>1, TestingTyped, Zenon
  <2> QED
    BY <2>1, <2>2, <2>3 DEF LC!ShutDown
<1>12. CASE UserInputTask
  BY <1>1, <1>10, <1>12 DEF UserInputTask, DestroyBegin
<1>13. CASE HLCS_CheckCurrentTimerCallback
  BY <1>2, <1>10, <1>13 DEF HLCS_CheckCurrentTimerCallback
<1>14. CASE PushTimeout \/ UrgentTimeout \/ UNCHANGED vars
  BY <1>10, <1>14 DEF PushTimeout, UrgentTimeout, vars
<1>15. CASE HLCS_Destroy
  BY <1>10, <1>11, <1>15 DEF HLCS_Destroy, DestroyPush, DestroyTask, DestroyQueue
<1> QED
  BY <1>3, <1>4, <1>5, <1>6, <1>7, <1>8, <1>9, <1>12, <1>13, <1>14, <1>15
     DEF Next, HLCS_Task, HLCS_ProcessOneEvent

\* The service honours accepted requests one by one, in the order they were
\* accepted, and a self test changes neither the lock it reports nor the turn of
\* any request posted meanwhile: the service implements LockCtrl.
THEOREM Refinement == Spec => ImplementsLockCtrl
<1>1. Spec => []IInv
  BY Invariance
<1> QED
  BY <1>1, RefineInit, RefineStep, PTL DEF Spec, ImplementsLockCtrl, LC!Spec
=============================================================================
