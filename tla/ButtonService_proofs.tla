------------------------- MODULE ButtonService_proofs -------------------------
(* Theorems about ButtonService, for any set of buttons and observers.        *)
EXTENDS ButtonService, TLAPS

\* What belongs to which place of task and application.
Shape ==
  /\ app \in {"down", "ready", "readyRegistering", "deleted"} => pc = "none"
  /\ app = "halted" => pc \in {"none", "read"}
  /\ s_eventSema # "live" => pc = "none"
  /\ app \notin {"down", "deleted", "halted"} => s_eventSema = "live"
  /\ app = "down" => s_callback = NULL
  /\ pc \notin {"check", "pressed", "released"} => inHand = {}
  /\ pc = "released" => \A c \in inHand : c[2] = "BUTTON_RELEASED"
  /\ pc \in {"pressed", "released"} => s_callback # NULL
  /\ ~Listening => latched = missed

IInv == TypeOK /\ Shape /\ NoLostWakeup

-----------------------------------------------------------------------------
(* The inductive invariant *)

LEMMA InitEstablishes == Init => IInv
<1> SUFFICES ASSUME Init PROVE IInv
  OBVIOUS
<1>1. TypeOK
  BY DEF Init, TypeOK, AppLocations, Locations
<1>2. Shape /\ NoLostWakeup
  BY DEF Init, Shape, NoLostWakeup, Listening
<1> QED
  BY <1>1, <1>2 DEF IInv

LEMMA ChangeIsChange == \A b \in Buttons : ChangeOf(b) \in Changes
  BY DEF ChangeOf, Changes, States

LEMMA TypeKept == TypeOK /\ Next => TypeOK'
<1> SUFFICES ASSUME TypeOK, Next PROVE TypeOK'
  OBVIOUS
<1> USE DEF TypeOK, hardware, semaphore, observer, hand, AppLocations, Locations
<1>1. ASSUME NEW b \in Buttons, ButtonChanges(b) PROVE TypeOK'
  BY <1>1, ChangeIsChange DEF ButtonChanges
<1>2. CASE ButtonService_IsrCallback
  BY <1>2 DEF ButtonService_IsrCallback, Give
<1>3. CASE ButtonService_Init
  BY <1>3 DEF ButtonService_Init
<1>4. CASE ButtonService_Start
  BY <1>4 DEF ButtonService_Start
<1>5. ASSUME NEW o \in Observers, RegisterCallback(o) PROVE TypeOK'
  BY <1>5 DEF RegisterCallback
<1>6. CASE RegisterContext
  BY <1>6 DEF RegisterContext
<1>7. CASE DestroyAsk
  BY <1>7 DEF DestroyAsk, Give
<1>8. CASE DestroyDelete
  BY <1>8 DEF DestroyDelete
<1>9. CASE DestroyReset
  BY <1>9 DEF DestroyReset
<1>10. CASE ReaderInit
  BY <1>10 DEF ReaderInit
<1>11. CASE ReaderRegister
  BY <1>11 DEF ReaderRegister
<1>12. CASE LeaveLoop
  BY <1>12 DEF LeaveLoop
<1>13. CASE TakeToken
  BY <1>13 DEF TakeToken
<1>14. CASE ButtonReaderRead
  BY <1>14 DEF ButtonReaderRead
<1>15. CASE CheckCallback
  BY <1>15 DEF CheckCallback, NextEmit
<1>16. CASE EmitPressed
  BY <1>16 DEF EmitPressed, NextEmit, Emit, Emitted, StillInHand
<1>17. CASE EmitReleased
  BY <1>17 DEF EmitReleased, Emit, Emitted, StillInHand
<1>18. CASE ButtonService_SimulateIsr
  BY <1>18 DEF ButtonService_SimulateIsr, Give
<1>19. CASE ReadFails
  BY <1>19 DEF ReadFails
<1> QED
  BY <1>1, <1>2, <1>3, <1>4, <1>5, <1>6, <1>7, <1>8, <1>9, <1>10, <1>11, <1>12,
     <1>13, <1>14, <1>15, <1>16, <1>17, <1>18, <1>19 DEF Next, ButtonService_Task

\* What a latch stands for after a button changed.
LEMMA LatchedChange ==
  ASSUME NEW b \in Buttons, ButtonChanges(b)
  PROVE  /\ Listening => latched' \ missed' = (latched \ missed) \cup {ChangeOf(b)}
         /\ ~Listening /\ latched = missed => latched' = missed'
<1>1. CASE Listening
  <2>1. latched' = latched \cup {ChangeOf(b)} /\ missed' = missed \ {ChangeOf(b)}
    BY <1>1 DEF ButtonChanges
  <2> QED
    BY <1>1, <2>1
<1>2. CASE ~Listening
  <2>1. /\ latched' = latched \cup {ChangeOf(b)}
        /\ missed' = missed \cup ({ChangeOf(b)} \ latched)
    BY <1>2 DEF ButtonChanges
  <2> QED
    BY <1>2, <2>1
<1> QED
  BY <1>1, <1>2

LEMMA ShapeKept == TypeOK /\ Shape /\ Next => Shape'
<1> SUFFICES ASSUME TypeOK, Shape, Next PROVE Shape'
  OBVIOUS
<1> USE DEF Shape, Listening, hardware, semaphore, observer, hand
<1>1. ASSUME NEW b \in Buttons, ButtonChanges(b) PROVE Shape'
  <2>1. ~Listening' => latched' = missed'
    BY <1>1, LatchedChange DEF ButtonChanges
  <2> QED
    BY <1>1, <2>1 DEF ButtonChanges
<1>2. CASE ButtonService_IsrCallback
  BY <1>2 DEF ButtonService_IsrCallback
<1>3. CASE ButtonService_Init
  BY <1>3 DEF ButtonService_Init
<1>4. CASE ButtonService_Start
  BY <1>4 DEF ButtonService_Start
<1>5. ASSUME NEW o \in Observers, RegisterCallback(o) PROVE Shape'
  BY <1>5, ObserversAssumption DEF RegisterCallback
<1>6. CASE RegisterContext
  BY <1>6 DEF RegisterContext
<1>7. CASE DestroyAsk
  BY <1>7 DEF DestroyAsk
<1>8. CASE DestroyDelete
  BY <1>8 DEF DestroyDelete
<1>9. CASE DestroyReset
  BY <1>9 DEF DestroyReset
<1>10. CASE ReaderInit
  BY <1>10 DEF ReaderInit
<1>11. CASE ReaderRegister
  BY <1>11 DEF ReaderRegister
<1>12. CASE LeaveLoop
  BY <1>12 DEF LeaveLoop
<1>13. CASE TakeToken
  BY <1>13 DEF TakeToken
<1>14. CASE app # "halted" /\ ButtonReaderRead
  BY <1>14 DEF ButtonReaderRead
<1>15. CASE CheckCallback
  <2>1. pc' = "released" => \A c \in inHand' : c[2] = "BUTTON_RELEASED"
    BY <1>15 DEF CheckCallback, NextEmit, TypeOK, Changes, States
  <2>2. pc' \in {"pressed", "released"} => s_callback' # NULL
    BY <1>15 DEF CheckCallback, NextEmit
  <2>3. pc' \in {"loop", "pressed", "released"}
    BY <1>15 DEF CheckCallback, NextEmit
  <2>4. pc' = "loop" => inHand' = {}
    BY <1>15 DEF CheckCallback, NextEmit
  <2> QED
    BY <1>15, <2>1, <2>2, <2>3, <2>4 DEF CheckCallback
<1>16. CASE EmitPressed
  <2>1. \A c \in inHand' : c[2] = "BUTTON_RELEASED"
    BY <1>16 DEF EmitPressed, Emit, StillInHand, TypeOK, Changes, States
  <2> QED
    BY <1>16, <2>1 DEF EmitPressed, NextEmit
<1>17. CASE EmitReleased
  <2>1. inHand' = {}
    BY <1>17 DEF EmitReleased, Emit, StillInHand
  <2> QED
    BY <1>17, <2>1 DEF EmitReleased
<1>18. CASE ButtonService_SimulateIsr
  BY <1>18 DEF ButtonService_SimulateIsr
<1>19. CASE ReadFails
  BY <1>19 DEF ReadFails
<1> QED
  BY <1>1, <1>2, <1>3, <1>4, <1>5, <1>6, <1>7, <1>8, <1>9, <1>10, <1>11, <1>12,
     <1>13, <1>14, <1>15, <1>16, <1>17, <1>18, <1>19 DEF Next, ButtonService_Task

LEMMA WakeupKept == IInv /\ Next => NoLostWakeup'
<1> SUFFICES ASSUME IInv, Next PROVE NoLostWakeup'
  OBVIOUS
<1> USE DEF IInv, NoLostWakeup, Shape, Listening, hardware, semaphore, observer, hand
<1>1. ASSUME NEW b \in Buttons, ButtonChanges(b) PROVE NoLostWakeup'
  BY <1>1 DEF ButtonChanges
<1>2. CASE ButtonService_IsrCallback
  <2>1. Listening => count' > 0
    BY <1>2 DEF ButtonService_IsrCallback, Give
  <2>2. latched' = latched /\ missed' = missed
    BY <1>2 DEF ButtonService_IsrCallback
  <2> QED
    BY <2>1, <2>2
<1>3. CASE ButtonService_Init
  BY <1>3 DEF ButtonService_Init
<1>4. CASE ButtonService_Start
  BY <1>4 DEF ButtonService_Start
<1>5. ASSUME NEW o \in Observers, RegisterCallback(o) PROVE NoLostWakeup'
  BY <1>5 DEF RegisterCallback
<1>6. CASE RegisterContext
  BY <1>6 DEF RegisterContext
<1>7. CASE DestroyAsk
  BY <1>7 DEF DestroyAsk, Give
<1>8. CASE DestroyDelete
  BY <1>8 DEF DestroyDelete
<1>9. CASE DestroyReset
  BY <1>9 DEF DestroyReset
<1>10. CASE ReaderInit
  BY <1>10 DEF ReaderInit
<1>11. CASE ReaderRegister
  BY <1>11 DEF ReaderRegister
<1>12. CASE LeaveLoop
  BY <1>12 DEF LeaveLoop
<1>13. CASE TakeToken
  BY <1>13 DEF TakeToken
<1>14. CASE ButtonReaderRead
  BY <1>14 DEF ButtonReaderRead
<1>15. CASE CheckCallback
  BY <1>15 DEF CheckCallback, NextEmit
<1>16. CASE EmitPressed
  BY <1>16 DEF EmitPressed, NextEmit
<1>17. CASE EmitReleased
  BY <1>17 DEF EmitReleased
<1>18. CASE ButtonService_SimulateIsr
  BY <1>18 DEF ButtonService_SimulateIsr, Give
<1>19. CASE ReadFails
  BY <1>19 DEF ReadFails
<1> QED
  BY <1>1, <1>2, <1>3, <1>4, <1>5, <1>6, <1>7, <1>8, <1>9, <1>10, <1>11, <1>12,
     <1>13, <1>14, <1>15, <1>16, <1>17, <1>18, <1>19 DEF Next, ButtonService_Task

LEMMA StutterKeeps == IInv /\ UNCHANGED vars => IInv'
<1> SUFFICES ASSUME IInv, UNCHANGED vars PROVE IInv'
  OBVIOUS
<1> USE DEF vars, hardware, semaphore, observer, hand
<1>1. TypeOK'
  BY DEF IInv, TypeOK
<1>2. Shape'
  BY DEF IInv, Shape, Listening
<1>3. NoLostWakeup'
  BY DEF IInv, NoLostWakeup
<1> QED
  BY <1>1, <1>2, <1>3 DEF IInv

\* The inductive invariant holds.
THEOREM Invariance == Spec => []IInv
<1>1. IInv /\ [Next]_vars => IInv'
  BY TypeKept, ShapeKept, WakeupKept, StutterKeeps DEF IInv
<1> QED
  BY InitEstablishes, <1>1, PTL DEF Spec

\* The variables keep their types: the semaphore is binary, and only changes
\* that are latched can have been missed.
THEOREM TypeCorrect == Spec => []TypeOK
  BY Invariance, PTL DEF IInv

\* What was latched since the task listens is going to be read.
THEOREM NoWakeupIsLost == Spec => []NoLostWakeup
  BY Invariance, PTL DEF IInv

-----------------------------------------------------------------------------
(* Callback and context, if observers register before the service starts *)

Paired ==
  /\ app # "runningRegistering"
  /\ app \notin {"readyRegistering", "halted"} => s_callback = s_context

LEMMA PairedKept ==
  ASSUME "lateRegister" \notin Liberties
  PROVE  Paired /\ [Next]_vars => Paired'
<1> SUFFICES ASSUME Paired, [Next]_vars PROVE Paired'
  OBVIOUS
<1> USE DEF Paired, hardware, semaphore, observer, hand
<1>1. ASSUME NEW b \in Buttons, ButtonChanges(b) PROVE Paired'
  BY <1>1 DEF ButtonChanges
<1>2. CASE ButtonService_IsrCallback
  BY <1>2 DEF ButtonService_IsrCallback
<1>3. CASE ButtonService_Init
  BY <1>3 DEF ButtonService_Init
<1>4. CASE ButtonService_Start
  BY <1>4 DEF ButtonService_Start
<1>5. ASSUME NEW o \in Observers, RegisterCallback(o) PROVE Paired'
  BY <1>5 DEF RegisterCallback
<1>6. CASE RegisterContext
  BY <1>6 DEF RegisterContext
<1>7. CASE DestroyAsk
  BY <1>7 DEF DestroyAsk
<1>8. CASE DestroyDelete
  BY <1>8 DEF DestroyDelete
<1>9. CASE DestroyReset
  BY <1>9 DEF DestroyReset
<1>10. CASE ButtonService_Task
  BY <1>10 DEF ButtonService_Task, ReaderInit, ReaderRegister, LeaveLoop, TakeToken,
               ButtonReaderRead, ReadFails, CheckCallback, EmitPressed, EmitReleased
<1>11. CASE ButtonService_SimulateIsr
  BY <1>11 DEF ButtonService_SimulateIsr
<1>12. CASE UNCHANGED vars
  BY <1>12 DEF vars
<1> QED
  BY <1>1, <1>2, <1>3, <1>4, <1>5, <1>6, <1>7, <1>8, <1>9, <1>10, <1>11, <1>12 DEF Next

\* Unless an observer registers while the service runs, its callback is always
\* called with its own context, restarts included.
THEOREM ContextIsRight ==
  ASSUME "lateRegister" \notin Liberties
  PROVE  Spec => []ContextMatches
<1>1. Init => Paired
  BY DEF Init, Paired
<1>2. Paired /\ [Next]_vars => Paired'
  BY PairedKept
<1>3. IInv /\ Paired => ContextMatches
  BY DEF IInv, Shape, Paired, ContextMatches, Calling
<1> QED
  BY Invariance, <1>1, <1>2, <1>3, PTL DEF Spec

-----------------------------------------------------------------------------
(* The service implements ButtonEvents *)

\* What is owed is a function of what is latched with an interrupt and of what
\* is in hand.
LEMMA OwedKept ==
  ASSUME latched' \ missed' = latched \ missed, inHand' = inHand
  PROVE  Owed' = Owed
  BY DEF Owed

\* Changes that were owed less than twice may occur.
LEMMA OwedGrows ==
  ASSUME NEW new \in SUBSET SupportedChanges,
         \A c \in new : Owed[c] < 2,
         \A c \in SupportedChanges : Owed'[c] = IF c \in new THEN Owed[c] + 1 ELSE Owed[c],
         Observer' = Observer, told' = told
  PROVE  BE!Occur
<1>1. Owed' = [c \in SupportedChanges |-> IF c \in new THEN Owed[c] + 1 ELSE Owed[c]]
  BY DEF Owed
<1> HIDE DEF Owed, Observer
<1> QED
  BY <1>1 DEF BE!Occur

LEMMA OwedShrinks ==
  ASSUME NEW gone,
         \A c \in SupportedChanges : Owed'[c] = IF c \in gone THEN Owed[c] - 1 ELSE Owed[c]
  PROVE  Owed' = [c \in SupportedChanges |-> IF c \in gone THEN Owed[c] - 1 ELSE Owed[c]]
  BY DEF Owed

LEMMA ChangeRefines ==
  ASSUME IInv, NEW b \in Buttons, ButtonChanges(b)
  PROVE  BE!Occur \/ UNCHANGED BE!vars
<1>1. inHand' = inHand /\ Observer' = Observer /\ told' = told
  BY DEF ButtonChanges, observer, hand, Observer
<1>2. CASE Listening
  <2> DEFINE new == ({ChangeOf(b)} \cap SupportedChanges) \ (latched \ missed)
  <2>1. latched' \ missed' = (latched \ missed) \cup {ChangeOf(b)}
    BY <1>2, LatchedChange
  <2>2. \A c \in SupportedChanges :
          (c \in latched' \ missed') <=> (c \in latched \ missed \/ c \in new)
    BY <2>1
  <2>3. \A c \in new : c \notin latched \ missed
    OBVIOUS
  <2>4. new \in SUBSET SupportedChanges
    OBVIOUS
  <2> HIDE DEF new
  <2>5. \A c \in new : Owed[c] < 2
    BY <2>3, <2>4 DEF Owed
  <2>6. \A c \in SupportedChanges : Owed'[c] = IF c \in new THEN Owed[c] + 1 ELSE Owed[c]
    BY <1>1, <2>2, <2>3 DEF Owed
  <2> QED
    BY <1>1, <2>4, <2>5, <2>6, OwedGrows
<1>3. CASE ~Listening
  <2>1. latched' \ missed' = latched \ missed
    BY <1>3, LatchedChange DEF IInv, Shape
  <2>2. Owed' = Owed
    BY <1>1, <2>1, OwedKept
  <2> QED
    BY <1>1, <2>2 DEF BE!vars
<1> QED
  BY <1>2, <1>3

\* What was latched without an interrupt occurs when it is read.
LEMMA ReadRefines ==
  ASSUME IInv, ButtonReaderRead
  PROVE  BE!Occur
<1> DEFINE new == missed \cap SupportedChanges
<1>1. inHand = {} /\ missed \subseteq latched
  BY DEF IInv, TypeOK, Shape, ButtonReaderRead
<1>2. /\ latched' = {} /\ inHand' = latched
      /\ Observer' = Observer /\ told' = told
  BY DEF ButtonReaderRead, observer, Observer
<1>3. \A c \in new : Owed[c] < 2
  BY <1>1 DEF Owed
<1>4. \A c \in SupportedChanges : Owed'[c] = IF c \in new THEN Owed[c] + 1 ELSE Owed[c]
  BY <1>1, <1>2 DEF Owed
<1> QED
  BY <1>2, <1>3, <1>4, OwedGrows

\* What nobody has a right to hear may be dropped.
LEMMA DropRefines ==
  ASSUME Observer # "registered", Observer' = Observer, told' = told,
         latched' \ missed' \subseteq latched \ missed, inHand' \subseteq inHand
  PROVE  BE!Discard
<1>1. Owed' \in [SupportedChanges -> 0 .. 2]
  BY DEF Owed
<1>2. \A c \in SupportedChanges : Owed'[c] <= Owed[c]
  BY DEF Owed
<1> HIDE DEF Owed, Observer
<1> QED
  BY <1>1, <1>2 DEF BE!Discard

LEMMA NothingRefines ==
  ASSUME latched' \ missed' = latched \ missed, inHand' = inHand,
         Observer' = Observer, told' = told
  PROVE  UNCHANGED BE!vars
<1>1. Owed' = Owed
  BY OwedKept
<1> QED
  BY <1>1 DEF BE!vars

\* Emit tells what it takes out of the hands of the task, the bits that nobody
\* knows excepted.
LEMMA EmitRefines ==
  ASSUME NEW state, Emit(state), IInv, Observer # "none", Observer' = Observer,
         latched' = latched, missed' = missed
  PROVE  BE!Next \/ UNCHANGED BE!vars
<1> DEFINE now == Emitted(state)
<1>1. \A c \in SupportedChanges :
        (c \in inHand') <=> (c \in inHand /\ c \notin now)
  BY DEF Emit, Emitted, StillInHand, SupportedChanges
<1>2. \A c \in now : c \in inHand /\ c \in SupportedChanges
  BY DEF Emitted, IInv, TypeOK, Changes, SupportedChanges
<1> HIDE DEF now
<1>3. \A c \in SupportedChanges :
        Owed'[c] = IF c \in now THEN Owed[c] - 1 ELSE Owed[c]
  BY <1>1, <1>2 DEF Owed
<1>4. \A c \in now : Owed[c] > 0
  BY <1>2 DEF Owed
<1>5. Owed' = [c \in SupportedChanges |-> IF c \in now THEN Owed[c] - 1 ELSE Owed[c]]
  BY <1>3, OwedShrinks
<1>6. CASE now # {} /\ told' = now
  <2>1. now \in SUBSET SupportedChanges
    BY <1>2
  <2> HIDE DEF Owed, Observer
  <2>2. BE!Tell(now)
    BY <1>4, <1>5, <1>6 DEF BE!Tell
  <2> QED
    BY <2>1, <2>2 DEF BE!Next
<1>7. CASE now = {} /\ told' = told
  <2>1. \A c \in SupportedChanges : Owed'[c] = Owed[c]
    BY <1>3, <1>7
  <2>2. Owed' = Owed
    BY <2>1 DEF Owed
  <2> QED
    BY <1>7, <2>2 DEF BE!vars
<1>8. (now # {} /\ told' = now) \/ (now = {} /\ told' = told)
  BY DEF Emit, now
<1> QED
  BY <1>6, <1>7, <1>8

LEMMA StepRefines == IInv /\ [Next]_vars => [BE!Next]_(BE!vars)
<1> SUFFICES ASSUME IInv, [Next]_vars
             PROVE  BE!Next \/ UNCHANGED BE!vars
  OBVIOUS
<1> USE DEF hardware, semaphore, observer, hand
<1>1. ASSUME NEW b \in Buttons, ButtonChanges(b) PROVE BE!Next \/ UNCHANGED BE!vars
  BY <1>1, ChangeRefines DEF BE!Next
<1>2. CASE ButtonService_IsrCallback
  BY <1>2, NothingRefines DEF ButtonService_IsrCallback, Observer, IInv, Shape
<1>3. CASE ButtonService_Init
  BY <1>3, NothingRefines DEF ButtonService_Init, Observer
<1>4. CASE ButtonService_Start
  BY <1>4, NothingRefines DEF ButtonService_Start, Observer
<1>5. ASSUME NEW o \in Observers, RegisterCallback(o) PROVE BE!Next
  <2>1. /\ latched' = latched /\ missed' = missed /\ inHand' = inHand /\ told' = told
        /\ Observer' = "registered"
    BY <1>5, ObserversAssumption DEF RegisterCallback, Observer
  <2>2. Owed' = Owed
    BY <2>1, OwedKept
  <2>3. BE!Register
    BY <2>1, <2>2 DEF BE!Register
  <2> QED
    BY <2>3 DEF BE!Next
<1>6. CASE RegisterContext
  BY <1>6, NothingRefines DEF RegisterContext, Observer
<1>7. CASE DestroyAsk
  <2>1. /\ latched' = latched /\ missed' = missed /\ inHand' = inHand /\ told' = told
        /\ \/ Observer' = Observer
           \/ Observer = "registered" /\ Observer' = "leaving"
    BY <1>7 DEF DestroyAsk, Observer
  <2>2. Owed' = Owed
    BY <2>1, OwedKept
  <2>3. BE!Leave \/ UNCHANGED BE!vars
    BY <2>1, <2>2 DEF BE!Leave, BE!vars
  <2> QED
    BY <2>3 DEF BE!Next
<1>8. CASE DestroyDelete
  BY <1>8, DropRefines DEF DestroyDelete, Observer, IInv, Shape, TypeOK, BE!Next
<1>9. CASE DestroyReset
  <2>1. /\ latched' = latched /\ missed' = missed /\ inHand' = inHand /\ told' = told
        /\ \/ Observer' = Observer
           \/ Observer = "leaving" /\ Observer' = "none"
    BY <1>9 DEF DestroyReset, Observer
  <2>2. Owed' = Owed
    BY <2>1, OwedKept
  <2>3. BE!Gone \/ UNCHANGED BE!vars
    BY <2>1, <2>2 DEF BE!Gone, BE!vars
  <2> QED
    BY <2>3 DEF BE!Next
<1>10. CASE ReaderInit
  <2>1. latched' \ missed' = latched \ missed
    BY <1>10 DEF ReaderInit, Listening, IInv, Shape
  <2> QED
    BY <1>10, <2>1, NothingRefines DEF ReaderInit, Observer
<1>11. CASE ReaderRegister
  BY <1>11, NothingRefines DEF ReaderRegister, Observer
<1>12. CASE LeaveLoop
  BY <1>12, NothingRefines DEF LeaveLoop, Observer
<1>13. CASE TakeToken
  BY <1>13, NothingRefines DEF TakeToken, Observer
<1>14. CASE ButtonReaderRead
  BY <1>14, ReadRefines DEF BE!Next
<1>15. CASE CheckCallback
  <2>1. CASE s_callback # NULL
    BY <1>15, <2>1, NothingRefines DEF CheckCallback, Observer
  <2>2. CASE s_callback = NULL
    BY <1>15, <2>2, DropRefines DEF CheckCallback, Observer, BE!Next
  <2> QED
    BY <2>1, <2>2
<1>16. CASE EmitPressed
  BY <1>16, EmitRefines DEF EmitPressed, Observer, IInv, Shape
<1>17. CASE EmitReleased
  BY <1>17, EmitRefines DEF EmitReleased, Observer, IInv, Shape
<1>18. CASE UNCHANGED vars
  BY <1>18, NothingRefines DEF vars, Observer
<1>19. CASE ButtonService_SimulateIsr
  BY <1>19, NothingRefines DEF ButtonService_SimulateIsr, Observer
<1>20. CASE ReadFails
  <2>1. /\ latched' = latched /\ missed' = missed /\ inHand' = inHand /\ told' = told
        /\ \/ Observer' = Observer
           \/ Observer = "registered" /\ Observer' = "leaving"
    BY <1>20 DEF ReadFails, Observer
  <2>2. Owed' = Owed
    BY <2>1, OwedKept
  <2>3. BE!Leave \/ UNCHANGED BE!vars
    BY <2>1, <2>2 DEF BE!Leave, BE!vars
  <2> QED
    BY <2>3 DEF BE!Next
<1> QED
  BY <1>1, <1>2, <1>3, <1>4, <1>5, <1>6, <1>7, <1>8, <1>9, <1>10, <1>11, <1>12,
     <1>13, <1>14, <1>15, <1>16, <1>17, <1>18, <1>19, <1>20 DEF Next, ButtonService_Task

\* Whatever application, task and interrupt do in between: no change that had its
\* interrupt is kept from an observer, and none is told that did not occur.  The
\* service implements ButtonEvents, through registration, destruction and restart.
THEOREM Refinement == Spec => ImplementsButtonEvents
<1>1. Init => BE!Init
  BY DEF Init, BE!Init, Owed, Observer
<1>2. IInv /\ [Next]_vars => [BE!Next]_(BE!vars)
  BY StepRefines
<1> QED
  BY Invariance, <1>1, <1>2, PTL DEF Spec, ImplementsButtonEvents, BE!Spec
=============================================================================
