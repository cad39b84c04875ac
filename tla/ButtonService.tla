---------------------------- MODULE ButtonService ----------------------------
(* The active object ButtonService.  The driver latches what buttons changed  *)
(* since the last read and raises an interrupt, whose handler gives a binary  *)
(* semaphore; the task takes it, reads the latches and calls the observer.    *)
(* Any number of changes and interrupts may share one token.                  *)
(*                                                                            *)
(* The application has one thread that calls Init, Register, Start and        *)
(* Destroy; task and interrupt preempt it between any two of the steps below. *)
EXTENDS Integers

CONSTANTS
  Buttons,     \* what the driver can report: its 16 bits
  Supported,   \* ON_OFF_BIT and FUNC_A_BIT
  Observers,   \* a callback and the context that goes with it
  NULL,
  Liberties    \* what the application and the driver allow themselves

Liberty == {"lateRegister",   \* registration while the service runs
            "destroy",        \* destruction while buttons are in use
            "readError"}      \* ButtonReaderRead() may fail

ASSUME SupportedAssumption == Supported \subseteq Buttons
ASSUME ObserversAssumption == NULL \notin Observers
ASSUME LibertiesAssumption == Liberties \subseteq Liberty

VARIABLES
  down,         \* the buttons that are held down
  latched,      \* the driver: changes since the last read
  interrupt,    \* the driver: an interrupt is pending
  isrCallback,  \* the driver: ButtonService_IsrCallback is registered
  s_eventSema,  \* "NULL", "live", or "deleted"
  count,        \* its tokens
  s_exitThread,
  s_callback,   \* the callback of an observer
  s_context,    \* the context of an observer
  app,          \* where the application's thread is
  pc,           \* where the task is
  inHand,       \* the local variables pressed and released
  told,         \* ghost: the changes s_callback was last called with
  missed        \* ghost: the latched changes that came before the task listened

hardware == <<down, latched, interrupt, missed>>
semaphore == <<s_eventSema, count>>
observer == <<s_callback, s_context>>
hand == <<inHand, told>>

vars == <<hardware, isrCallback, semaphore, s_exitThread, observer, app, pc, hand>>

States == {"BUTTON_PRESSED", "BUTTON_RELEASED"}
Changes == Buttons \X States

AppLocations ==
  {"down",               \* ButtonService_Init() comes next
   "ready",              \* not started
   "readyRegistering",   \* between the two stores of a registration
   "running",
   "runningRegistering",
   "exiting",            \* s_exitThread is set and the semaphore given
   "deleted",            \* task and semaphore are deleted
   "halted"}             \* an assertion failed, the program has ended

Locations ==
  {"none",        \* there is no task
   "initialize",  \* ButtonReaderInit() comes next
   "register",    \* ButtonReaderRegisterIsrCallback() comes next
   "loop",        \* at the top of the loop of ButtonService_Task
   "read",        \* the token was taken
   "check",       \* the buttons were read
   "pressed",     \* Emit(pressed, BUTTON_PRESSED) comes next: pressed is not 0
   "released",    \* Emit(released, BUTTON_RELEASED) comes next
   "returned"}    \* the task function has returned

Init ==
  /\ down = {} /\ latched = {} /\ interrupt = FALSE /\ missed = {}
  /\ isrCallback = FALSE
  /\ s_eventSema = "NULL" /\ count = 0
  /\ s_exitThread = FALSE
  /\ s_callback = NULL /\ s_context = NULL
  /\ app = "down" /\ pc = "none"
  /\ inHand = {} /\ told = {}

-----------------------------------------------------------------------------
(* Buttons and interrupt *)

\* The handler is registered and belongs to a task that has set up the driver.
Listening == isrCallback /\ pc \notin {"none", "initialize"}

ChangeOf(b) == <<b, IF b \in down THEN "BUTTON_RELEASED" ELSE "BUTTON_PRESSED">>

\* A button is pressed or released and the hardware asks for an interrupt.
ButtonChanges(b) ==
  /\ down' = IF b \in down THEN down \ {b} ELSE down \cup {b}
  /\ latched' = latched \cup {ChangeOf(b)}
  /\ interrupt' = TRUE
  /\ missed' = IF Listening THEN missed \ {ChangeOf(b)}
                            ELSE missed \cup ({ChangeOf(b)} \ latched)
  /\ UNCHANGED <<isrCallback, semaphore, s_exitThread, observer, app, pc, hand>>

\* Mutant: the semaphore counts.
GiveCounting(tokens) == tokens + 1

\* A give beyond the one token fails, and nobody minds.
Give(tokens) == 1

\* Without a callback the interrupt comes to nothing.  Without a semaphore the
\* handler's assertion ends the program; so does, here, a give to a deleted one.
ButtonService_IsrCallback ==
  /\ app # "halted"
  /\ interrupt
  /\ interrupt' = FALSE
  /\ \/ ~isrCallback /\ UNCHANGED <<count, app>>
     \/ isrCallback /\ s_eventSema = "live" /\ count' = Give(count) /\ UNCHANGED app
     \/ isrCallback /\ s_eventSema # "live" /\ app' = "halted" /\ UNCHANGED count
  /\ UNCHANGED <<down, latched, missed, isrCallback, s_eventSema, s_exitThread,
                 observer, pc, hand>>

-----------------------------------------------------------------------------
(* The application *)

ButtonService_Init ==
  /\ app = "down"
  /\ app' = "ready"
  /\ s_eventSema' = "live" /\ count' = 0
  /\ UNCHANGED <<hardware, isrCallback, s_exitThread, observer, pc, hand>>

ButtonService_Start ==
  /\ app = "ready"
  /\ app' = "running"
  /\ pc' = "initialize"
  /\ UNCHANGED <<hardware, isrCallback, semaphore, s_exitThread, observer, hand>>

\* ButtonService_RegisterButtonChangeCallback stores s_callback ...
RegisterCallback(o) ==
  /\ \/ app = "ready" /\ app' = "readyRegistering"
     \/ app = "running" /\ "lateRegister" \in Liberties /\ app' = "runningRegistering"
  /\ s_callback' = o
  /\ UNCHANGED <<hardware, isrCallback, semaphore, s_exitThread, s_context, pc, hand>>

\* ... and then the s_context it belongs to.
RegisterContext ==
  /\ \/ app = "readyRegistering" /\ app' = "ready"
     \/ app = "runningRegistering" /\ app' = "running"
  /\ s_context' = s_callback
  /\ UNCHANGED <<hardware, isrCallback, semaphore, s_exitThread, s_callback, pc, hand>>

\* ButtonService_Destroy asks the task to end ...
DestroyAsk ==
  /\ "destroy" \in Liberties
  /\ app = "running"
  /\ s_exitThread' = TRUE
  /\ count' = Give(count)
  /\ app' = "exiting"
  /\ UNCHANGED <<hardware, isrCallback, s_eventSema, observer, pc, hand>>

\* ... deletes it, wherever it is, and then the semaphore ...
DestroyDelete ==
  /\ app = "exiting"
  /\ pc' = "none" /\ inHand' = {}
  /\ s_eventSema' = "deleted" /\ count' = 0
  /\ app' = "deleted"
  /\ missed' = latched
  /\ UNCHANGED <<down, latched, interrupt, isrCallback, s_exitThread, observer, told>>

\* ... and forgets everything, but for the driver, which keeps the callback.
DestroyReset ==
  /\ app = "deleted"
  /\ s_exitThread' = FALSE
  /\ s_eventSema' = "NULL"
  /\ s_callback' = NULL /\ s_context' = NULL
  /\ app' = "down"
  /\ UNCHANGED <<hardware, isrCallback, count, pc, hand>>

\* ButtonService_SimulateIsr runs the handler on the application's thread, with
\* or without a change to read.
ButtonService_SimulateIsr ==
  /\ app = "running"
  /\ count' = Give(count)
  /\ UNCHANGED <<hardware, isrCallback, s_eventSema, s_exitThread, observer, app, pc, hand>>

-----------------------------------------------------------------------------
(* The task *)

\* ButtonService_Initialize: the driver starts with empty latches.
ReaderInit ==
  /\ pc = "initialize"
  /\ latched' = {} /\ missed' = {} /\ interrupt' = FALSE
  /\ pc' = "register"
  /\ UNCHANGED <<down, isrCallback, semaphore, s_exitThread, observer, app, hand>>

\* An interrupt still pending was of a change before this step.
ReaderRegister ==
  /\ pc = "register"
  /\ isrCallback' = TRUE
  /\ pc' = "loop"
  /\ UNCHANGED <<hardware, semaphore, s_exitThread, observer, app, hand>>

\* A task function must not return; this one does when it gets the chance.
LeaveLoop ==
  /\ pc = "loop" /\ s_exitThread
  /\ pc' = "returned"
  /\ UNCHANGED <<hardware, isrCallback, semaphore, s_exitThread, observer, app, hand>>

\* ButtonService_ProcessOneEvent: without a token the task waits.
TakeToken ==
  /\ pc = "loop" /\ ~s_exitThread
  /\ count > 0
  /\ count' = count - 1
  /\ pc' = "read"
  /\ UNCHANGED <<hardware, isrCallback, s_eventSema, s_exitThread, observer, app, hand>>

ButtonReaderRead ==
  /\ pc = "read"
  /\ inHand' = latched
  /\ latched' = {} /\ missed' = {}
  /\ pc' = "check"
  /\ UNCHANGED <<down, interrupt, isrCallback, semaphore, s_exitThread, observer, app, told>>

\* The task's assertion fails, with what it would have read still latched.
ReadFails ==
  /\ "readError" \in Liberties
  /\ pc = "read"
  /\ app' = "halted"
  /\ UNCHANGED <<hardware, isrCallback, semaphore, s_exitThread, observer, pc, hand>>

\* Which call of Emit comes next with these words: none for a word that is 0.
NextEmit(words) ==
  IF \E c \in words : c[2] = "BUTTON_PRESSED" THEN "pressed"
  ELSE IF words # {} THEN "released"
  ELSE "loop"

\* Mutant: tokens given meanwhile are thrown away once the buttons were read.
CheckAndDrain ==
  /\ pc = "check"
  /\ IF s_callback # NULL THEN pc' = NextEmit(inHand) /\ UNCHANGED inHand
                          ELSE pc' = "loop" /\ inHand' = {}
  /\ count' = 0
  /\ UNCHANGED <<hardware, isrCallback, s_eventSema, s_exitThread, observer, app, told>>

\* Without a callback, what was read is dropped.
CheckCallback ==
  /\ pc = "check"
  /\ IF s_callback # NULL THEN pc' = NextEmit(inHand) /\ UNCHANGED inHand
                          ELSE pc' = "loop" /\ inHand' = {}
  /\ UNCHANGED <<hardware, isrCallback, semaphore, s_exitThread, observer, app, told>>

\* What Emit(bits, state) tells: the buttons this product knows.
Emitted(state) == {c \in inHand : c[1] \in Supported /\ c[2] = state}

\* Mutant: a press hides the releases that were read with it.
PressHidesRelease(state) == {}

\* The other word that was read.
StillInHand(state) == {c \in inHand : c[2] # state}

\* s_callback is called if any flag is set, with all that are.
Emit(state) ==
  /\ told' = IF Emitted(state) # {} THEN Emitted(state) ELSE told
  /\ inHand' = StillInHand(state)

EmitPressed ==
  /\ pc = "pressed"
  /\ Emit("BUTTON_PRESSED")
  /\ pc' = NextEmit(inHand')
  /\ UNCHANGED <<hardware, isrCallback, semaphore, s_exitThread, observer, app>>

EmitReleased ==
  /\ pc = "released"
  /\ Emit("BUTTON_RELEASED")
  /\ pc' = "loop"
  /\ UNCHANGED <<hardware, isrCallback, semaphore, s_exitThread, observer, app>>

ButtonService_Task ==
  /\ app # "halted"
  /\ \/ ReaderInit
     \/ ReaderRegister
     \/ LeaveLoop
     \/ TakeToken
     \/ ButtonReaderRead
     \/ ReadFails
     \/ CheckCallback
     \/ EmitPressed
     \/ EmitReleased

-----------------------------------------------------------------------------
Next ==
  \/ \E b \in Buttons : ButtonChanges(b)
  \/ ButtonService_IsrCallback
  \/ ButtonService_Init
  \/ ButtonService_Start
  \/ \E o \in Observers : RegisterCallback(o)
  \/ RegisterContext
  \/ DestroyAsk
  \/ DestroyDelete
  \/ DestroyReset
  \/ ButtonService_SimulateIsr
  \/ ButtonService_Task

Spec == Init /\ [][Next]_vars

\* Interrupts are taken, and the task has the highest priority of the
\* application: it runs whenever it has a token.
FairSpec == Spec /\ WF_vars(ButtonService_IsrCallback) /\ WF_vars(ButtonService_Task)

-----------------------------------------------------------------------------
(* Properties *)

\* Type invariant.
TypeOK ==
  /\ down \subseteq Buttons
  /\ latched \subseteq Changes /\ inHand \subseteq Changes /\ told \subseteq Changes
  /\ missed \subseteq latched
  /\ interrupt \in BOOLEAN /\ isrCallback \in BOOLEAN /\ s_exitThread \in BOOLEAN
  /\ s_eventSema \in {"NULL", "live", "deleted"}
  /\ count \in {0, 1}
  /\ s_callback \in Observers \cup {NULL}
  /\ s_context \in Observers \cup {NULL}
  /\ app \in AppLocations
  /\ pc \in Locations

\* No wakeup is lost, however changes, interrupts, takes and reads overlap: what
\* the driver has latched since the task listens is going to be read, because an
\* interrupt or a token is waiting or the task is about to read.
NoLostWakeup ==
  latched # missed /\ pc # "returned" =>
    interrupt \/ count > 0 \/ pc = "read"

\* The task is about to call s_callback: some flag is set.
Calling ==
  \/ pc = "pressed" /\ Emitted("BUTTON_PRESSED") # {}
  \/ pc = "released" /\ Emitted("BUTTON_RELEASED") # {}

\* A callback is always called with the context it was registered with.
ContextMatches == Calling => s_callback = s_context

-----------------------------------------------------------------------------
(* The service implements ButtonEvents *)

SupportedChanges == Supported \X States

Owed == [c \in SupportedChanges |->
           (IF c \in latched \ missed THEN 1 ELSE 0) + (IF c \in inHand THEN 1 ELSE 0)]

Observer ==
  IF s_callback = NULL THEN "none"
  ELSE IF app \in {"exiting", "deleted", "halted"} THEN "leaving"
  ELSE "registered"

BE == INSTANCE ButtonEvents WITH
        Changes <- SupportedChanges,
        owed <- Owed,
        observer <- Observer,
        told <- told

\* From its registration until destruction begins, no change that had its
\* interrupt is kept from the observer, and none is invented.
ImplementsButtonEvents == BE!Spec

\* From its registration until destruction begins, every change that had its
\* interrupt is told to the observer, and no other.
ImplementsFairButtonEvents == BE!FairSpec
=============================================================================
