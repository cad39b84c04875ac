------------------------------ MODULE FakeMutex ------------------------------
(* The fake mutexes of cpputest-for-freertos-lib, plain and recursive, and    *)
(* the tracking that lets a test end only when no mutex is locked.            *)
(*                                                                            *)
(* A mutex is a FakeQueue of length one whose items have size zero: what is   *)
(* left of the queue here is the number of its tokens.  Its address may be    *)
(* reused after vQueueDelete, for another mutex or for any other queue.       *)
EXTENDS Integers, FiniteSets

CONSTANTS
  Handles,          \* addresses an allocator can return for a FakeQueue
  MaxDepth,         \* bound: nested takes of one recursive mutex
  DeleteRecursive   \* whether tests delete a tracked recursive mutex

ASSUME DepthAssumption == MaxDepth \in Nat \ {0}
ASSUME DeleteAssumption == DeleteRecursive \in BOOLEAN

VARIABLES
  live,               \* the handles that are allocated
  queueType,          \* FakeQueue::queueType
  tokens,             \* FakeQueue::queue.size()
  recursiveCallCount, \* FakeQueue::recursiveCallCount
  tracking,           \* s_mutexes != nullptr
  s_mutexes,          \* the handles in the tracking list, {} without one
  outstanding,        \* ghost: takes that returned pdTRUE less such gives
  tracked             \* ghost: live mutexes created since tracking began

vars == <<live, queueType, tokens, recursiveCallCount, tracking, s_mutexes,
          outstanding, tracked>>

Plain == "queueQUEUE_TYPE_MUTEX"
Recursive == "queueQUEUE_TYPE_RECURSIVE_MUTEX"
Other == "queueQUEUE_TYPE_BASE"

Types == {Plain, Recursive, Other}

Init ==
  /\ live = {}
  /\ queueType = [h \in Handles |-> Other]
  /\ tokens = [h \in Handles |-> 0]
  /\ recursiveCallCount = [h \in Handles |-> 0]
  /\ tracking = FALSE
  /\ s_mutexes = {}
  /\ outstanding = [h \in Handles |-> 0]
  /\ tracked = {}

-----------------------------------------------------------------------------
(* Tracking *)

\* What uxSemaphoreGetCount(h) == 0 can say of a handle in the list: of a
\* deleted one, read from freed memory, anything.
ReadsLocked(h) == IF h \in live THEN {tokens[h] = 0} ELSE BOOLEAN

\* The answers IsAnyMutexLocked can give now: any_of over the list, and FALSE
\* when there is none.
IsAnyMutexLocked ==
  {answer \in BOOLEAN :
     IF answer THEN \E h \in s_mutexes : TRUE \in ReadsLocked(h)
               ELSE \A h \in s_mutexes : FALSE \in ReadsLocked(h)}

\* Asserts that tracking is off.
MutexTrackingInit ==
  /\ ~tracking
  /\ tracking' = TRUE
  /\ s_mutexes' = {}
  /\ tracked' = {}
  /\ UNCHANGED <<live, queueType, tokens, recursiveCallCount, outstanding>>

\* The list goes whatever IsAnyMutexLocked says; the failure comes after.
MutexTrackingTeardown ==
  /\ tracking
  /\ tracking' = FALSE
  /\ s_mutexes' = {}
  /\ tracked' = {}
  /\ UNCHANGED <<live, queueType, tokens, recursiveCallCount, outstanding>>

\* Mutant: every mutex is forgotten, not only the one about to be deleted.
ForgetAll(h) == {}

\* The list after MutexAboutToDelete(h).
MutexAboutToDelete(h) == s_mutexes \ {h}

-----------------------------------------------------------------------------
(* Creation and deletion *)

\* Created unlocked: with its one token, and on the list while it exists.
xQueueCreateMutex(h, type) ==
  /\ type \in {Plain, Recursive}
  /\ h \notin live
  /\ live' = live \cup {h}
  /\ queueType' = [queueType EXCEPT ![h] = type]
  /\ tokens' = [tokens EXCEPT ![h] = 1]
  /\ recursiveCallCount' = [recursiveCallCount EXCEPT ![h] = 0]
  /\ outstanding' = [outstanding EXCEPT ![h] = 0]
  /\ s_mutexes' = IF tracking THEN s_mutexes \cup {h} ELSE s_mutexes
  /\ tracked' = IF tracking THEN tracked \cup {h} ELSE tracked
  /\ UNCHANGED tracking

\* Any other queue that the allocator puts at address h, empty at first.
xQueueGenericCreate(h) ==
  /\ h \notin live
  /\ live' = live \cup {h}
  /\ queueType' = [queueType EXCEPT ![h] = Other]
  /\ tokens' = [tokens EXCEPT ![h] = 0]
  /\ recursiveCallCount' = [recursiveCallCount EXCEPT ![h] = 0]
  /\ outstanding' = [outstanding EXCEPT ![h] = 0]
  /\ UNCHANGED <<tracking, s_mutexes, tracked>>

\* MutexAboutToDelete is called for queues of the plain mutex type only.
vQueueDelete(h) ==
  /\ h \in live
  /\ queueType[h] = Recursive => h \notin tracked \/ DeleteRecursive
  /\ live' = live \ {h}
  /\ s_mutexes' = IF queueType[h] = Plain THEN MutexAboutToDelete(h) ELSE s_mutexes
  /\ tracked' = tracked \ {h}
  /\ UNCHANGED <<queueType, tracking, tokens, recursiveCallCount, outstanding>>

-----------------------------------------------------------------------------
(* Plain mutexes: xSemaphoreTake and xSemaphoreGive, which never block.  A    *)
(* take of a locked mutex and a give of an unlocked one fail and change       *)
(* nothing.                                                                   *)

xQueueSemaphoreTake(h) ==
  /\ h \in live /\ queueType[h] = Plain
  /\ tokens[h] > 0
  /\ tokens' = [tokens EXCEPT ![h] = @ - 1]
  /\ outstanding' = [outstanding EXCEPT ![h] = @ + 1]
  /\ UNCHANGED <<live, queueType, recursiveCallCount, tracking, s_mutexes, tracked>>

\* Mutant: the full mutex takes one more token.
CanGiveUnlocked(h) == tokens[h] <= 1

\* xQueueGenericSend refuses beyond the queue's length, which is one.
CanGive(h) == tokens[h] < 1

xSemaphoreGive(h) ==
  /\ h \in live /\ queueType[h] = Plain
  /\ CanGive(h)
  /\ tokens' = [tokens EXCEPT ![h] = @ + 1]
  /\ outstanding' = [outstanding EXCEPT ![h] = @ - 1]
  /\ UNCHANGED <<live, queueType, recursiveCallCount, tracking, s_mutexes, tracked>>

(* Queues of any other type, at whatever address. *)

SendOther(h) ==
  /\ h \in live /\ queueType[h] = Other
  /\ CanGive(h)
  /\ tokens' = [tokens EXCEPT ![h] = @ + 1]
  /\ UNCHANGED <<live, queueType, recursiveCallCount, tracking, s_mutexes, outstanding, tracked>>

ReceiveOther(h) ==
  /\ h \in live /\ queueType[h] = Other
  /\ tokens[h] > 0
  /\ tokens' = [tokens EXCEPT ![h] = @ - 1]
  /\ UNCHANGED <<live, queueType, recursiveCallCount, tracking, s_mutexes, outstanding, tracked>>

-----------------------------------------------------------------------------
(* Recursive mutexes.  Nothing records who took the mutex: a take succeeds    *)
(* whether or not the taker is the holder.                                    *)

xQueueTakeMutexRecursive(h) ==
  /\ h \in live /\ queueType[h] = Recursive
  /\ recursiveCallCount[h] < MaxDepth
  /\ tokens' = [tokens EXCEPT ![h] = IF @ = 1 THEN 0 ELSE @]
  /\ recursiveCallCount' = [recursiveCallCount EXCEPT ![h] = @ + 1]
  /\ outstanding' = [outstanding EXCEPT ![h] = @ + 1]
  /\ UNCHANGED <<live, queueType, tracking, s_mutexes, tracked>>

\* Mutant: the outermost give is taken to be the one that finds a count of one.
LastGiveOffByOne(h) == recursiveCallCount[h] - 1 = 1

\* The decrement has brought the count to zero.
LastGive(h) == recursiveCallCount[h] - 1 = 0

xQueueGiveMutexRecursive(h) ==
  /\ h \in live /\ queueType[h] = Recursive
  /\ tokens[h] = 0 /\ recursiveCallCount[h] > 0
  /\ recursiveCallCount' = [recursiveCallCount EXCEPT ![h] = @ - 1]
  /\ tokens' = [tokens EXCEPT ![h] = IF LastGive(h) THEN @ + 1 ELSE @]
  /\ outstanding' = [outstanding EXCEPT ![h] = @ - 1]
  /\ UNCHANGED <<live, queueType, tracking, s_mutexes, tracked>>

-----------------------------------------------------------------------------
Next ==
  \/ MutexTrackingInit
  \/ MutexTrackingTeardown
  \/ \E h \in Handles :
       \/ \E type \in {Plain, Recursive} : xQueueCreateMutex(h, type)
       \/ xQueueGenericCreate(h)
       \/ vQueueDelete(h)
       \/ xQueueSemaphoreTake(h)
       \/ xSemaphoreGive(h)
       \/ SendOther(h)
       \/ ReceiveOther(h)
       \/ xQueueTakeMutexRecursive(h)
       \/ xQueueGiveMutexRecursive(h)

Spec == Init /\ [][Next]_vars

-----------------------------------------------------------------------------
(* Properties *)

\* Type invariant.
TypeOK ==
  /\ live \subseteq Handles
  /\ queueType \in [Handles -> Types]
  /\ tokens \in [Handles -> {0, 1}]
  /\ recursiveCallCount \in [Handles -> 0 .. MaxDepth]
  /\ tracking \in BOOLEAN
  /\ s_mutexes \subseteq Handles
  /\ outstanding \in [Handles -> 0 .. MaxDepth]
  /\ tracked \subseteq live

\* A mutex is without its token exactly while takes outnumber gives, whatever
\* the nesting and however many gives were refused: the count a test reads
\* with uxSemaphoreGetCount tells locked from unlocked.
LockedIffOutstanding ==
  \A h \in live : queueType[h] # Other =>
    (tokens[h] = 0 <=> outstanding[h] > 0)

\* While tracking is on, IsAnyMutexLocked has one answer, and it is whether a
\* mutex that was created since tracking began, and still exists, is locked.
VerdictIsTruth ==
  tracking => IsAnyMutexLocked = {\E h \in tracked : outstanding[h] > 0}

\* A mutex that was deleted, locked or not, is not reported: with every
\* tracked mutex unlocked or deleted, IsAnyMutexLocked is false.
DeletedIsNotReported ==
  (\A h \in tracked : outstanding[h] = 0) => IsAnyMutexLocked = {FALSE}
=============================================================================
