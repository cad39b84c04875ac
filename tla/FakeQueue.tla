------------------------------ MODULE FakeQueue ------------------------------
(* The fake FreeRTOS queue of cpputest-for-freertos-lib, with the two things  *)
(* built from it: counting and binary semaphores (queues whose items have     *)
(* size zero) and queue sets (queues of queue handles).                       *)
(*                                                                            *)
(* A call that the code refuses (errQUEUE_FULL, pdFALSE, pdFAIL, an assertion *)
(* that ends the test) changes nothing and is a stuttering step here.  A call *)
(* the code accepts although a careful client of a queue set refrains from it *)
(* is a "liberty": it is enabled only when the constant Liberties names it.   *)
EXTENDS Integers, Sequences, FiniteSets, FiniteSetsExt

CONSTANTS
  Handles,     \* addresses an allocator can return for a FakeQueue
  NULL,        \* nullptr
  Items,       \* messages of an ordinary queue
  Token,       \* the empty message of a semaphore (itemSize = 0)
  UBaseMod,    \* UBaseType_t counts modulo UBaseMod (portmacro.h: 2^8)
  Lengths,     \* lengths and counts the clients ask for, as plain integers
  MaxCredit,   \* bound: selections of one member a client lets pile up
  Liberties    \* what the clients allow themselves

Liberty == {"overwriteMember",    \* xQueueOverwrite on a member of a set
            "overwriteEmpty",     \* xQueueOverwrite on an empty mailbox
            "oversubscribe",      \* members with more room than their set
            "readUnselected"}     \* receive from a member nobody selected

ASSUME HandlesAssumption == NULL \notin Handles
ASSUME WidthAssumption == UBaseMod \in Nat \ {0} /\ Lengths \subseteq Nat
ASSUME CreditAssumption == MaxCredit \in Nat
ASSUME LibertiesAssumption == Liberties \subseteq Liberty

VARIABLES
  live,               \* the handles that are allocated
  queueLength,        \* FakeQueue::queueLength
  itemSize,           \* FakeQueue::itemSize: "item", "none" or "handle"
  queue,              \* FakeQueue::queue, the std::deque of messages
  queueSetContainer,  \* FakeQueue::queueSetContainer
  aborted,            \* the process died of heap corruption
  credit              \* ghost: selections of a member not yet followed by
                      \* the receive (or take) that answers them

vars == <<live, queueLength, itemSize, queue, queueSetContainer, aborted, credit>>

Messages == Items \cup {Token} \cup Handles

Init ==
  /\ live = {}
  /\ queueLength = [h \in Handles |-> 0]
  /\ itemSize = [h \in Handles |-> "item"]
  /\ queue = [h \in Handles |-> << >>]
  /\ queueSetContainer = [h \in Handles |-> NULL]
  /\ aborted = FALSE
  /\ credit = [h \in Handles |-> 0]

-----------------------------------------------------------------------------
(* Reading the counters *)

\* Mutant: counters as wide as the caller's integers.
Untruncated(n) == n

\* What a conversion to UBaseType_t leaves of an integer.
Truncate(n) == n % UBaseMod

uxQueueMessagesWaiting(h) == Truncate(Len(queue[h]))

uxQueueSpacesAvailable(h) == Truncate(queueLength[h] - uxQueueMessagesWaiting(h))

\* Mutant: one message too many.
HasRoomOffByOne(h) == Len(queue[h]) <= queueLength[h]

\* The negation of the errQUEUE_FULL test; deque::size() is not truncated.
HasRoom(h) == Len(queue[h]) < queueLength[h]

IsSet(h) == itemSize[h] = "handle"

Members(s) == {h \in live : queueSetContainer[h] = s}

\* Mutant: a member that has told its set of a message is not told of again.
AnnounceFirst(h, q) ==
  LET s == queueSetContainer[h]
  IN  IF s # NULL /\ HasRoom(s) /\ \A i \in 1 .. Len(q[s]) : q[s][i] # h
      THEN [q EXCEPT ![s] = Append(@, h)] ELSE q

\* The queues once h, whose message is already stored in q, told its set: the
\* nested xQueueGenericSend fails when the set is full and nobody looks.
Announce(h, q) ==
  LET s == queueSetContainer[h]
  IN  IF s # NULL /\ HasRoom(s) THEN [q EXCEPT ![s] = Append(@, h)] ELSE q

-----------------------------------------------------------------------------
(* Creation and deletion *)

\* A fresh FakeQueue at address h holding the messages msgs.
Construct(h, length, size, msgs) ==
  /\ ~aborted
  /\ h \notin live
  /\ live' = live \cup {h}
  /\ queueLength' = [queueLength EXCEPT ![h] = Truncate(length)]
  /\ itemSize' = [itemSize EXCEPT ![h] = size]
  /\ queue' = [queue EXCEPT ![h] = msgs]
  /\ UNCHANGED <<queueSetContainer, aborted, credit>>

xQueueGenericCreate(h, length) == Construct(h, length, "item", << >>)

xQueueCreateSet(h, length) == Construct(h, length, "handle", << >>)

\* The loop gives initialCount times; gives beyond maxCount are refused.
InitialTokens(maxCount, initialCount) ==
  Min({Truncate(maxCount), Truncate(initialCount)})

xQueueCreateCountingSemaphore(h, maxCount, initialCount) ==
  Construct(h, maxCount, "none",
            [i \in 1 .. InitialTokens(maxCount, initialCount) |-> Token])

\* Clients unlink a queue from its set before they delete either of them.
vQueueDelete(h) ==
  /\ ~aborted
  /\ h \in live
  /\ queueSetContainer[h] = NULL
  /\ Members(h) = {}
  /\ live' = live \ {h}
  /\ queueLength' = [queueLength EXCEPT ![h] = 0]
  /\ itemSize' = [itemSize EXCEPT ![h] = "item"]
  /\ queue' = [queue EXCEPT ![h] = << >>]
  /\ credit' = [credit EXCEPT ![h] = 0]
  /\ UNCHANGED <<queueSetContainer, aborted>>

-----------------------------------------------------------------------------
(* Sending: xQueueSend, xQueueOverwrite, xSemaphoreGive, xQueueGiveFromISR *)

\* Nobody but the library sends to a set.
Payload(h) == IF itemSize[h] = "none" THEN {Token} ELSE Items

Sendable(h, item) == ~aborted /\ h \in live /\ ~IsSet(h) /\ item \in Payload(h)

SendToBack(h, item) ==
  /\ Sendable(h, item)
  /\ HasRoom(h)
  /\ queue' = Announce(h, [queue EXCEPT ![h] = Append(@, item)])
  /\ UNCHANGED <<live, queueLength, itemSize, queueSetContainer, aborted, credit>>

SendToFront(h, item) ==
  /\ Sendable(h, item)
  /\ HasRoom(h)
  /\ queue' = Announce(h, [queue EXCEPT ![h] = <<item>> \o @])
  /\ UNCHANGED <<live, queueLength, itemSize, queueSetContainer, aborted, credit>>

\* xSemaphoreGive by another name: without a message only semaphores accept it.
xQueueGiveFromISR(h) == itemSize[h] = "none" /\ SendToBack(h, Token)

MayOverwrite(h) ==
  /\ queueLength[h] = 1
  /\ queueSetContainer[h] = NULL \/ "overwriteMember" \in Liberties

\* The mailbox is full: its message is replaced, and its set told once more.
Overwrite(h, item) ==
  /\ Sendable(h, item)
  /\ MayOverwrite(h)
  /\ queue[h] # << >>
  /\ queue' = Announce(h, [queue EXCEPT ![h] = <<item>> \o Tail(@)])
  /\ UNCHANGED <<live, queueLength, itemSize, queueSetContainer, aborted, credit>>

\* The mailbox is empty: pop_front() of an empty deque is undefined.  With
\* libstdc++ either the destructor of the element that is not there frees what
\* was freed already and the process aborts, or the deque is left a negative
\* size which the following push_front() brings back to zero: the call returns
\* pdTRUE, tells the set, and the message is nowhere.
OverwriteEmpty(h, item) ==
  /\ Sendable(h, item)
  /\ MayOverwrite(h)
  /\ "overwriteEmpty" \in Liberties
  /\ queue[h] = << >>
  /\ \/ aborted' = TRUE /\ UNCHANGED queue
     \/ aborted' = aborted /\ queue' = Announce(h, queue)
  /\ UNCHANGED <<live, queueLength, itemSize, queueSetContainer, credit>>

-----------------------------------------------------------------------------
(* Receiving: xQueueReceive, xSemaphoreTake (the ticks are ignored) *)

\* A client of a set reads a member once for every time it was selected.
MayRead(h) ==
  \/ queueSetContainer[h] = NULL
  \/ credit[h] > 0
  \/ "readUnselected" \in Liberties

SpendCredit(h) == [credit EXCEPT ![h] = IF @ > 0 THEN @ - 1 ELSE 0]

xQueueReceive(h) ==
  /\ ~aborted
  /\ h \in live /\ ~IsSet(h)
  /\ MayRead(h)
  /\ queue[h] # << >>
  /\ queue' = [queue EXCEPT ![h] = Tail(@)]
  /\ credit' = SpendCredit(h)
  /\ UNCHANGED <<live, queueLength, itemSize, queueSetContainer, aborted>>

-----------------------------------------------------------------------------
(* Queue sets *)

\* The places of h, one for each message that fits in.
Places(h) == {h} \X (1 .. queueLength[h])

\* The room the members of s have together.
Subscribed(s) == Cardinality(UNION {Places(m) : m \in Members(s)})

\* Mutant: a queue may bring its messages along.
MayJoinLoaded(h) == queueSetContainer[h] = NULL

\* The code accepts a queue that is in no set and empty.  That s is a set, h
\* is none, and s has room for all its members can send is up to the client.
MayJoin(h) == queueSetContainer[h] = NULL /\ queue[h] = << >>

xQueueAddToSet(h, s) ==
  /\ ~aborted
  /\ {h, s} \subseteq live /\ ~IsSet(h) /\ IsSet(s)
  /\ MayJoin(h)
  /\ \/ "oversubscribe" \in Liberties
     \/ Subscribed(s) + queueLength[h] <= queueLength[s]
  /\ queueSetContainer' = [queueSetContainer EXCEPT ![h] = s]
  /\ UNCHANGED <<live, queueLength, itemSize, queue, aborted, credit>>

\* Mutant: a queue may leave with its events still in the set.
MayLeaveLoaded(h, s) == queueSetContainer[h] = s

MayLeave(h, s) == queueSetContainer[h] = s /\ queue[h] = << >>

xQueueRemoveFromSet(h, s) ==
  /\ ~aborted
  /\ {h, s} \subseteq live
  /\ MayLeave(h, s)
  /\ queueSetContainer' = [queueSetContainer EXCEPT ![h] = NULL]
  /\ UNCHANGED <<live, queueLength, itemSize, queue, aborted, credit>>

\* Mutant: the event is read and not removed.
SelectByPeek(s) ==
  /\ ~aborted
  /\ s \in live /\ IsSet(s)
  /\ queue[s] # << >>
  /\ credit[Head(queue[s])] < MaxCredit
  /\ credit' = [credit EXCEPT ![Head(queue[s])] = @ + 1]
  /\ UNCHANGED <<live, queueLength, itemSize, queue, queueSetContainer, aborted>>

\* The oldest event leaves the set and sends the client to that member.
xQueueSelectFromSet(s) ==
  /\ ~aborted
  /\ s \in live /\ IsSet(s)
  /\ queue[s] # << >>
  /\ credit[Head(queue[s])] < MaxCredit
  /\ queue' = [queue EXCEPT ![s] = Tail(@)]
  /\ credit' = [credit EXCEPT ![Head(queue[s])] = @ + 1]
  /\ UNCHANGED <<live, queueLength, itemSize, queueSetContainer, aborted>>

-----------------------------------------------------------------------------
Next ==
  \E h \in Handles :
    \/ \E n \in Lengths : xQueueGenericCreate(h, n)
    \/ \E n \in Lengths : xQueueCreateSet(h, n)
    \/ \E max, initial \in Lengths : xQueueCreateCountingSemaphore(h, max, initial)
    \/ vQueueDelete(h)
    \/ \E item \in Items \cup {Token} : SendToBack(h, item)
    \/ xQueueGiveFromISR(h)
    \/ \E item \in Items \cup {Token} : SendToFront(h, item)
    \/ \E item \in Items \cup {Token} : Overwrite(h, item)
    \/ \E item \in Items \cup {Token} : OverwriteEmpty(h, item)
    \/ xQueueReceive(h)
    \/ \E s \in Handles : xQueueAddToSet(h, s)
    \/ \E s \in Handles : xQueueRemoveFromSet(h, s)
    \/ xQueueSelectFromSet(h)

Spec == Init /\ [][Next]_vars

-----------------------------------------------------------------------------
(* Properties *)

\* How often the handle h is announced in the queue q of a set.
Occurrences(h, q) == Cardinality({i \in 1 .. Len(q) : q[i] = h})

\* Type invariant of the FakeQueue fields and of the ghost credit.
TypeOK ==
  /\ live \subseteq Handles
  /\ queueLength \in [Handles -> 0 .. UBaseMod - 1]
  /\ itemSize \in [Handles -> {"item", "none", "handle"}]
  /\ queue \in [Handles -> Seq(Messages)]
  /\ queueSetContainer \in [Handles -> live \cup {NULL}]
  /\ aborted \in BOOLEAN
  /\ credit \in [Handles -> 0 .. MaxCredit]

\* No sequence of legal calls puts more messages into a queue, a semaphore or
\* a set than its (truncated) length, so that the 8-bit counters callers read
\* are exact: waiting plus available is the length, without wrapping.
CountsAreExact ==
  \A h \in live :
    /\ uxQueueMessagesWaiting(h) = Len(queue[h])
    /\ uxQueueMessagesWaiting(h) + uxQueueSpacesAvailable(h) = queueLength[h]

\* What a set holds are handles of live queues that are members of it now:
\* xQueueSelectFromSet never returns a deleted queue, one that has left, or an
\* address that was reused for another queue meanwhile.
EntriesAreMembers ==
  \A s \in live : IsSet(s) =>
    \A i \in 1 .. Len(queue[s]) : queue[s][i] \in Members(s)

\* Every event of a set has its message: a client that receives from the queue
\* each xQueueSelectFromSet returned always gets one.
NoPhantomEvent ==
  \A s \in live : \A h \in Members(s) :
    Occurrences(h, queue[s]) + credit[h] <= Len(queue[h])

\* Every message of a member has its event: a client that waits on the set
\* only, as an active object with one blocking call does, misses none.
NoLostEvent ==
  \A s \in live : \A h \in Members(s) :
    Len(queue[h]) <= Occurrences(h, queue[s]) + credit[h]

\* xQueueOverwrite, which cannot fail, leaves the message in the mailbox.
OverwriteStoresMessage ==
  [][\A h \in Handles, item \in Items :
       Overwrite(h, item) \/ OverwriteEmpty(h, item) => queue'[h] = <<item>>]_vars

-----------------------------------------------------------------------------
(* Queue sets implement QueueSet *)

QS == INSTANCE QueueSet WITH
        Queues <- Handles,
        memberOf <- queueSetContainer,
        stored <- [h \in Handles |->
                     IF queueSetContainer[h] = NULL THEN 0 ELSE Len(queue[h])],
        announced <- [s \in Handles |-> IF IsSet(s) THEN queue[s] ELSE << >>],
        claimed <- credit

\* Each message of a member is announced with its send, however full the set
\* is, and is there for the client that claims the announcement; joining,
\* leaving, deletion and the reuse of addresses leave no trace.
ImplementsQueueSet == QS!Spec
=============================================================================
