--------------------------- MODULE FakeQueue_proofs ---------------------------
(* Theorems about FakeQueue, for any allocator, any width of UBaseType_t and  *)
(* any lengths.                                                               *)
EXTENDS FakeQueue, FiniteSetTheorems, SequenceTheorems, TLAPS

-----------------------------------------------------------------------------
(* Conversions to UBaseType_t *)

LEMMA TruncateRange == \A n \in Int : Truncate(n) \in 0 .. UBaseMod - 1
  BY WidthAssumption DEF Truncate

LEMMA TruncateSmall == \A n \in 0 .. UBaseMod - 1 : Truncate(n) = n
  BY WidthAssumption DEF Truncate

\* The loop of xQueueCreateCountingSemaphore never overfills the semaphore.
LEMMA InitialTokensBound ==
  ASSUME NEW maxCount \in Nat, NEW initialCount \in Nat
  PROVE  InitialTokens(maxCount, initialCount) \in 0 .. Truncate(maxCount)
<1> DEFINE a == Truncate(maxCount)
           b == Truncate(initialCount)
<1>1. a \in Nat /\ b \in Nat
  BY TruncateRange, WidthAssumption
<1> HIDE DEF a, b
<1>2. Min({a, b}) \in {a, b} /\ Min({a, b}) <= a
  BY <1>1 DEF Min
<1> QED
  BY <1>1, <1>2 DEF InitialTokens, a, b

-----------------------------------------------------------------------------
(* How often a handle occurs in the queue of a set *)

LEMMA OccurrencesFinite ==
  ASSUME NEW S, NEW q \in Seq(S), NEW h
  PROVE  /\ IsFiniteSet({i \in 1 .. Len(q) : q[i] = h})
         /\ Occurrences(h, q) \in Nat
<1>1. Len(q) \in Nat /\ IsFiniteSet(1 .. Len(q))
  BY LenProperties, FS_Interval
<1>2. IsFiniteSet({i \in 1 .. Len(q) : q[i] = h})
  BY <1>1, FS_Subset
<1> QED
  BY <1>2, FS_CardinalityType DEF Occurrences

LEMMA OccurrencesNone ==
  ASSUME NEW S, NEW q \in Seq(S), NEW h, \A i \in 1 .. Len(q) : q[i] # h
  PROVE  Occurrences(h, q) = 0
<1>1. {i \in 1 .. Len(q) : q[i] = h} = {}
  OBVIOUS
<1> QED
  BY <1>1, FS_EmptySet DEF Occurrences

LEMMA OccurrencesZero ==
  ASSUME NEW S, NEW q \in Seq(S), NEW h, Occurrences(h, q) = 0
  PROVE  \A i \in 1 .. Len(q) : q[i] # h
<1> DEFINE A == {i \in 1 .. Len(q) : q[i] = h}
<1>1. IsFiniteSet(A) /\ Cardinality(A) = 0
  BY OccurrencesFinite DEF Occurrences
<1>2. A = {}
  <2> HIDE DEF A
  <2> QED
    BY <1>1, FS_EmptySet
<1> QED
  BY <1>2

LEMMA OccurrencesAppend ==
  ASSUME NEW S, NEW q \in Seq(S), NEW e \in S, NEW h
  PROVE  /\ e = h => Occurrences(h, Append(q, e)) = Occurrences(h, q) + 1
         /\ e # h => Occurrences(h, Append(q, e)) = Occurrences(h, q)
<1> DEFINE A == {i \in 1 .. Len(q) : q[i] = h}
           r == Append(q, e)
           B == {i \in 1 .. Len(r) : r[i] = h}
<1>1. /\ Len(q) \in Nat
      /\ Len(r) = Len(q) + 1
      /\ \A i \in 1 .. Len(q) : r[i] = q[i]
      /\ r[Len(q) + 1] = e
  BY LenProperties, AppendProperties
<1>2. IsFiniteSet(A) /\ Cardinality(A) \in Nat
  BY OccurrencesFinite DEF Occurrences
<1>3. CASE e = h
  <2>1. B = A \cup {Len(q) + 1}
    <3>1. ASSUME NEW i \in B PROVE i \in A \cup {Len(q) + 1}
      <4>1. i \in 1 .. Len(q) + 1 /\ r[i] = h
        BY <1>1
      <4> QED
        BY <1>1, <4>1
    <3>2. A \subseteq B
      BY <1>1
    <3>3. Len(q) + 1 \in B
      BY <1>1, <1>3
    <3> QED
      BY <3>1, <3>2, <3>3
  <2>2. Len(q) + 1 \notin A
    BY <1>1
  <2>3. Cardinality(B) = Cardinality(A) + 1
    BY <1>2, <2>1, <2>2, FS_AddElement
  <2> QED
    BY <1>3, <2>3 DEF Occurrences
<1>4. CASE e # h
  <2>1. B = A
    <3>1. ASSUME NEW i \in B PROVE i \in A
      <4>1. i \in 1 .. Len(q) + 1 /\ r[i] = h /\ i # Len(q) + 1
        BY <1>1, <1>4
      <4> QED
        BY <1>1, <4>1
    <3>2. A \subseteq B
      BY <1>1
    <3> QED
      BY <3>1, <3>2
  <2>2. Cardinality(B) = Cardinality(A)
    <3> HIDE DEF A, B
    <3> QED
      BY <2>1
  <2> QED
    BY <1>4, <2>2 DEF Occurrences
<1> QED
  BY <1>3, <1>4

LEMMA OccurrencesTail ==
  ASSUME NEW S, NEW q \in Seq(S), q # << >>, NEW h
  PROVE  /\ Head(q) = h => Occurrences(h, q) = Occurrences(h, Tail(q)) + 1
         /\ Head(q) # h => Occurrences(h, q) = Occurrences(h, Tail(q))
<1> DEFINE A == {i \in 1 .. Len(q) : q[i] = h}
           t == Tail(q)
           B == {i \in 1 .. Len(t) : t[i] = h}
           f == [i \in A \ {1} |-> i - 1]
<1>1. /\ Len(q) \in Nat \ {0}
      /\ Len(t) = Len(q) - 1
      /\ \A i \in 1 .. Len(t) : t[i] = q[i + 1]
      /\ Head(q) = q[1]
  BY EmptySeq, LenProperties, HeadTailProperties
<1>2. IsFiniteSet(A) /\ IsFiniteSet(B) /\ Cardinality(B) \in Nat
  <2>1. t \in Seq(S)
    BY HeadTailProperties
  <2> QED
    BY <2>1, OccurrencesFinite DEF Occurrences
<1>3. ExistsBijection(A \ {1}, B)
  <2>1. f \in [A \ {1} -> B]
    BY <1>1
  <2>2. \A i, j \in A \ {1} : f[i] = f[j] => i = j
    BY <1>1
  <2>3. ASSUME NEW j \in B PROVE \E i \in A \ {1} : f[i] = j
    <3>1. j + 1 \in A \ {1}
      BY <1>1
    <3>2. f[j + 1] = j
      BY <3>1
    <3> QED
      BY <3>1, <3>2
  <2>4. f \in Bijection(A \ {1}, B)
    BY <2>1, <2>2, <2>3 DEF Bijection, Injection, Surjection, IsInjective
  <2> QED
    BY <2>4 DEF ExistsBijection
<1>4. /\ Cardinality(B) = Cardinality(A \ {1})
      /\ Cardinality(A \ {1}) = IF 1 \in A THEN Cardinality(A) - 1 ELSE Cardinality(A)
  <2> HIDE DEF A, B
  <2>1. /\ IsFiniteSet(A \ {1})
        /\ Cardinality(A \ {1}) = IF 1 \in A THEN Cardinality(A) - 1 ELSE Cardinality(A)
    BY <1>2, FS_RemoveElement
  <2>2. Cardinality(B) = Cardinality(A \ {1})
    BY <1>3, <2>1, FS_Bijection
  <2> QED
    BY <2>1, <2>2
<1>5. Cardinality(A) \in Nat
  BY <1>2, FS_CardinalityType
<1>6. 1 \in A <=> Head(q) = h
  BY <1>1
<1>7. /\ Head(q) = h => Cardinality(A) = Cardinality(B) + 1
      /\ Head(q) # h => Cardinality(A) = Cardinality(B)
  <2> HIDE DEF A, B
  <2> QED
    BY <1>2, <1>4, <1>5, <1>6
<1> QED
  BY <1>7 DEF Occurrences

-----------------------------------------------------------------------------
(* The part of the invariant that holds whatever liberties clients take *)

\* Queues that are linked are live; only sets have members; sets are no members.
Linked ==
  \A h \in Handles : queueSetContainer[h] # NULL =>
    /\ h \in live /\ ~IsSet(h)
    /\ queueSetContainer[h] \in live /\ IsSet(queueSetContainer[h])

NotOverfull == \A h \in live : Len(queue[h]) <= queueLength[h]

BaseInv == TypeOK /\ Linked /\ NotOverfull

\* What a send leaves in the queues, and in the set's queue in particular.
LEMMA AnnounceEffect ==
  ASSUME BaseInv, NEW h \in live, ~IsSet(h), NEW m \in Seq(Messages),
         queue' = Announce(h, [queue EXCEPT ![h] = m])
  PROVE  /\ queue' \in [Handles -> Seq(Messages)]
         /\ queue'[h] = m
         /\ \A g \in Handles \ {h} :
              \/ queue'[g] = queue[g]
              \/ /\ g = queueSetContainer[h] /\ HasRoom(g)
                 /\ queue'[g] = Append(queue[g], h)
<1>1. h \in Handles /\ queue \in [Handles -> Seq(Messages)]
  BY DEF BaseInv, TypeOK
<1>2. h \in Messages
  BY <1>1 DEF Messages
<1> DEFINE s == queueSetContainer[h]
           stored == [queue EXCEPT ![h] = m]
<1>3. stored \in [Handles -> Seq(Messages)]
  BY <1>1
<1>4. CASE s # NULL /\ HasRoom(s)
  <2>1. s \in Handles /\ s # h
    BY <1>1, <1>4 DEF BaseInv, TypeOK, Linked
  <2>2. queue' = [stored EXCEPT ![s] = Append(@, h)]
    BY <1>4 DEF Announce
  <2>3. stored[s] = queue[s]
    BY <1>1, <2>1
  <2>4. Append(stored[s], h) \in Seq(Messages)
    BY <1>2, <1>3, <2>1, AppendProperties
  <2> QED
    BY <1>1, <1>3, <1>4, <2>1, <2>2, <2>3, <2>4
<1>5. CASE ~(s # NULL /\ HasRoom(s))
  <2>1. queue' = stored
    BY <1>5 DEF Announce
  <2> QED
    BY <1>1, <1>3, <2>1
<1> QED
  BY <1>4, <1>5

\* A send that puts the messages m into h keeps the base invariant.
LEMMA SendKeepsBase ==
  ASSUME BaseInv, NEW h \in live, ~IsSet(h), NEW m \in Seq(Messages),
         Len(m) <= queueLength[h],
         queue' = Announce(h, [queue EXCEPT ![h] = m]),
         aborted' \in BOOLEAN,
         UNCHANGED <<live, queueLength, itemSize, queueSetContainer, credit>>
  PROVE  BaseInv'
<1>1. /\ queue' \in [Handles -> Seq(Messages)]
      /\ queue'[h] = m
      /\ \A g \in Handles \ {h} :
           \/ queue'[g] = queue[g]
           \/ HasRoom(g) /\ queue'[g] = Append(queue[g], h)
  BY AnnounceEffect
<1>2. TypeOK'
  BY <1>1 DEF BaseInv, TypeOK
<1>3. Linked'
  BY DEF BaseInv, Linked, IsSet
<1>4. ASSUME NEW g \in live PROVE Len(queue'[g]) <= queueLength[g]
  <2>1. g \in Handles /\ h \in Messages /\ queue[g] \in Seq(Messages)
    BY DEF BaseInv, TypeOK, Messages
  <2>2. CASE g = h
    BY <1>1, <2>2
  <2>3. CASE g # h /\ queue'[g] = queue[g]
    BY <2>3 DEF BaseInv, NotOverfull
  <2>4. CASE g # h /\ HasRoom(g) /\ queue'[g] = Append(queue[g], h)
    <3>1. Len(queue'[g]) = Len(queue[g]) + 1 /\ Len(queue[g]) \in Nat
      BY <2>1, <2>4, AppendProperties, LenProperties
    <3>2. queueLength[g] \in Nat
      BY <2>1, WidthAssumption DEF BaseInv, TypeOK
    <3> QED
      BY <2>4, <3>1, <3>2 DEF HasRoom
  <2> QED
    BY <1>1, <2>1, <2>2, <2>3, <2>4
<1>5. NotOverfull'
  BY <1>4 DEF NotOverfull
<1> QED
  BY <1>2, <1>3, <1>5 DEF BaseInv

\* What SendToBack, SendToFront and Overwrite leave in the queue itself.
LEMMA StoredMessages ==
  ASSUME BaseInv, NEW h \in live, NEW item \in Items \cup {Token}
  PROVE  /\ queue[h] \in Seq(Messages)
         /\ Len(queue[h]) \in Nat
         /\ queueLength[h] \in Nat
         /\ Append(queue[h], item) \in Seq(Messages)
         /\ Len(Append(queue[h], item)) = Len(queue[h]) + 1
         /\ <<item>> \o queue[h] \in Seq(Messages)
         /\ Len(<<item>> \o queue[h]) = Len(queue[h]) + 1
         /\ queue[h] # << >> =>
              /\ <<item>> \o Tail(queue[h]) \in Seq(Messages)
              /\ Len(<<item>> \o Tail(queue[h])) = Len(queue[h])
<1>1. queue[h] \in Seq(Messages) /\ Len(queue[h]) \in Nat
  BY LenProperties DEF BaseInv, TypeOK
<1>2. item \in Messages /\ <<item>> \in Seq(Messages) /\ Len(<<item>>) = 1
  BY DEF Messages
<1>3. queueLength[h] \in Nat
  BY WidthAssumption DEF BaseInv, TypeOK
<1>4. queue[h] # << >> => /\ Tail(queue[h]) \in Seq(Messages)
                          /\ Len(Tail(queue[h])) = Len(queue[h]) - 1
  BY <1>1, HeadTailProperties
<1>5. queue[h] # << >> => /\ <<item>> \o Tail(queue[h]) \in Seq(Messages)
                          /\ Len(<<item>> \o Tail(queue[h])) = Len(queue[h])
  BY <1>1, <1>2, <1>4, ConcatProperties
<1>6. /\ <<item>> \o queue[h] \in Seq(Messages)
      /\ Len(<<item>> \o queue[h]) = Len(queue[h]) + 1
  BY <1>1, <1>2, ConcatProperties
<1> QED
  BY <1>1, <1>2, <1>3, <1>5, <1>6, AppendProperties

LEMMA InitEstablishesBase == Init => BaseInv
<1> SUFFICES ASSUME Init PROVE BaseInv
  OBVIOUS
<1>1. queueLength \in [Handles -> 0 .. UBaseMod - 1] /\ credit \in [Handles -> 0 .. MaxCredit]
  BY WidthAssumption, CreditAssumption DEF Init
<1>2. queue \in [Handles -> Seq(Messages)]
  BY DEF Init
<1>3. itemSize \in [Handles -> {"item", "none", "handle"}]
  BY DEF Init
<1>4. live \subseteq Handles /\ queueSetContainer \in [Handles -> live \cup {NULL}]
  BY DEF Init
<1>5. aborted \in BOOLEAN
  BY Zenon DEF Init
<1>6. Linked /\ NotOverfull
  BY DEF Init, Linked, NotOverfull
<1> QED
  BY <1>1, <1>2, <1>3, <1>4, <1>5, <1>6 DEF BaseInv, TypeOK

\* A fresh queue at an address that was not live.
LEMMA ConstructKeepsBase ==
  ASSUME BaseInv, NEW h \in Handles, NEW n \in Nat,
         NEW size \in {"item", "none", "handle"},
         NEW m \in Seq(Messages), Len(m) <= Truncate(n), Construct(h, n, size, m)
  PROVE  BaseInv'
<1>1. Truncate(n) \in 0 .. UBaseMod - 1
  BY TruncateRange
<1>2. TypeOK'
  BY <1>1 DEF Construct, BaseInv, TypeOK
<1>3. Linked'
  BY DEF Construct, BaseInv, TypeOK, Linked, IsSet
<1>4. NotOverfull'
  BY DEF Construct, BaseInv, TypeOK, NotOverfull
<1> QED
  BY <1>2, <1>3, <1>4 DEF BaseInv

LEMMA StepPreservesBase == BaseInv /\ [Next]_vars => BaseInv'
<1> SUFFICES ASSUME BaseInv, [Next]_vars PROVE BaseInv'
  OBVIOUS
<1>1. ASSUME NEW h \in Handles, NEW n \in Lengths, xQueueGenericCreate(h, n) PROVE BaseInv'
  <2>1. n \in Nat /\ << >> \in Seq(Messages) /\ Len(<< >>) <= Truncate(n)
    BY WidthAssumption, TruncateRange
  <2> QED
    BY <1>1, <2>1, ConstructKeepsBase DEF xQueueGenericCreate
<1>2. ASSUME NEW h \in Handles, NEW n \in Lengths, xQueueCreateSet(h, n) PROVE BaseInv'
  <2>1. n \in Nat /\ << >> \in Seq(Messages) /\ Len(<< >>) <= Truncate(n)
    BY WidthAssumption, TruncateRange
  <2> QED
    BY <1>2, <2>1, ConstructKeepsBase DEF xQueueCreateSet
<1>3. ASSUME NEW h \in Handles, NEW max \in Lengths, NEW initial \in Lengths,
             xQueueCreateCountingSemaphore(h, max, initial)
      PROVE  BaseInv'
  <2> DEFINE k == InitialTokens(max, initial)
             m == [i \in 1 .. k |-> Token]
  <2>1. max \in Nat /\ k \in 0 .. Truncate(max) /\ k \in Nat
    BY WidthAssumption, InitialTokensBound
  <2> HIDE DEF k
  <2>2. m \in Seq(Messages) /\ Len(m) = k
    BY <2>1 DEF Messages
  <2> QED
    <3>1. Truncate(max) \in Nat
      BY <2>1, TruncateRange
    <3>2. Len(m) <= Truncate(max)
      BY <2>1, <2>2, <3>1
    <3>3. Construct(h, max, "none", m)
      BY <1>3 DEF xQueueCreateCountingSemaphore, k
    <3> HIDE DEF m
    <3> QED
      BY <2>1, <2>2, <3>2, <3>3, ConstructKeepsBase
<1>4. ASSUME NEW h \in Handles, vQueueDelete(h) PROVE BaseInv'
  <2>1. \A g \in Handles : queueSetContainer[g] # h
    BY <1>4 DEF vQueueDelete, BaseInv, TypeOK, Linked, Members
  <2>2. TypeOK'
    BY <1>4, <2>1, WidthAssumption, CreditAssumption DEF vQueueDelete, BaseInv, TypeOK
  <2>3. Linked'
    BY <1>4, <2>1 DEF vQueueDelete, BaseInv, TypeOK, Linked, IsSet
  <2>4. NotOverfull'
    BY <1>4 DEF vQueueDelete, BaseInv, TypeOK, NotOverfull
  <2> QED
    BY <2>2, <2>3, <2>4 DEF BaseInv
<1>5. ASSUME NEW h \in Handles, NEW item \in Items \cup {Token}, SendToBack(h, item)
      PROVE  BaseInv'
  <2> DEFINE m == Append(queue[h], item)
  <2>1. h \in live /\ ~IsSet(h) /\ aborted' \in BOOLEAN
    BY <1>5 DEF SendToBack, Sendable, BaseInv, TypeOK
  <2>2. m \in Seq(Messages) /\ Len(m) <= queueLength[h]
    BY <1>5, <2>1, StoredMessages DEF SendToBack, HasRoom
  <2>3. queue' = Announce(h, [queue EXCEPT ![h] = m])
    BY <1>5 DEF SendToBack
  <2> HIDE DEF m
  <2> QED
    BY <1>5, <2>1, <2>2, <2>3, SendKeepsBase DEF SendToBack
<1>6. ASSUME NEW h \in Handles, NEW item \in Items \cup {Token}, SendToFront(h, item)
      PROVE  BaseInv'
  <2> DEFINE m == <<item>> \o queue[h]
  <2>1. h \in live /\ ~IsSet(h) /\ aborted' \in BOOLEAN
    BY <1>6 DEF SendToFront, Sendable, BaseInv, TypeOK
  <2>2. m \in Seq(Messages) /\ Len(m) <= queueLength[h]
    BY <1>6, <2>1, StoredMessages DEF SendToFront, HasRoom
  <2>3. queue' = Announce(h, [queue EXCEPT ![h] = m])
    BY <1>6 DEF SendToFront
  <2> HIDE DEF m
  <2> QED
    BY <1>6, <2>1, <2>2, <2>3, SendKeepsBase DEF SendToFront
<1>7. ASSUME NEW h \in Handles, NEW item \in Items \cup {Token}, Overwrite(h, item)
      PROVE  BaseInv'
  <2> DEFINE m == <<item>> \o Tail(queue[h])
  <2>1. h \in live /\ ~IsSet(h) /\ aborted' \in BOOLEAN /\ queue[h] # << >>
    BY <1>7 DEF Overwrite, Sendable, BaseInv, TypeOK
  <2>2. m \in Seq(Messages) /\ Len(m) <= queueLength[h]
    BY <2>1, StoredMessages DEF BaseInv, NotOverfull
  <2>3. queue' = Announce(h, [queue EXCEPT ![h] = m])
    BY <1>7 DEF Overwrite
  <2> HIDE DEF m
  <2> QED
    BY <1>7, <2>1, <2>2, <2>3, SendKeepsBase DEF Overwrite
<1>8. ASSUME NEW h \in Handles, NEW item \in Items \cup {Token}, OverwriteEmpty(h, item)
      PROVE  BaseInv'
  <2>1. /\ h \in live /\ ~IsSet(h) /\ aborted' \in BOOLEAN
        /\ queue[h] \in Seq(Messages) /\ Len(queue[h]) <= queueLength[h]
        /\ queue = [queue EXCEPT ![h] = queue[h]]
    BY <1>8 DEF OverwriteEmpty, Sendable, BaseInv, TypeOK, NotOverfull
  <2>2. CASE queue' = queue
    BY <1>8, <2>1, <2>2 DEF OverwriteEmpty, BaseInv, TypeOK, Linked, IsSet, NotOverfull
  <2>3. CASE queue' = Announce(h, queue)
    <3>1. queue' = Announce(h, [queue EXCEPT ![h] = queue[h]])
      BY <2>1, <2>3
    <3> QED
      BY <1>8, <2>1, <3>1, SendKeepsBase DEF OverwriteEmpty
  <2> QED
    BY <1>8, <2>2, <2>3 DEF OverwriteEmpty
<1>9. ASSUME NEW h \in Handles, xQueueReceive(h) PROVE BaseInv'
  <2>1. /\ h \in live /\ queue[h] \in Seq(Messages) /\ queue[h] # << >>
        /\ queueLength[h] \in Nat
    BY <1>9, WidthAssumption DEF xQueueReceive, BaseInv, TypeOK
  <2>2. Tail(queue[h]) \in Seq(Messages) /\ Len(Tail(queue[h])) <= queueLength[h]
    BY <2>1, HeadTailProperties, LenProperties DEF BaseInv, NotOverfull
  <2>3. credit' \in [Handles -> 0 .. MaxCredit]
    BY <1>9, CreditAssumption DEF xQueueReceive, SpendCredit, BaseInv, TypeOK
  <2> QED
    BY <1>9, <2>2, <2>3 DEF xQueueReceive, BaseInv, TypeOK, Linked, IsSet, NotOverfull
<1>10. ASSUME NEW h \in Handles, NEW s \in Handles, xQueueAddToSet(h, s) PROVE BaseInv'
  BY <1>10, HandlesAssumption
  DEF xQueueAddToSet, MayJoin, BaseInv, TypeOK, Linked, IsSet, NotOverfull
<1>11. ASSUME NEW h \in Handles, NEW s \in Handles, xQueueRemoveFromSet(h, s) PROVE BaseInv'
  BY <1>11
  DEF xQueueRemoveFromSet, MayLeave, BaseInv, TypeOK, Linked, IsSet, NotOverfull
<1>12. ASSUME NEW s \in Handles, xQueueSelectFromSet(s) PROVE BaseInv'
  <2>1. /\ s \in live /\ queue[s] \in Seq(Messages) /\ queue[s] # << >>
        /\ queueLength[s] \in Nat
    BY <1>12, WidthAssumption DEF xQueueSelectFromSet, BaseInv, TypeOK
  <2>2. Tail(queue[s]) \in Seq(Messages) /\ Len(Tail(queue[s])) <= queueLength[s]
    BY <2>1, HeadTailProperties, LenProperties DEF BaseInv, NotOverfull
  <2>3. credit' \in [Handles -> 0 .. MaxCredit]
    <3> DEFINE h == Head(queue[s])
    <3>1. credit' = [credit EXCEPT ![h] = @ + 1] /\ credit[h] < MaxCredit
      BY <1>12 DEF xQueueSelectFromSet
    <3> HIDE DEF h
    <3>2. credit \in [Handles -> 0 .. MaxCredit]
      BY DEF BaseInv, TypeOK
    <3>3. CASE h \in Handles
      BY <3>1, <3>2, <3>3, CreditAssumption
    <3>4. CASE h \notin Handles
      BY <3>1, <3>2, <3>4
    <3> QED
      BY <3>3, <3>4
  <2> QED
    BY <1>12, <2>2, <2>3 DEF xQueueSelectFromSet, BaseInv, TypeOK, Linked, IsSet, NotOverfull
<1>14. ASSUME NEW h \in Handles, xQueueGiveFromISR(h) PROVE BaseInv'
  <2>1. SendToBack(h, Token)
    BY <1>14 DEF xQueueGiveFromISR
  <2> QED
    BY <2>1, <1>5
<1>13. CASE UNCHANGED vars
  BY <1>13 DEF vars, BaseInv, TypeOK, Linked, IsSet, NotOverfull
<1> QED
  BY <1>1, <1>2, <1>3, <1>4, <1>5, <1>6, <1>7, <1>8, <1>9, <1>10, <1>11, <1>12, <1>13,
     <1>14
  DEF Next

LEMMA BaseInvariance == Spec => []BaseInv
  BY InitEstablishesBase, StepPreservesBase, PTL DEF Spec

\* Every field keeps its type, whatever liberties the clients take.
THEOREM TypeCorrect == Spec => []TypeOK
<1>1. BaseInv => TypeOK
  BY DEF BaseInv
<1> QED
  BY <1>1, BaseInvariance, PTL

\* No queue, semaphore or set is ever overfull, and its counters do not wrap.
THEOREM CountersExact == Spec => []CountsAreExact
<1>1. BaseInv => CountsAreExact
  <2> SUFFICES ASSUME BaseInv, NEW h \in live
               PROVE  /\ uxQueueMessagesWaiting(h) = Len(queue[h])
                      /\ uxQueueMessagesWaiting(h) + uxQueueSpacesAvailable(h)
                           = queueLength[h]
    BY DEF CountsAreExact
  <2>1. /\ Len(queue[h]) \in Nat /\ Len(queue[h]) <= queueLength[h]
        /\ queueLength[h] \in 0 .. UBaseMod - 1
    BY LenProperties DEF BaseInv, TypeOK, NotOverfull
  <2>2. uxQueueMessagesWaiting(h) = Len(queue[h])
    BY <2>1, WidthAssumption, TruncateSmall DEF uxQueueMessagesWaiting
  <2>3. uxQueueSpacesAvailable(h) = queueLength[h] - Len(queue[h])
    BY <2>1, <2>2, WidthAssumption, TruncateSmall DEF uxQueueSpacesAvailable
  <2> QED
    BY <2>1, <2>2, <2>3
<1> QED
  BY <1>1, BaseInvariance, PTL

\* As long as nobody overwrites an empty mailbox, an overwrite leaves just the
\* new message in it, whatever set the mailbox is in and however full that is.
THEOREM OverwriteStores ==
  ASSUME "overwriteEmpty" \notin Liberties
  PROVE  Spec => OverwriteStoresMessage
<1> DEFINE Stores ==
      \A h \in Handles, item \in Items :
        Overwrite(h, item) \/ OverwriteEmpty(h, item) => queue'[h] = <<item>>
<1>1. BaseInv => Stores
  <2> SUFFICES ASSUME BaseInv, NEW h \in Handles, NEW item \in Items,
                      Overwrite(h, item) \/ OverwriteEmpty(h, item)
               PROVE  queue'[h] = <<item>>
    OBVIOUS
  <2> DEFINE m == <<item>> \o Tail(queue[h])
  <2>1. /\ h \in live /\ ~IsSet(h) /\ queueLength[h] = 1 /\ queue[h] # << >>
        /\ queue' = Announce(h, [queue EXCEPT ![h] = m])
    BY DEF Overwrite, OverwriteEmpty, Sendable, MayOverwrite
  <2>2. /\ queue[h] \in Seq(Messages) /\ Len(queue[h]) \in Nat
        /\ Len(queue[h]) <= queueLength[h] /\ m \in Seq(Messages)
    BY <2>1, StoredMessages DEF BaseInv, NotOverfull
  <2>3. Len(queue[h]) = 1
    BY <2>1, <2>2, EmptySeq
  <2>4. Tail(queue[h]) \in Seq(Messages) /\ Len(Tail(queue[h])) = 0
    BY <2>1, <2>2, <2>3, HeadTailProperties
  <2>5. Tail(queue[h]) = << >>
    BY <2>4, EmptySeq
  <2>6. item \in Messages /\ <<item>> \in Seq(Messages)
    BY DEF Messages
  <2>7. m = <<item>>
    BY <2>5, <2>6, ConcatEmptySeq
  <2>8. queue'[h] = m
    <3> HIDE DEF m
    <3> QED
      BY <2>1, <2>2, AnnounceEffect
  <2> QED
    BY <2>7, <2>8
<1> HIDE DEF Stores
<1>2. BaseInv => [Stores]_vars
  BY <1>1
<1>3. Spec => [][Stores]_vars
  BY <1>2, BaseInvariance, PTL
<1> QED
  BY <1>3 DEF OverwriteStoresMessage, Stores

-----------------------------------------------------------------------------
(* What a client gets from a queue set if it keeps to two rules: it reads a   *)
(* member only when that was selected, and does not overwrite members.        *)

Careful == "overwriteMember" \notin Liberties /\ "readUnselected" \notin Liberties

\* Selections are outstanding of members only.
CreditIsOfMembers ==
  \A h \in Handles : queueSetContainer[h] = NULL => credit[h] = 0

PromiseInv == EntriesAreMembers /\ NoPhantomEvent /\ CreditIsOfMembers

\* The facts of the base invariant that the following proofs use.
LEMMA BaseFacts ==
  ASSUME BaseInv
  PROVE  /\ live \subseteq Handles /\ NULL \notin live
         /\ \A h \in Handles :
              /\ queue[h] \in Seq(Messages)
              /\ Len(queue[h]) \in Nat
              /\ credit[h] \in Nat
              /\ \A g : Occurrences(g, queue[h]) \in Nat
         /\ \A s \in live : \A h \in Members(s) :
              /\ h \in live /\ h \in Handles /\ queueSetContainer[h] = s
              /\ IsSet(s) /\ ~IsSet(h) /\ h # s
         /\ \A h \in Handles : h \notin live => queueSetContainer[h] = NULL
<1>1. live \subseteq Handles /\ NULL \notin live
  BY HandlesAssumption DEF BaseInv, TypeOK
<1>2. ASSUME NEW h \in Handles
      PROVE  /\ queue[h] \in Seq(Messages)
             /\ Len(queue[h]) \in Nat
             /\ credit[h] \in Nat
             /\ \A g : Occurrences(g, queue[h]) \in Nat
  <2>1. queue[h] \in Seq(Messages) /\ credit[h] \in Nat
    BY CreditAssumption DEF BaseInv, TypeOK
  <2> QED
    BY <2>1, LenProperties, OccurrencesFinite
<1>3. ASSUME NEW s \in live, NEW h \in Members(s)
      PROVE  /\ h \in live /\ h \in Handles /\ queueSetContainer[h] = s
             /\ IsSet(s) /\ ~IsSet(h) /\ h # s
  BY <1>1 DEF Members, BaseInv, Linked
<1>4. \A h \in Handles : h \notin live => queueSetContainer[h] = NULL
  BY DEF BaseInv, Linked
<1> QED
  BY <1>1, <1>2, <1>3, <1>4

\* A send adds a message for every event it adds, except where it overwrites.
LEMMA SendKeepsPromises ==
  ASSUME BaseInv, PromiseInv, NEW h \in live, ~IsSet(h), NEW m \in Seq(Messages),
         queueSetContainer[h] = NULL \/ Len(m) = Len(queue[h]) + 1,
         queue' = Announce(h, [queue EXCEPT ![h] = m]),
         UNCHANGED <<live, queueLength, itemSize, queueSetContainer, credit>>
  PROVE  PromiseInv'
<1>1. /\ queue' \in [Handles -> Seq(Messages)]
      /\ queue'[h] = m
      /\ \A g \in Handles \ {h} :
           \/ queue'[g] = queue[g]
           \/ /\ g = queueSetContainer[h] /\ HasRoom(g)
              /\ queue'[g] = Append(queue[g], h)
  BY AnnounceEffect
<1>2. h \in Handles /\ h \in Messages
  BY DEF BaseInv, TypeOK, Messages
<1>3. \A s : IsSet(s)' = IsSet(s) /\ Members(s)' = Members(s)
  BY DEF IsSet, Members
<1>4. ASSUME NEW s \in live, IsSet(s), NEW i \in 1 .. Len(queue'[s])
      PROVE  queue'[s][i] \in Members(s)
  <2>1. s \in Handles \ {h} /\ queue[s] \in Seq(Messages)
    BY <1>4, BaseFacts
  <2>2. CASE queue'[s] = queue[s]
    BY <1>4, <2>2 DEF PromiseInv, EntriesAreMembers
  <2>3. CASE s = queueSetContainer[h] /\ queue'[s] = Append(queue[s], h)
    <3>1. h \in Members(s)
      BY <2>3 DEF Members
    <3>2. /\ Len(queue[s]) \in Nat /\ Len(queue'[s]) = Len(queue[s]) + 1
          /\ \A j \in 1 .. Len(queue[s]) : queue'[s][j] = queue[s][j]
          /\ queue'[s][Len(queue[s]) + 1] = h
      <4>1. /\ Len(Append(queue[s], h)) = Len(queue[s]) + 1
            /\ \A j \in 1 .. Len(queue[s]) : Append(queue[s], h)[j] = queue[s][j]
            /\ Append(queue[s], h)[Len(queue[s]) + 1] = h
        BY <1>2, <2>1, AppendProperties
      <4> QED
        BY <2>1, <2>3, <4>1, LenProperties
    <3>3. CASE i = Len(queue[s]) + 1
      BY <3>1, <3>2, <3>3
    <3>4. CASE i # Len(queue[s]) + 1
      <4>1. i \in 1 .. Len(queue[s])
        BY <1>4, <3>2, <3>4
      <4> QED
        BY <1>4, <3>2, <4>1 DEF PromiseInv, EntriesAreMembers
    <3> QED
      BY <3>3, <3>4
  <2> QED
    BY <1>1, <2>1, <2>2, <2>3
<1>5. ASSUME NEW s \in live, NEW g \in Members(s)
      PROVE  Occurrences(g, queue'[s]) + credit[g] <= Len(queue'[g])
  <2>1. /\ s \in Handles \ {h} /\ g \in Handles /\ queueSetContainer[g] = s
        /\ IsSet(s) /\ ~IsSet(g) /\ s # NULL
        /\ queue[s] \in Seq(Messages) /\ Len(queue[g]) \in Nat
        /\ Occurrences(g, queue[s]) \in Nat /\ credit[g] \in Nat
    BY <1>2, BaseFacts
  <2>2. Occurrences(g, queue[s]) + credit[g] <= Len(queue[g])
    BY DEF PromiseInv, NoPhantomEvent
  <2>3. CASE g = h
    <3>1. Len(queue'[g]) = Len(queue[g]) + 1
      BY <1>1, <2>1, <2>3
    <3>2. Occurrences(g, Append(queue[s], h)) = Occurrences(g, queue[s]) + 1
      BY <1>2, <2>1, <2>3, OccurrencesAppend
    <3>3. queue'[s] = queue[s] \/ queue'[s] = Append(queue[s], h)
      BY <1>1, <2>1
    <3>4. \/ Occurrences(g, queue'[s]) = Occurrences(g, queue[s])
          \/ Occurrences(g, queue'[s]) = Occurrences(g, queue[s]) + 1
      BY <3>2, <3>3
    <3> QED
      BY <2>1, <2>2, <3>1, <3>4
  <2>4. CASE g # h
    <3>1. queue'[g] = queue[g]
      <4>1. g # queueSetContainer[h]
        BY <1>2, <2>1, HandlesAssumption DEF BaseInv, Linked
      <4> QED
        BY <1>1, <2>1, <2>4, <4>1
    <3>2. Occurrences(g, queue'[s]) = Occurrences(g, queue[s])
      <4>1. CASE queue'[s] = queue[s]
        BY <4>1
      <4>2. CASE queue'[s] = Append(queue[s], h)
        <5>1. Occurrences(g, Append(queue[s], h)) = Occurrences(g, queue[s])
          BY <1>2, <2>1, <2>4, OccurrencesAppend
        <5> QED
          BY <4>2, <5>1
      <4> QED
        BY <1>1, <2>1, <4>1, <4>2
    <3> QED
      BY <2>2, <3>1, <3>2
  <2> QED
    BY <2>3, <2>4
<1>6. EntriesAreMembers'
  BY <1>3, <1>4 DEF EntriesAreMembers
<1>7. NoPhantomEvent'
  BY <1>3, <1>5 DEF NoPhantomEvent
<1>8. CreditIsOfMembers'
  BY DEF PromiseInv, CreditIsOfMembers
<1> QED
  BY <1>6, <1>7, <1>8 DEF PromiseInv

\* A fresh queue has no members and is one of nothing.
LEMMA ConstructKeepsPromises ==
  ASSUME BaseInv, PromiseInv, NEW h \in Handles, NEW n,
         NEW size, NEW m, size = "handle" => m = << >>, Construct(h, n, size, m)
  PROVE  PromiseInv'
<1>1. /\ h \notin live /\ live' = live \cup {h} /\ queue'[h] = m
      /\ itemSize'[h] = size
      /\ \A g \in Handles \ {h} : queue'[g] = queue[g] /\ itemSize'[g] = itemSize[g]
      /\ queueSetContainer' = queueSetContainer /\ credit' = credit
  BY DEF Construct, BaseInv, TypeOK
<1>2. queueSetContainer[h] = NULL /\ \A g \in Handles : queueSetContainer[g] # h
  BY <1>1, BaseFacts, HandlesAssumption DEF BaseInv, Linked
<1>3. /\ \A s \in live : Members(s)' = Members(s)
      /\ Members(h)' = {}
      /\ live \subseteq Handles /\ NULL \notin live
  BY <1>1, <1>2, BaseFacts DEF Members
<1>4. EntriesAreMembers'
  <2> SUFFICES ASSUME NEW s \in live', IsSet(s)', NEW i \in 1 .. Len(queue'[s])
               PROVE  queue'[s][i] \in Members(s)'
    BY DEF EntriesAreMembers
  <2>1. CASE s = h
    BY <1>1, <2>1 DEF IsSet
  <2>2. CASE s # h
    <3>1. s \in live /\ IsSet(s) /\ queue'[s] = queue[s] /\ Members(s)' = Members(s)
      BY <1>1, <1>3, <2>2 DEF IsSet
    <3> QED
      BY <3>1 DEF PromiseInv, EntriesAreMembers
  <2> QED
    BY <2>1, <2>2
<1>5. NoPhantomEvent'
  <2> SUFFICES ASSUME NEW s \in live', NEW g \in Members(s)'
               PROVE  Occurrences(g, queue'[s]) + credit'[g] <= Len(queue'[g])
    BY DEF NoPhantomEvent
  <2>1. s \in live /\ g \in Members(s)
    BY <1>1, <1>3
  <2>2. g \in live /\ s # h /\ g # h /\ {s, g} \subseteq Handles
    BY <1>1, <2>1, BaseFacts
  <2>3. queue'[s] = queue[s] /\ queue'[g] = queue[g] /\ credit'[g] = credit[g]
    BY <1>1, <2>2
  <2> QED
    BY <2>1, <2>3 DEF PromiseInv, NoPhantomEvent
<1>6. CreditIsOfMembers'
  BY <1>1 DEF PromiseInv, CreditIsOfMembers
<1> QED
  BY <1>4, <1>5, <1>6 DEF PromiseInv

LEMMA DeleteKeepsPromises ==
  ASSUME BaseInv, PromiseInv, NEW h \in Handles, vQueueDelete(h)
  PROVE  PromiseInv'
<1>1. /\ h \in live /\ live' = live \ {h} /\ credit'[h] = 0
      /\ \A g \in Handles \ {h} : /\ queue'[g] = queue[g] /\ itemSize'[g] = itemSize[g]
                                  /\ credit'[g] = credit[g]
      /\ queueSetContainer' = queueSetContainer
      /\ queueSetContainer[h] = NULL
  BY DEF vQueueDelete, BaseInv, TypeOK
<1>2. \A s \in live \ {h} : Members(s)' = Members(s)
  BY <1>1, BaseFacts DEF Members
<1>3. EntriesAreMembers'
  BY <1>1, <1>2, BaseFacts DEF EntriesAreMembers, PromiseInv, IsSet
<1>4. NoPhantomEvent'
  <2> SUFFICES ASSUME NEW s \in live', NEW g \in Members(s)'
               PROVE  Occurrences(g, queue'[s]) + credit'[g] <= Len(queue'[g])
    BY DEF NoPhantomEvent
  <2>1. s \in live /\ s # h /\ g \in Members(s)
    BY <1>1, <1>2
  <2>2. g # h /\ {s, g} \subseteq Handles
    BY <1>1, <2>1, BaseFacts
  <2>3. queue'[s] = queue[s] /\ queue'[g] = queue[g] /\ credit'[g] = credit[g]
    BY <1>1, <2>1, <2>2
  <2> QED
    BY <2>1, <2>3 DEF PromiseInv, NoPhantomEvent
<1>5. CreditIsOfMembers'
  BY <1>1 DEF PromiseInv, CreditIsOfMembers
<1> QED
  BY <1>3, <1>4, <1>5 DEF PromiseInv

\* A receive takes a message from a member for a selection that it answers.
LEMMA ReceiveKeepsPromises ==
  ASSUME BaseInv, PromiseInv, Careful, NEW h \in Handles, xQueueReceive(h)
  PROVE  PromiseInv'
<1>1. /\ h \in live /\ ~IsSet(h) /\ queue[h] # << >>
      /\ queueSetContainer[h] = NULL \/ credit[h] > 0
      /\ queue'[h] = Tail(queue[h])
      /\ credit'[h] = (IF credit[h] > 0 THEN credit[h] - 1 ELSE 0)
      /\ \A g \in Handles \ {h} : queue'[g] = queue[g] /\ credit'[g] = credit[g]
      /\ live' = live /\ itemSize' = itemSize /\ queueSetContainer' = queueSetContainer
  BY DEF xQueueReceive, MayRead, Careful, SpendCredit, BaseInv, TypeOK
<1>2. Len(queue'[h]) = Len(queue[h]) - 1
  BY <1>1, BaseFacts, HeadTailProperties
<1>3. \A s : IsSet(s)' = IsSet(s) /\ Members(s)' = Members(s)
  BY <1>1 DEF IsSet, Members
<1>4. EntriesAreMembers'
  BY <1>1, <1>3, BaseFacts DEF PromiseInv, EntriesAreMembers
<1>5. NoPhantomEvent'
  <2> SUFFICES ASSUME NEW s \in live, NEW g \in Members(s)
               PROVE  Occurrences(g, queue'[s]) + credit'[g] <= Len(queue'[g])
    BY <1>1, <1>3 DEF NoPhantomEvent
  <2>1. /\ s \in Handles /\ g \in Handles /\ s # h /\ queueSetContainer[g] # NULL
        /\ Occurrences(g, queue[s]) \in Nat /\ credit[g] \in Nat
        /\ Len(queue[g]) \in Nat
    BY <1>1, BaseFacts
  <2>2. queue'[s] = queue[s] /\ Occurrences(g, queue[s]) + credit[g] <= Len(queue[g])
    BY <1>1, <2>1 DEF PromiseInv, NoPhantomEvent
  <2>3. CASE g = h
    <3>1. credit'[g] = credit[g] - 1 /\ Len(queue'[g]) = Len(queue[g]) - 1
      BY <1>1, <1>2, <2>1, <2>3
    <3> QED
      BY <2>1, <2>2, <3>1
  <2>4. CASE g # h
    BY <1>1, <2>1, <2>2, <2>4
  <2> QED
    BY <2>3, <2>4
<1>6. CreditIsOfMembers'
  BY <1>1 DEF PromiseInv, CreditIsOfMembers
<1> QED
  BY <1>4, <1>5, <1>6 DEF PromiseInv

\* A queue joins with no message, no event and no selection.
LEMMA AddKeepsPromises ==
  ASSUME BaseInv, PromiseInv, NEW h \in Handles, NEW s \in Handles, xQueueAddToSet(h, s)
  PROVE  PromiseInv'
<1>1. /\ h \in live /\ s \in live /\ ~IsSet(h) /\ IsSet(s)
      /\ queueSetContainer[h] = NULL /\ queue[h] = << >>
      /\ queueSetContainer'[h] = s
      /\ \A g \in Handles \ {h} : queueSetContainer'[g] = queueSetContainer[g]
      /\ live' = live /\ itemSize' = itemSize /\ queue' = queue /\ credit' = credit
  BY DEF xQueueAddToSet, MayJoin, BaseInv, TypeOK
<1>2. \A t \in live : Members(t)' = IF t = s THEN Members(t) \cup {h} ELSE Members(t)
  BY <1>1, BaseFacts DEF Members
<1>3. EntriesAreMembers'
  BY <1>1, <1>2 DEF PromiseInv, EntriesAreMembers, IsSet
<1>4. Occurrences(h, queue[s]) = 0 /\ credit[h] = 0 /\ Len(queue[h]) = 0
  <2>1. h \notin Members(s)
    BY <1>1, BaseFacts DEF Members
  <2>2. \A i \in 1 .. Len(queue[s]) : queue[s][i] # h
    BY <1>1, <2>1 DEF PromiseInv, EntriesAreMembers
  <2>3. Occurrences(h, queue[s]) = 0
    BY <2>2, BaseFacts, OccurrencesNone
  <2> QED
    BY <1>1, <2>3, EmptySeq DEF PromiseInv, CreditIsOfMembers
<1>5. NoPhantomEvent'
  <2> SUFFICES ASSUME NEW t \in live, NEW g \in Members(t)'
               PROVE  Occurrences(g, queue[t]) + credit[g] <= Len(queue[g])
    BY <1>1 DEF NoPhantomEvent
  <2>1. CASE g \in Members(t)
    BY <2>1 DEF PromiseInv, NoPhantomEvent
  <2>2. CASE g = h /\ t = s
    BY <1>4, <2>2
  <2> QED
    BY <1>2, <2>1, <2>2
<1>6. CreditIsOfMembers'
  BY <1>1, BaseFacts DEF PromiseInv, CreditIsOfMembers
<1> QED
  BY <1>3, <1>5, <1>6 DEF PromiseInv

\* An empty member has no event in the set and no selection outstanding.
LEMMA RemoveKeepsPromises ==
  ASSUME BaseInv, PromiseInv, NEW h \in Handles, NEW s \in Handles,
         xQueueRemoveFromSet(h, s)
  PROVE  PromiseInv'
<1>1. /\ h \in live /\ s \in live /\ queueSetContainer[h] = s /\ queue[h] = << >>
      /\ queueSetContainer'[h] = NULL
      /\ \A g \in Handles \ {h} : queueSetContainer'[g] = queueSetContainer[g]
      /\ live' = live /\ itemSize' = itemSize /\ queue' = queue /\ credit' = credit
  BY DEF xQueueRemoveFromSet, MayLeave, BaseInv, TypeOK
<1>2. \A t \in live : Members(t)' = Members(t) \ {h}
  BY <1>1, BaseFacts DEF Members
<1>3. Occurrences(h, queue[s]) = 0 /\ credit[h] = 0
  <2>1. h \in Members(s)
    BY <1>1 DEF Members
  <2>2. Occurrences(h, queue[s]) + credit[h] <= 0
    BY <1>1, <2>1, EmptySeq DEF PromiseInv, NoPhantomEvent
  <2> QED
    BY <2>2, BaseFacts
<1>4. \A i \in 1 .. Len(queue[s]) : queue[s][i] # h
  BY <1>3, BaseFacts, OccurrencesZero
<1>5. ASSUME NEW t \in live, IsSet(t), NEW i \in 1 .. Len(queue[t])
      PROVE  queue[t][i] \in Members(t) \ {h}
  <2>1. queue[t][i] \in Members(t)
    BY <1>5 DEF PromiseInv, EntriesAreMembers
  <2>2. queue[t][i] # h
    BY <1>1, <1>4, <2>1, BaseFacts
  <2> QED
    BY <2>1, <2>2
<1>6. EntriesAreMembers'
  BY <1>1, <1>2, <1>5 DEF EntriesAreMembers, IsSet
<1>7. NoPhantomEvent'
  BY <1>1, <1>2 DEF PromiseInv, NoPhantomEvent
<1>8. CreditIsOfMembers'
  BY <1>1, <1>3 DEF PromiseInv, CreditIsOfMembers
<1> QED
  BY <1>6, <1>7, <1>8 DEF PromiseInv

\* A selection turns an event into a credit of the member it names.
LEMMA SelectKeepsPromises ==
  ASSUME BaseInv, PromiseInv, NEW s \in Handles, xQueueSelectFromSet(s)
  PROVE  PromiseInv'
<1> DEFINE h == Head(queue[s])
<1>1. /\ s \in live /\ IsSet(s) /\ queue[s] # << >>
      /\ queue' = [queue EXCEPT ![s] = Tail(@)]
      /\ credit' = [credit EXCEPT ![h] = @ + 1]
      /\ live' = live /\ itemSize' = itemSize /\ queueSetContainer' = queueSetContainer
  BY DEF xQueueSelectFromSet
<1>2. /\ Len(queue[s]) \in Nat \ {0} /\ h = queue[s][1]
      /\ Tail(queue[s]) \in Seq(Messages)
      /\ Len(Tail(queue[s])) = Len(queue[s]) - 1
      /\ \A i \in 1 .. Len(Tail(queue[s])) : Tail(queue[s])[i] = queue[s][i + 1]
  BY <1>1, BaseFacts, EmptySeq, HeadTailProperties
<1>3. h \in Members(s)
  BY <1>1, <1>2 DEF PromiseInv, EntriesAreMembers
<1>4. h \in Handles /\ queueSetContainer[h] = s
  BY <1>1, <1>3, BaseFacts
<1>5. /\ queue'[s] = Tail(queue[s]) /\ \A g \in Handles \ {s} : queue'[g] = queue[g]
      /\ credit'[h] = credit[h] + 1 /\ \A g \in Handles \ {h} : credit'[g] = credit[g]
  <2> HIDE DEF h
  <2> QED
    BY <1>1, <1>4 DEF BaseInv, TypeOK
<1>6. \A t : IsSet(t)' = IsSet(t) /\ Members(t)' = Members(t)
  BY <1>1 DEF IsSet, Members
<1> HIDE DEF h
<1>7. ASSUME NEW t \in live, IsSet(t), NEW i \in 1 .. Len(queue'[t])
      PROVE  queue'[t][i] \in Members(t)
  <2>1. CASE t = s
    <3>1. i + 1 \in 1 .. Len(queue[s]) /\ queue'[t][i] = queue[s][i + 1]
      <4>1. queue'[t] = Tail(queue[s])
        BY <1>5, <2>1
      <4>2. i \in 1 .. Len(Tail(queue[s]))
        BY <1>7, <4>1
      <4> QED
        BY <1>2, <4>1, <4>2
    <3> QED
      BY <1>7, <2>1, <3>1 DEF PromiseInv, EntriesAreMembers
  <2>2. CASE t # s
    <3>1. queue'[t] = queue[t]
      BY <1>5, <2>2, BaseFacts
    <3> QED
      BY <1>7, <3>1 DEF PromiseInv, EntriesAreMembers
  <2> QED
    BY <2>1, <2>2
<1>8. EntriesAreMembers'
  BY <1>1, <1>6, <1>7 DEF EntriesAreMembers
<1>9. NoPhantomEvent'
  <2> SUFFICES ASSUME NEW t \in live, NEW g \in Members(t)
               PROVE  Occurrences(g, queue'[t]) + credit'[g] <= Len(queue'[g])
    BY <1>1, <1>6 DEF NoPhantomEvent
  <2>1. /\ t \in Handles /\ g \in Handles /\ g # s /\ queueSetContainer[g] = t
        /\ Occurrences(g, queue[t]) \in Nat /\ credit[g] \in Nat
        /\ Len(queue[g]) \in Nat
        /\ Occurrences(g, Tail(queue[s])) \in Nat
    BY <1>1, <1>2, BaseFacts, OccurrencesFinite
  <2>2. Occurrences(g, queue[t]) + credit[g] <= Len(queue[g]) /\ queue'[g] = queue[g]
    BY <1>5, <2>1 DEF PromiseInv, NoPhantomEvent
  <2>3. /\ h = g => Occurrences(g, queue[s]) = Occurrences(g, Tail(queue[s])) + 1
        /\ h # g => Occurrences(g, queue[s]) = Occurrences(g, Tail(queue[s]))
    BY <1>1, BaseFacts, OccurrencesTail DEF h
  <2>4. CASE g = h
    <3>1. t = s /\ queue'[t] = Tail(queue[s]) /\ credit'[g] = credit[g] + 1
      BY <1>4, <1>5, <2>1, <2>4
    <3> QED
      BY <2>1, <2>2, <2>3, <2>4, <3>1
  <2>5. CASE g # h
    <3>1. credit'[g] = credit[g]
      BY <1>5, <2>1, <2>5
    <3>2. Occurrences(g, queue'[t]) = Occurrences(g, queue[t])
      BY <1>5, <2>1, <2>3, <2>5
    <3> QED
      BY <2>2, <3>1, <3>2
  <2> QED
    BY <2>4, <2>5
<1>10. CreditIsOfMembers'
  BY <1>1, <1>4, <1>5, BaseFacts DEF PromiseInv, CreditIsOfMembers
<1> QED
  BY <1>8, <1>9, <1>10 DEF PromiseInv

\* Steps that leave queues, links and credits alone leave the promises.
LEMMA UnchangedKeepsPromises ==
  ASSUME PromiseInv, UNCHANGED <<live, itemSize, queue, queueSetContainer, credit>>
  PROVE  PromiseInv'
<1>1. \A s : IsSet(s)' = IsSet(s) /\ Members(s)' = Members(s)
  BY DEF IsSet, Members
<1> QED
  BY <1>1 DEF PromiseInv, EntriesAreMembers, NoPhantomEvent, CreditIsOfMembers

LEMMA InitEstablishesPromises == Init => PromiseInv
  BY DEF Init, PromiseInv, EntriesAreMembers, NoPhantomEvent, CreditIsOfMembers

LEMMA StepPreservesPromises ==
  ASSUME Careful
  PROVE  BaseInv /\ PromiseInv /\ [Next]_vars => PromiseInv'
<1> SUFFICES ASSUME BaseInv, PromiseInv, [Next]_vars PROVE PromiseInv'
  OBVIOUS
<1>1. ASSUME NEW h \in Handles, NEW n \in Lengths, xQueueGenericCreate(h, n) PROVE PromiseInv'
  BY <1>1, ConstructKeepsPromises DEF xQueueGenericCreate
<1>2. ASSUME NEW h \in Handles, NEW n \in Lengths, xQueueCreateSet(h, n) PROVE PromiseInv'
  BY <1>2, ConstructKeepsPromises DEF xQueueCreateSet
<1>3. ASSUME NEW h \in Handles, NEW max \in Lengths, NEW initial \in Lengths,
             xQueueCreateCountingSemaphore(h, max, initial)
      PROVE  PromiseInv'
  <2> DEFINE m == [i \in 1 .. InitialTokens(max, initial) |-> Token]
  <2>1. Construct(h, max, "none", m)
    BY <1>3 DEF xQueueCreateCountingSemaphore
  <2> HIDE DEF m
  <2>2. "none" # "handle"
    OBVIOUS
  <2> QED
    BY <2>1, <2>2, ConstructKeepsPromises
<1>4. ASSUME NEW h \in Handles, vQueueDelete(h) PROVE PromiseInv'
  BY <1>4, DeleteKeepsPromises
<1>5. ASSUME NEW h \in Handles, NEW item \in Items \cup {Token}, SendToBack(h, item)
      PROVE  PromiseInv'
  <2> DEFINE m == Append(queue[h], item)
  <2>1. h \in live /\ ~IsSet(h) /\ queue' = Announce(h, [queue EXCEPT ![h] = m])
    BY <1>5 DEF SendToBack, Sendable
  <2>2. m \in Seq(Messages) /\ Len(m) = Len(queue[h]) + 1
    BY <2>1, StoredMessages
  <2> HIDE DEF m
  <2> QED
    BY <1>5, <2>1, <2>2, SendKeepsPromises DEF SendToBack
<1>6. ASSUME NEW h \in Handles, NEW item \in Items \cup {Token}, SendToFront(h, item)
      PROVE  PromiseInv'
  <2> DEFINE m == <<item>> \o queue[h]
  <2>1. h \in live /\ ~IsSet(h) /\ queue' = Announce(h, [queue EXCEPT ![h] = m])
    BY <1>6 DEF SendToFront, Sendable
  <2>2. m \in Seq(Messages) /\ Len(m) = Len(queue[h]) + 1
    BY <2>1, StoredMessages
  <2> HIDE DEF m
  <2> QED
    BY <1>6, <2>1, <2>2, SendKeepsPromises DEF SendToFront
<1>7. ASSUME NEW h \in Handles, NEW item \in Items \cup {Token}, Overwrite(h, item)
      PROVE  PromiseInv'
  <2> DEFINE m == <<item>> \o Tail(queue[h])
  <2>1. /\ h \in live /\ ~IsSet(h) /\ queue[h] # << >>
        /\ queueSetContainer[h] = NULL
        /\ queue' = Announce(h, [queue EXCEPT ![h] = m])
    BY <1>7 DEF Overwrite, Sendable, MayOverwrite, Careful
  <2>2. m \in Seq(Messages)
    BY <2>1, StoredMessages
  <2> HIDE DEF m
  <2> QED
    BY <1>7, <2>1, <2>2, SendKeepsPromises DEF Overwrite
<1>8. ASSUME NEW h \in Handles, NEW item \in Items \cup {Token}, OverwriteEmpty(h, item)
      PROVE  PromiseInv'
  <2>1. queueSetContainer[h] = NULL /\ (queue' = queue \/ queue' = Announce(h, queue))
    BY <1>8 DEF OverwriteEmpty, MayOverwrite, Careful
  <2>2. queue' = queue
    BY <2>1 DEF Announce
  <2> QED
    BY <1>8, <2>2, UnchangedKeepsPromises DEF OverwriteEmpty
<1>9. ASSUME NEW h \in Handles, xQueueReceive(h) PROVE PromiseInv'
  BY <1>9, ReceiveKeepsPromises
<1>10. ASSUME NEW h \in Handles, NEW s \in Handles, xQueueAddToSet(h, s) PROVE PromiseInv'
  BY <1>10, AddKeepsPromises
<1>11. ASSUME NEW h \in Handles, NEW s \in Handles, xQueueRemoveFromSet(h, s)
       PROVE  PromiseInv'
  BY <1>11, RemoveKeepsPromises
<1>12. ASSUME NEW s \in Handles, xQueueSelectFromSet(s) PROVE PromiseInv'
  BY <1>12, SelectKeepsPromises
<1>14. ASSUME NEW h \in Handles, xQueueGiveFromISR(h) PROVE PromiseInv'
  <2>1. SendToBack(h, Token)
    BY <1>14 DEF xQueueGiveFromISR
  <2> QED
    BY <2>1, <1>5
<1>13. CASE UNCHANGED vars
  BY <1>13, UnchangedKeepsPromises DEF vars
<1> QED
  BY <1>1, <1>2, <1>3, <1>4, <1>5, <1>6, <1>7, <1>8, <1>9, <1>10, <1>11, <1>12, <1>13,
     <1>14
  DEF Next

LEMMA PromiseInvariance ==
  ASSUME Careful
  PROVE  Spec => []PromiseInv
<1>1. Init => PromiseInv
  BY InitEstablishesPromises
<1>2. BaseInv /\ PromiseInv /\ [Next]_vars => PromiseInv'
  BY StepPreservesPromises
<1> QED
  BY <1>1, <1>2, BaseInvariance, PTL DEF Spec

\* With careful clients, xQueueSelectFromSet returns live members of the set.
THEOREM SetsNameTheirMembers ==
  ASSUME Careful
  PROVE  Spec => []EntriesAreMembers
<1>1. PromiseInv => EntriesAreMembers
  BY DEF PromiseInv
<1> QED
  BY <1>1, PromiseInvariance, PTL

\* With careful clients, every event of a set has its message, however small
\* the set is for its members.
THEOREM EventsHaveMessages ==
  ASSUME Careful
  PROVE  Spec => []NoPhantomEvent
<1>1. PromiseInv => NoPhantomEvent
  BY DEF PromiseInv
<1> QED
  BY <1>1, PromiseInvariance, PTL
=============================================================================
