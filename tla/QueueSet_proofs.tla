---------------------------- MODULE QueueSet_proofs ----------------------------
(* The queue sets of FakeQueue implement QueueSet, and lose no event, for any *)
(* number of sets, members and messages, if their clients keep to the rules.  *)
(* What there is to prove is that a set has room whenever one of its members  *)
(* has: its announcements are mapped into the places of its members, one to   *)
(* one, so that there are never more of them.                                 *)
EXTENDS FakeQueue_proofs

\* Of the liberties clients may take, none concerns the members of a set.
Disciplined == Liberties \subseteq {"overwriteEmpty"}

LEMMA DisciplinedIsCareful == Disciplined => Careful /\ "oversubscribe" \notin Liberties
  BY DEF Disciplined, Careful

\* All the places of the members of s.
PlacesIn(s) == UNION {Places(m) : m \in Members(s)}

\* No set has more places among its members than of its own.
RoomForMembers ==
  \A s \in live : IsSet(s) =>
    IsFiniteSet(PlacesIn(s)) /\ Cardinality(PlacesIn(s)) <= queueLength[s]

\* An address that is not in use is nobody's set.
SetsAreLive == \A s \in Handles : IsSet(s) => s \in live

SetInv == BaseInv /\ PromiseInv /\ RoomForMembers /\ SetsAreLive

-----------------------------------------------------------------------------
(* The rule that keeps room in a set *)

\* A step that gives no set a new member or a member more places.
LEMMA NoNewPlaces ==
  ASSUME BaseInv, RoomForMembers,
         \A s \in live' : IsSet(s)' =>
           /\ s \in live /\ IsSet(s) /\ queueLength'[s] = queueLength[s]
           /\ Members(s)' \subseteq Members(s)
           /\ \A m \in Members(s)' : queueLength'[m] = queueLength[m]
  PROVE  RoomForMembers'
<1> SUFFICES ASSUME NEW s \in live', IsSet(s)'
             PROVE  /\ IsFiniteSet(PlacesIn(s)')
                    /\ Cardinality(PlacesIn(s)') <= queueLength'[s]
  BY DEF RoomForMembers
<1>1. /\ s \in live /\ IsSet(s) /\ queueLength'[s] = queueLength[s]
      /\ Members(s)' \subseteq Members(s)
      /\ \A m \in Members(s)' : queueLength'[m] = queueLength[m]
  OBVIOUS
<1>2. PlacesIn(s)' \subseteq PlacesIn(s)
  BY <1>1 DEF PlacesIn, Places
<1>3. IsFiniteSet(PlacesIn(s)) /\ Cardinality(PlacesIn(s)) <= queueLength[s]
  BY <1>1 DEF RoomForMembers
<1>4. /\ IsFiniteSet(PlacesIn(s)')
      /\ Cardinality(PlacesIn(s)') <= Cardinality(PlacesIn(s))
  BY <1>2, <1>3, FS_Subset
<1>5. /\ Cardinality(PlacesIn(s)') \in Nat /\ Cardinality(PlacesIn(s)) \in Nat
      /\ queueLength[s] \in Nat
  BY <1>1, <1>3, <1>4, FS_CardinalityType, WidthAssumption DEF BaseInv, TypeOK
<1> QED
  BY <1>1, <1>3, <1>4, <1>5

LEMMA ConstructKeepsRoom ==
  ASSUME BaseInv, RoomForMembers, NEW h \in Handles, NEW n \in Nat, NEW size, NEW m,
         Construct(h, n, size, m)
  PROVE  RoomForMembers'
<1>1. /\ h \notin live /\ live' = live \cup {h}
      /\ queueLength'[h] = Truncate(n) /\ Truncate(n) \in Nat
      /\ \A g \in Handles \ {h} : /\ queueLength'[g] = queueLength[g]
                                  /\ itemSize'[g] = itemSize[g]
      /\ queueSetContainer' = queueSetContainer
  BY TruncateRange, WidthAssumption DEF Construct, BaseInv, TypeOK
<1>2. queueSetContainer[h] = NULL /\ \A g \in Handles : queueSetContainer[g] # h
  BY <1>1, BaseFacts, HandlesAssumption DEF BaseInv, Linked
<1>3. /\ \A s \in live : Members(s)' = Members(s) /\ h \notin Members(s)
      /\ Members(h)' = {}
      /\ live \subseteq Handles /\ NULL \notin live
  BY <1>1, <1>2, BaseFacts DEF Members
<1> SUFFICES ASSUME NEW s \in live', IsSet(s)'
             PROVE  /\ IsFiniteSet(PlacesIn(s)')
                    /\ Cardinality(PlacesIn(s)') <= queueLength'[s]
  BY DEF RoomForMembers
<1>4. CASE s = h
  <2>1. PlacesIn(s)' = {}
    BY <1>3, <1>4 DEF PlacesIn
  <2> QED
    BY <1>1, <1>4, <2>1, FS_EmptySet
<1>5. CASE s # h
  <2>1. s \in live /\ IsSet(s) /\ queueLength'[s] = queueLength[s]
    BY <1>1, <1>3, <1>5 DEF IsSet
  <2>2. \A g \in Members(s) : queueLength'[g] = queueLength[g]
    BY <1>1, <1>3, <2>1 DEF Members
  <2>3. PlacesIn(s)' = PlacesIn(s)
    BY <1>3, <2>1, <2>2 DEF PlacesIn, Places
  <2> QED
    BY <2>1, <2>3 DEF RoomForMembers
<1> QED
  BY <1>4, <1>5

LEMMA IntervalSize ==
  \A n \in Nat : IsFiniteSet(1 .. n) /\ Cardinality(1 .. n) = n
<1> SUFFICES ASSUME NEW n \in Nat PROVE IsFiniteSet(1 .. n) /\ Cardinality(1 .. n) = n
  OBVIOUS
<1>1. /\ IsFiniteSet(1 .. n)
      /\ Cardinality(1 .. n) = IF 1 > n THEN 0 ELSE n - 1 + 1
  BY FS_Interval
<1> QED
  BY <1>1

\* The client counts before it lets a queue join.
LEMMA AddKeepsRoom ==
  ASSUME BaseInv, RoomForMembers, "oversubscribe" \notin Liberties,
         NEW h \in Handles, NEW s \in Handles, xQueueAddToSet(h, s)
  PROVE  RoomForMembers'
<1>1. /\ h \in live /\ s \in live /\ IsSet(s) /\ ~IsSet(h)
      /\ queueSetContainer[h] = NULL
      /\ queueSetContainer'[h] = s
      /\ \A g \in Handles \ {h} : queueSetContainer'[g] = queueSetContainer[g]
      /\ Cardinality(PlacesIn(s)) + queueLength[h] <= queueLength[s]
      /\ live' = live /\ itemSize' = itemSize /\ queueLength' = queueLength
  BY DEF xQueueAddToSet, MayJoin, Subscribed, PlacesIn, BaseInv, TypeOK
<1>2. \A t \in live : Members(t)' = IF t = s THEN Members(t) \cup {h} ELSE Members(t)
  BY <1>1, BaseFacts DEF Members
<1>3. queueLength[h] \in Nat /\ queueLength[s] \in Nat
  BY <1>1, WidthAssumption DEF BaseInv, TypeOK
<1>4. IsFiniteSet(Places(h)) /\ Cardinality(Places(h)) = queueLength[h]
  <2>1. /\ IsFiniteSet(1 .. queueLength[h])
        /\ Cardinality(1 .. queueLength[h]) = queueLength[h]
    BY <1>3, IntervalSize
  <2>2. IsFiniteSet({h}) /\ Cardinality({h}) = 1
    BY FS_Singleton
  <2> QED
    BY <1>3, <2>1, <2>2, FS_Product DEF Places
<1> SUFFICES ASSUME NEW t \in live, IsSet(t)
             PROVE  /\ IsFiniteSet(PlacesIn(t)')
                    /\ Cardinality(PlacesIn(t)') <= queueLength[t]
  BY <1>1 DEF RoomForMembers, IsSet
<1>5. CASE t = s
  <2>1. PlacesIn(t)' = PlacesIn(t) \cup Places(h)
    BY <1>1, <1>2, <1>5 DEF PlacesIn, Places
  <2>2. IsFiniteSet(PlacesIn(t))
    BY DEF RoomForMembers
  <2>3. /\ IsFiniteSet(PlacesIn(t)')
        /\ Cardinality(PlacesIn(t)')
             = Cardinality(PlacesIn(t)) + Cardinality(Places(h))
                 - Cardinality(PlacesIn(t) \cap Places(h))
    BY <1>4, <2>1, <2>2, FS_Union
  <2>4. /\ Cardinality(PlacesIn(t)) \in Nat
        /\ Cardinality(PlacesIn(t) \cap Places(h)) \in Nat
    BY <2>2, FS_Intersection, FS_CardinalityType
  <2> QED
    BY <1>1, <1>3, <1>4, <1>5, <2>3, <2>4
<1>6. CASE t # s
  <2>1. PlacesIn(t)' = PlacesIn(t)
    BY <1>1, <1>2, <1>6 DEF PlacesIn, Places
  <2> QED
    BY <2>1 DEF RoomForMembers
<1> QED
  BY <1>5, <1>6

\* Leaving a set, or deleting it, takes places away; the rest changes none.
LEMMA StepPreservesRoom ==
  ASSUME Disciplined
  PROVE  BaseInv /\ RoomForMembers /\ [Next]_vars => RoomForMembers'
<1> SUFFICES ASSUME BaseInv, RoomForMembers, [Next]_vars PROVE RoomForMembers'
  OBVIOUS
<1>1. ASSUME NEW h \in Handles, NEW n \in Lengths, xQueueGenericCreate(h, n)
      PROVE  RoomForMembers'
  BY <1>1, ConstructKeepsRoom, WidthAssumption DEF xQueueGenericCreate
<1>2. ASSUME NEW h \in Handles, NEW n \in Lengths, xQueueCreateSet(h, n)
      PROVE  RoomForMembers'
  BY <1>2, ConstructKeepsRoom, WidthAssumption DEF xQueueCreateSet
<1>3. ASSUME NEW h \in Handles, NEW max \in Lengths, NEW initial \in Lengths,
             xQueueCreateCountingSemaphore(h, max, initial)
      PROVE  RoomForMembers'
  <2> DEFINE m == [i \in 1 .. InitialTokens(max, initial) |-> Token]
  <2>1. Construct(h, max, "none", m) /\ max \in Nat
    BY <1>3, WidthAssumption DEF xQueueCreateCountingSemaphore
  <2> HIDE DEF m
  <2> QED
    BY <2>1, ConstructKeepsRoom
<1>4. ASSUME NEW h \in Handles, vQueueDelete(h) PROVE RoomForMembers'
  <2>1. /\ h \in live /\ live' = live \ {h} /\ queueSetContainer[h] = NULL
        /\ \A g \in Handles \ {h} : /\ queueLength'[g] = queueLength[g]
                                    /\ itemSize'[g] = itemSize[g]
        /\ queueSetContainer' = queueSetContainer
    BY <1>4 DEF vQueueDelete, BaseInv, TypeOK
  <2>2. ASSUME NEW s \in live', IsSet(s)'
        PROVE  /\ s \in live /\ IsSet(s) /\ queueLength'[s] = queueLength[s]
               /\ Members(s)' \subseteq Members(s)
               /\ \A m \in Members(s)' : queueLength'[m] = queueLength[m]
    <3>1. s \in Handles \ {h} /\ live \subseteq Handles
      BY <2>1, <2>2, BaseFacts
    <3>2. s \in live /\ IsSet(s) /\ queueLength'[s] = queueLength[s]
      BY <2>1, <2>2, <3>1 DEF IsSet
    <3>3. Members(s)' \subseteq Members(s) /\ h \notin Members(s)'
      BY <2>1 DEF Members
    <3>4. \A m \in Members(s)' : queueLength'[m] = queueLength[m]
      BY <2>1, <3>1, <3>3 DEF Members
    <3> QED
      BY <3>2, <3>3, <3>4
  <2> QED
    BY <2>2, NoNewPlaces
<1>5. ASSUME NEW h \in Handles, NEW s \in Handles, xQueueAddToSet(h, s)
      PROVE  RoomForMembers'
  BY <1>5, AddKeepsRoom, DisciplinedIsCareful
<1>6. ASSUME NEW h \in Handles, NEW s \in Handles, xQueueRemoveFromSet(h, s)
      PROVE  RoomForMembers'
  <2>1. /\ queueSetContainer'[h] = NULL /\ NULL \notin live /\ live \subseteq Handles
        /\ \A g \in Handles \ {h} : queueSetContainer'[g] = queueSetContainer[g]
        /\ live' = live /\ itemSize' = itemSize /\ queueLength' = queueLength
    BY <1>6, BaseFacts DEF xQueueRemoveFromSet, BaseInv, TypeOK
  <2>2. \A s1 \in live : Members(s1)' \subseteq Members(s1)
    BY <2>1 DEF Members
  <2> QED
    BY <2>1, <2>2, NoNewPlaces DEF IsSet
<1>7. CASE UNCHANGED <<live, queueLength, itemSize, queueSetContainer>>
  <2>1. \A s : Members(s)' = Members(s) /\ IsSet(s)' = IsSet(s)
    BY <1>7 DEF Members, IsSet
  <2> QED
    BY <1>7, <2>1, NoNewPlaces
<1> QED
  BY <1>1, <1>2, <1>3, <1>4, <1>5, <1>6, <1>7
  DEF Next, vars, SendToBack, SendToFront, xQueueGiveFromISR, Overwrite, OverwriteEmpty,
      xQueueReceive, xQueueSelectFromSet

LEMMA StepKeepsSetsLive == BaseInv /\ SetsAreLive /\ [Next]_vars => SetsAreLive'
<1> SUFFICES ASSUME BaseInv, SetsAreLive, [Next]_vars PROVE SetsAreLive'
  OBVIOUS
<1>1. ASSUME NEW h \in Handles, NEW n, NEW size, NEW m, Construct(h, n, size, m)
      PROVE  SetsAreLive'
  BY <1>1 DEF Construct, SetsAreLive, IsSet, BaseInv, TypeOK
<1>2. ASSUME NEW h \in Handles, vQueueDelete(h) PROVE SetsAreLive'
  BY <1>2 DEF vQueueDelete, SetsAreLive, IsSet, BaseInv, TypeOK
<1>3. CASE UNCHANGED <<live, itemSize>>
  BY <1>3 DEF SetsAreLive, IsSet
<1> QED
  BY <1>1, <1>2, <1>3
  DEF Next, vars, xQueueGenericCreate, xQueueCreateSet, xQueueCreateCountingSemaphore,
      SendToBack, SendToFront, xQueueGiveFromISR, Overwrite, OverwriteEmpty,
      xQueueReceive, xQueueAddToSet, xQueueRemoveFromSet, xQueueSelectFromSet

LEMMA SetInvariance ==
  ASSUME Disciplined
  PROVE  Spec => []SetInv
<1>1. Init => RoomForMembers /\ SetsAreLive
  BY DEF Init, RoomForMembers, SetsAreLive, IsSet
<1>2. BaseInv /\ RoomForMembers /\ [Next]_vars => RoomForMembers'
  BY StepPreservesRoom
<1>3. Spec => []PromiseInv
  BY PromiseInvariance, DisciplinedIsCareful
<1> QED
  BY <1>1, <1>2, <1>3, BaseInvariance, StepKeepsSetsLive, PTL DEF Spec, SetInv

-----------------------------------------------------------------------------
(* A set has room when a member has *)

\* The i-th handle of q, and the how manieth of its kind it is.
PlaceOf(q, i) == <<q[i], Cardinality({j \in 1 .. i : q[j] = q[i]})>>

\* No two entries are the same of their kind, and the number of one is at most
\* that of all of its kind.
LEMMA PlacesDiffer ==
  ASSUME NEW S, NEW q \in Seq(S), NEW i \in 1 .. Len(q)
  PROVE  /\ PlaceOf(q, i)[2] \in 1 .. Occurrences(q[i], q)
         /\ \A k \in 1 .. Len(q) : k < i => PlaceOf(q, k) # PlaceOf(q, i)
<1> DEFINE upTo(k) == {j \in 1 .. k : q[j] = q[k]}
<1>1. Len(q) \in Nat
  BY LenProperties
<1>2. ASSUME NEW k \in 1 .. Len(q) PROVE IsFiniteSet(upTo(k)) /\ Cardinality(upTo(k)) \in Nat
  <2>1. k \in Nat /\ IsFiniteSet(1 .. k)
    BY <1>1, FS_Interval
  <2> QED
    BY <2>1, FS_Subset, FS_CardinalityType
<1>3. Cardinality(upTo(i)) \in 1 .. Occurrences(q[i], q)
  <2>1. /\ IsFiniteSet({j \in 1 .. Len(q) : q[j] = q[i]})
        /\ Occurrences(q[i], q) \in Nat
    BY OccurrencesFinite
  <2>2. upTo(i) \subseteq {j \in 1 .. Len(q) : q[j] = q[i]}
    BY <1>1
  <2>3. Cardinality(upTo(i)) <= Occurrences(q[i], q)
    BY <2>1, <2>2, FS_Subset DEF Occurrences
  <2>4. upTo(i) # {}
    BY <1>1
  <2>5. Cardinality(upTo(i)) # 0
    <3> HIDE DEF upTo
    <3> QED
      BY <1>2, <2>4, FS_EmptySet
  <2>6. Cardinality(upTo(i)) \in Nat
    BY <1>2
  <2> HIDE DEF upTo
  <2> QED
    BY <2>1, <2>3, <2>5, <2>6
<1>4. ASSUME NEW k \in 1 .. Len(q), k < i, q[k] = q[i]
      PROVE  Cardinality(upTo(k)) # Cardinality(upTo(i))
  <2>1. upTo(k) \subseteq upTo(i) /\ i \in upTo(i) /\ i \notin upTo(k)
    BY <1>1, <1>4
  <2>2. upTo(k) # upTo(i)
    BY <2>1
  <2> HIDE DEF upTo
  <2> QED
    BY <1>2, <2>1, <2>2, FS_Subset
<1> QED
  BY <1>3, <1>4 DEF PlaceOf

\* The announcements in a set, at places of their members, leave free the last
\* place of a member that has room.
LEMMA SetHasRoom ==
  ASSUME SetInv, NEW s \in live, NEW h \in Members(s), HasRoom(h)
  PROVE  HasRoom(s)
<1> DEFINE q == queue[s]
           n == Len(q)
           last == <<h, queueLength[h]>>
           P == PlacesIn(s)
           f == [i \in 1 .. n |-> PlaceOf(q, i)]
<1>1. BaseInv /\ PromiseInv /\ RoomForMembers
  BY DEF SetInv
<1>2. /\ IsSet(s) /\ h \in Handles /\ q \in Seq(Messages) /\ n \in Nat
      /\ live \subseteq Handles
  BY <1>1, BaseFacts
<1>3. \A g \in Members(s) :
        /\ queueLength[g] \in Nat /\ Len(queue[g]) \in Nat
        /\ Occurrences(g, q) \in Nat
        /\ Occurrences(g, q) <= Len(queue[g])
        /\ Len(queue[g]) <= queueLength[g]
        /\ g = h => Len(queue[g]) < queueLength[g]
  <2> SUFFICES ASSUME NEW g \in Members(s)
               PROVE  /\ queueLength[g] \in Nat /\ Len(queue[g]) \in Nat
                      /\ Occurrences(g, q) \in Nat
                      /\ Occurrences(g, q) <= Len(queue[g])
                      /\ Len(queue[g]) <= queueLength[g]
                      /\ g = h => Len(queue[g]) < queueLength[g]
    OBVIOUS
  <2>1. g \in live /\ g \in Handles
    BY <1>1, BaseFacts
  <2>2. queueLength[g] \in Nat
    BY <1>1, <2>1, WidthAssumption DEF BaseInv, TypeOK
  <2>3. Len(queue[g]) \in Nat /\ Occurrences(g, q) \in Nat /\ credit[g] \in Nat
    BY <1>1, <1>2, <2>1, BaseFacts
  <2>4. Occurrences(g, q) + credit[g] <= Len(queue[g])
    BY <1>1 DEF PromiseInv, NoPhantomEvent
  <2>5. Len(queue[g]) <= queueLength[g]
    BY <1>1, <2>1 DEF BaseInv, NotOverfull
  <2> QED
    BY <2>2, <2>3, <2>4, <2>5 DEF HasRoom
<1>4. ASSUME NEW i \in 1 .. n PROVE PlaceOf(q, i) \in P \ {last}
  <2>1. q[i] \in Members(s)
    BY <1>1, <1>2 DEF PromiseInv, EntriesAreMembers
  <2>2. PlaceOf(q, i) = <<q[i], PlaceOf(q, i)[2]>>
    BY DEF PlaceOf
  <2>3. PlaceOf(q, i)[2] \in 1 .. Occurrences(q[i], q)
    BY <1>2, PlacesDiffer
  <2> HIDE DEF q
  <2>4. /\ PlaceOf(q, i)[2] \in 1 .. queueLength[q[i]]
        /\ q[i] = h => PlaceOf(q, i)[2] < queueLength[h]
    BY <1>3, <2>1, <2>3
  <2>5. PlaceOf(q, i) \in Places(q[i])
    BY <2>2, <2>4 DEF Places
  <2>6. PlaceOf(q, i) # last
    BY <1>3, <2>2, <2>4
  <2> QED
    BY <2>1, <2>5, <2>6 DEF PlacesIn
<1>5. f \in Injection(1 .. n, P \ {last})
  <2>1. f \in [1 .. n -> P \ {last}]
    BY <1>4
  <2>2. \A i, k \in 1 .. n : f[i] = f[k] => i = k
    <3> SUFFICES ASSUME NEW i \in 1 .. n, NEW k \in 1 .. n, PlaceOf(q, i) = PlaceOf(q, k)
                 PROVE  i = k
      OBVIOUS
    <3>1. ~(i < k) /\ ~(k < i)
      BY <1>2, PlacesDiffer
    <3> QED
      BY <1>2, <3>1
  <2> QED
    BY <2>1, <2>2 DEF Injection, IsInjective
<1>6. IsFiniteSet(P) /\ Cardinality(P) <= queueLength[s] /\ queueLength[s] \in Nat
  BY <1>1, <1>2, WidthAssumption DEF RoomForMembers, BaseInv, TypeOK
<1>7. last \in P
  <2>1. h \in Members(s) /\ queueLength[h] \in 1 .. queueLength[h]
    BY <1>3
  <2> QED
    BY <2>1 DEF PlacesIn, Places
<1> HIDE DEF P, f, last
<1>8. /\ IsFiniteSet(P \ {last})
      /\ Cardinality(P \ {last}) = Cardinality(P) - 1
      /\ Cardinality(P) \in Nat
  BY <1>6, <1>7, FS_RemoveElement, FS_CardinalityType
<1>9. Cardinality(1 .. n) <= Cardinality(P \ {last})
  BY <1>5, <1>8, FS_Injection
<1>10. n <= Cardinality(P) - 1
  BY <1>2, <1>8, <1>9, IntervalSize
<1> QED
  BY <1>2, <1>6, <1>8, <1>10 DEF HasRoom

-----------------------------------------------------------------------------
(* The refinement, one action at a time *)

\* The expressions that FakeQueue gives for the variables of QueueSet.
Stored == [h \in Handles |-> IF queueSetContainer[h] = NULL THEN 0 ELSE Len(queue[h])]

Announced == [s \in Handles |-> IF IsSet(s) THEN queue[s] ELSE << >>]

\* The actions of QueueSet, written with them.
LEMMA Mapped ==
  /\ \A h, s : QS!Join(h, s) <=>
       /\ queueSetContainer[h] = NULL
       /\ Stored[h] = 0 /\ credit[h] = 0
       /\ \A i \in 1 .. Len(Announced[s]) : Announced[s][i] # h
       /\ queueSetContainer' = [queueSetContainer EXCEPT ![h] = s]
       /\ Stored' = Stored /\ Announced' = Announced /\ credit' = credit
  /\ \A h : QS!Send(h) <=>
       /\ queueSetContainer[h] # NULL
       /\ Stored' = [Stored EXCEPT ![h] = @ + 1]
       /\ Announced' = [Announced EXCEPT ![queueSetContainer[h]] = Append(@, h)]
       /\ queueSetContainer' = queueSetContainer /\ credit' = credit
  /\ \A s : QS!Select(s) <=>
       /\ Announced[s] # << >>
       /\ Announced' = [Announced EXCEPT ![s] = Tail(@)]
       /\ credit' = [credit EXCEPT ![Head(Announced[s])] = @ + 1]
       /\ queueSetContainer' = queueSetContainer /\ Stored' = Stored
  /\ \A h : QS!Receive(h) <=>
       /\ queueSetContainer[h] # NULL
       /\ credit[h] > 0
       /\ Stored' = [Stored EXCEPT ![h] = @ - 1]
       /\ credit' = [credit EXCEPT ![h] = @ - 1]
       /\ queueSetContainer' = queueSetContainer /\ Announced' = Announced
  /\ \A h : QS!Leave(h) <=>
       /\ queueSetContainer[h] # NULL
       /\ Stored[h] = 0
       /\ queueSetContainer' = [queueSetContainer EXCEPT ![h] = NULL]
       /\ Stored' = Stored /\ Announced' = Announced /\ credit' = credit
  /\ UNCHANGED QS!vars <=>
       /\ queueSetContainer' = queueSetContainer /\ credit' = credit
       /\ Stored' = Stored /\ Announced' = Announced
  BY Zenon DEF QS!Join, QS!Send, QS!Select, QS!Receive, QS!Leave, QS!vars, Stored, Announced

LEMMA InitMaps == Init => QS!Init
  BY DEF Init, QS!Init, IsSet

LEMMA MappedTypes ==
  BaseInv => /\ Stored \in [Handles -> Nat]
             /\ Announced \in [Handles -> Seq(Messages)]
             /\ credit \in [Handles -> Nat]
<1> SUFFICES ASSUME BaseInv
             PROVE  /\ Stored \in [Handles -> Nat]
                    /\ Announced \in [Handles -> Seq(Messages)]
                    /\ credit \in [Handles -> Nat]
  OBVIOUS
<1>1. \A h \in Handles : queue[h] \in Seq(Messages) /\ Len(queue[h]) \in Nat
  BY BaseFacts
<1>2. Stored \in [Handles -> Nat]
  BY <1>1 DEF Stored
<1>3. Announced \in [Handles -> Seq(Messages)]
  BY <1>1 DEF Announced
<1>4. credit \in [Handles -> Nat]
  BY CreditAssumption DEF BaseInv, TypeOK
<1> QED
  BY <1>2, <1>3, <1>4

\* A send to a member tells its set; one to another queue tells nobody.
LEMMA SendMaps ==
  ASSUME SetInv, NEW h \in live, ~IsSet(h), NEW m \in Seq(Messages),
         \/ queueSetContainer[h] = NULL
         \/ HasRoom(h) /\ Len(m) = Len(queue[h]) + 1,
         queue' = Announce(h, [queue EXCEPT ![h] = m]),
         UNCHANGED <<live, queueLength, itemSize, queueSetContainer, credit>>
  PROVE  [QS!Next]_(QS!vars)
<1> DEFINE s == queueSetContainer[h]
<1>1. BaseInv /\ h \in Handles /\ queue \in [Handles -> Seq(Messages)]
  BY DEF SetInv, BaseInv, TypeOK
<1>2. \A g : IsSet(g)' = IsSet(g)
  BY DEF IsSet
<1>3. CASE s = NULL
  <2>1. queue' = [queue EXCEPT ![h] = m]
    BY <1>3 DEF Announce
  <2>2. Stored' = Stored
    BY <1>1, <1>3, <2>1 DEF Stored
  <2>3. Announced' = Announced
    BY <1>1, <1>2, <2>1 DEF Announced
  <2> QED
    BY <2>2, <2>3, Mapped
<1>4. CASE s # NULL
  <2>1. s \in live /\ h \in Members(s) /\ s \in Handles /\ s # h /\ IsSet(s)
    BY <1>1, <1>4, BaseFacts DEF Members, BaseInv, TypeOK, Linked
  <2>2. HasRoom(s)
    BY <1>4, <2>1, SetHasRoom
  <2>3. queue' = [[queue EXCEPT ![h] = m] EXCEPT ![s] = Append(@, h)]
    BY <1>4, <2>2 DEF Announce
  <2>4. /\ queue'[h] = m /\ queue'[s] = Append(queue[s], h)
        /\ \A g \in Handles \ {h, s} : queue'[g] = queue[g]
    BY <1>1, <2>1, <2>3
  <2>5. Stored' = [Stored EXCEPT ![h] = @ + 1]
    <3>1. queueSetContainer[s] = NULL
      BY <1>1, <2>1 DEF BaseInv, Linked
    <3> QED
      BY <1>1, <1>4, <2>1, <2>4, <3>1 DEF Stored
  <2>6. Announced' = [Announced EXCEPT ![s] = Append(@, h)]
    BY <1>1, <1>2, <2>1, <2>4 DEF Announced
  <2> HIDE DEF s
  <2>7. QS!Send(h)
    BY <1>4, <2>5, <2>6, Mapped DEF s
  <2> QED
    BY <1>1, <2>7 DEF QS!Next
<1> QED
  BY <1>3, <1>4

LEMMA ConstructMaps ==
  ASSUME SetInv, NEW h \in Handles, NEW n, NEW size, NEW m,
         size = "handle" => m = << >>, Construct(h, n, size, m)
  PROVE  UNCHANGED QS!vars
<1>1. BaseInv /\ PromiseInv
  BY DEF SetInv
<1>2. /\ h \notin live /\ queue'[h] = m /\ itemSize'[h] = size
      /\ \A g \in Handles \ {h} : queue'[g] = queue[g] /\ itemSize'[g] = itemSize[g]
      /\ queueSetContainer' = queueSetContainer /\ credit' = credit
  BY <1>1 DEF Construct, BaseInv, TypeOK
<1>3. queueSetContainer[h] = NULL
  BY <1>1, <1>2, BaseFacts
<1>4. Stored' = Stored
  BY <1>2, <1>3 DEF Stored
<1>5. ~IsSet(h)
  BY <1>2 DEF SetInv, SetsAreLive
<1>6. Announced' = Announced
  BY <1>2, <1>5 DEF Announced, IsSet
<1> QED
  BY <1>2, <1>4, <1>6, Mapped

\* A set is deleted without members, hence with nothing to tell.
LEMMA DeleteMaps ==
  ASSUME SetInv, NEW h \in Handles, vQueueDelete(h)
  PROVE  UNCHANGED QS!vars
<1>1. BaseInv /\ PromiseInv
  BY DEF SetInv
<1>2. /\ h \in live /\ queueSetContainer[h] = NULL /\ Members(h) = {}
      /\ queue'[h] = << >> /\ itemSize'[h] = "item" /\ credit'[h] = 0
      /\ \A g \in Handles \ {h} : /\ queue'[g] = queue[g] /\ itemSize'[g] = itemSize[g]
                                  /\ credit'[g] = credit[g]
      /\ queueSetContainer' = queueSetContainer
      /\ credit \in [Handles -> 0 .. MaxCredit]
      /\ credit' = [credit EXCEPT ![h] = 0]
  BY <1>1 DEF vQueueDelete, BaseInv, TypeOK
<1>3. credit' = credit
  BY <1>1, <1>2 DEF PromiseInv, CreditIsOfMembers
<1>4. Stored' = Stored
  BY <1>2 DEF Stored
<1>5. IsSet(h) => queue[h] = << >>
  <2> SUFFICES ASSUME IsSet(h), queue[h] # << >> PROVE FALSE
    OBVIOUS
  <2>1. Len(queue[h]) \in Nat \ {0}
    BY <1>1, BaseFacts, EmptySeq
  <2>2. queue[h][1] \in Members(h)
    BY <1>1, <1>2, <2>1 DEF PromiseInv, EntriesAreMembers
  <2> QED
    BY <1>2, <2>2
<1>6. Announced' = Announced
  BY <1>2, <1>5 DEF Announced, IsSet
<1> QED
  BY <1>2, <1>3, <1>4, <1>6, Mapped

\* A careful client's receive answers a selection.
LEMMA ReceiveMaps ==
  ASSUME SetInv, Careful, NEW h \in Handles, xQueueReceive(h)
  PROVE  [QS!Next]_(QS!vars)
<1>1. BaseInv /\ PromiseInv
  BY DEF SetInv
<1>2. /\ ~IsSet(h) /\ queue[h] # << >>
      /\ queueSetContainer[h] = NULL \/ credit[h] > 0
      /\ queue' = [queue EXCEPT ![h] = Tail(@)]
      /\ queue'[h] = Tail(queue[h]) /\ \A g \in Handles \ {h} : queue'[g] = queue[g]
      /\ credit' = SpendCredit(h)
      /\ itemSize' = itemSize /\ queueSetContainer' = queueSetContainer
  BY <1>1 DEF xQueueReceive, MayRead, Careful, BaseInv, TypeOK
<1>3. Announced' = Announced
  BY <1>2 DEF Announced, IsSet
<1>4. CASE queueSetContainer[h] = NULL
  <2>1. Stored' = Stored
    BY <1>2, <1>4 DEF Stored
  <2>2. credit[h] = 0 /\ credit \in [Handles -> Nat]
    BY <1>1, <1>4, MappedTypes DEF PromiseInv, CreditIsOfMembers
  <2>3. credit' = credit
    BY <1>2, <2>2 DEF SpendCredit
  <2> QED
    BY <1>2, <1>3, <2>1, <2>3, Mapped
<1>5. CASE queueSetContainer[h] # NULL
  <2>1. credit[h] > 0 /\ credit' = [credit EXCEPT ![h] = @ - 1]
    BY <1>2, <1>5 DEF SpendCredit
  <2>2. Len(queue'[h]) = Len(queue[h]) - 1
    BY <1>1, <1>2, BaseFacts, HeadTailProperties
  <2>3. Stored' = [Stored EXCEPT ![h] = @ - 1]
    <3>1. Stored[h] = Len(queue[h]) /\ Stored'[h] = Len(queue'[h])
      BY <1>2, <1>5 DEF Stored
    <3>2. \A g \in Handles \ {h} : Stored'[g] = Stored[g]
      BY <1>2 DEF Stored
    <3>3. /\ Stored = [g \in Handles |-> Stored[g]]
          /\ Stored' = [g \in Handles |-> Stored'[g]]
      BY DEF Stored
    <3> HIDE DEF Stored
    <3> QED
      BY <2>2, <3>1, <3>2, <3>3
  <2>4. QS!Receive(h)
    BY <1>2, <1>3, <1>5, <2>1, <2>3, Mapped
  <2> QED
    BY <2>4 DEF QS!Next
<1> QED
  BY <1>4, <1>5

LEMMA AddMaps ==
  ASSUME SetInv, NEW h \in Handles, NEW s \in Handles, xQueueAddToSet(h, s)
  PROVE  QS!Next
<1>1. BaseInv /\ PromiseInv
  BY DEF SetInv
<1>2. /\ h \in live /\ s \in live /\ IsSet(s)
      /\ queueSetContainer[h] = NULL /\ queue[h] = << >>
      /\ queueSetContainer' = [queueSetContainer EXCEPT ![h] = s]
      /\ queueSetContainer'[h] = s
      /\ \A g \in Handles \ {h} : queueSetContainer'[g] = queueSetContainer[g]
      /\ itemSize' = itemSize /\ queue' = queue /\ credit' = credit
  BY <1>1 DEF xQueueAddToSet, MayJoin, BaseInv, TypeOK
<1>3. Len(queue[h]) = 0
  BY <1>1, <1>2, BaseFacts, EmptySeq
<1>4. Stored[h] = 0 /\ Stored' = Stored
  BY <1>2, <1>3 DEF Stored
<1>5. Announced' = Announced
  BY <1>2 DEF Announced, IsSet
<1>6. credit[h] = 0
  BY <1>1, <1>2 DEF PromiseInv, CreditIsOfMembers
<1>7. \A i \in 1 .. Len(Announced[s]) : Announced[s][i] # h
  <2>1. h \notin Members(s) /\ Announced[s] = queue[s]
    BY <1>1, <1>2, BaseFacts DEF Members, Announced
  <2> QED
    BY <1>1, <1>2, <2>1 DEF PromiseInv, EntriesAreMembers
<1>8. QS!Join(h, s)
  BY <1>2, <1>4, <1>5, <1>6, <1>7, Mapped
<1> QED
  BY <1>8 DEF QS!Next

LEMMA RemoveMaps ==
  ASSUME SetInv, NEW h \in Handles, NEW s \in Handles, xQueueRemoveFromSet(h, s)
  PROVE  QS!Next
<1>1. BaseInv
  BY DEF SetInv
<1>2. /\ s \in live /\ queueSetContainer[h] = s /\ queue[h] = << >>
      /\ queueSetContainer' = [queueSetContainer EXCEPT ![h] = NULL]
      /\ queueSetContainer'[h] = NULL
      /\ \A g \in Handles \ {h} : queueSetContainer'[g] = queueSetContainer[g]
      /\ itemSize' = itemSize /\ queue' = queue /\ credit' = credit
  BY <1>1 DEF xQueueRemoveFromSet, MayLeave, BaseInv, TypeOK
<1>3. s # NULL /\ Len(queue[h]) = 0
  BY <1>1, <1>2, BaseFacts, EmptySeq
<1>4. Stored[h] = 0 /\ Stored' = Stored
  BY <1>2, <1>3 DEF Stored
<1>5. Announced' = Announced
  BY <1>2 DEF Announced, IsSet
<1>6. QS!Leave(h)
  BY <1>2, <1>3, <1>4, <1>5, Mapped
<1> QED
  BY <1>6 DEF QS!Next

LEMMA SelectMaps ==
  ASSUME SetInv, NEW s \in Handles, xQueueSelectFromSet(s)
  PROVE  QS!Next
<1>1. BaseInv /\ queue \in [Handles -> Seq(Messages)]
  BY DEF SetInv, BaseInv, TypeOK
<1>2. /\ s \in live /\ IsSet(s) /\ queue[s] # << >>
      /\ queue' = [queue EXCEPT ![s] = Tail(@)]
      /\ credit' = [credit EXCEPT ![Head(queue[s])] = @ + 1]
      /\ itemSize' = itemSize /\ queueSetContainer' = queueSetContainer
  BY DEF xQueueSelectFromSet
<1>3. queueSetContainer[s] = NULL
  BY <1>1, <1>2 DEF BaseInv, Linked
<1>4. Stored' = Stored
  BY <1>1, <1>2, <1>3 DEF Stored
<1>5. Announced[s] = queue[s] /\ Announced' = [Announced EXCEPT ![s] = Tail(@)]
  BY <1>1, <1>2 DEF Announced, IsSet
<1>6. QS!Select(s)
  BY <1>2, <1>4, <1>5, Mapped
<1> QED
  BY <1>6 DEF QS!Next

LEMMA StepMaps ==
  ASSUME Disciplined
  PROVE  SetInv /\ [Next]_vars => [QS!Next]_(QS!vars)
<1> SUFFICES ASSUME SetInv, [Next]_vars PROVE [QS!Next]_(QS!vars)
  OBVIOUS
<1>0. BaseInv /\ Careful
  BY DisciplinedIsCareful DEF SetInv
<1>1. ASSUME NEW h \in Handles, NEW n \in Lengths, xQueueGenericCreate(h, n)
      PROVE  UNCHANGED QS!vars
  BY <1>1, ConstructMaps DEF xQueueGenericCreate
<1>2. ASSUME NEW h \in Handles, NEW n \in Lengths, xQueueCreateSet(h, n)
      PROVE  UNCHANGED QS!vars
  BY <1>2, ConstructMaps DEF xQueueCreateSet
<1>3. ASSUME NEW h \in Handles, NEW max \in Lengths, NEW initial \in Lengths,
             xQueueCreateCountingSemaphore(h, max, initial)
      PROVE  UNCHANGED QS!vars
  <2> DEFINE m == [i \in 1 .. InitialTokens(max, initial) |-> Token]
  <2>1. Construct(h, max, "none", m)
    BY <1>3 DEF xQueueCreateCountingSemaphore
  <2> HIDE DEF m
  <2>2. "none" # "handle"
    OBVIOUS
  <2> QED
    BY <2>1, <2>2, ConstructMaps
<1>4. ASSUME NEW h \in Handles, vQueueDelete(h) PROVE UNCHANGED QS!vars
  BY <1>4, DeleteMaps
<1>5. ASSUME NEW h \in Handles, NEW item \in Items \cup {Token}, SendToBack(h, item)
      PROVE  [QS!Next]_(QS!vars)
  <2> DEFINE m == Append(queue[h], item)
  <2>1. /\ h \in live /\ ~IsSet(h) /\ HasRoom(h)
        /\ queue' = Announce(h, [queue EXCEPT ![h] = m])
    BY <1>5 DEF SendToBack, Sendable
  <2>2. m \in Seq(Messages) /\ Len(m) = Len(queue[h]) + 1
    BY <1>0, <2>1, StoredMessages
  <2> HIDE DEF m
  <2> QED
    BY <1>5, <2>1, <2>2, SendMaps DEF SendToBack
<1>6. ASSUME NEW h \in Handles, NEW item \in Items \cup {Token}, SendToFront(h, item)
      PROVE  [QS!Next]_(QS!vars)
  <2> DEFINE m == <<item>> \o queue[h]
  <2>1. /\ h \in live /\ ~IsSet(h) /\ HasRoom(h)
        /\ queue' = Announce(h, [queue EXCEPT ![h] = m])
    BY <1>6 DEF SendToFront, Sendable
  <2>2. m \in Seq(Messages) /\ Len(m) = Len(queue[h]) + 1
    BY <1>0, <2>1, StoredMessages
  <2> HIDE DEF m
  <2> QED
    BY <1>6, <2>1, <2>2, SendMaps DEF SendToFront
<1>7. ASSUME NEW h \in Handles, xQueueGiveFromISR(h) PROVE [QS!Next]_(QS!vars)
  <2>1. SendToBack(h, Token)
    BY <1>7 DEF xQueueGiveFromISR
  <2> QED
    BY <1>5, <2>1
<1>8. ASSUME NEW h \in Handles, NEW item \in Items \cup {Token}, Overwrite(h, item)
      PROVE  [QS!Next]_(QS!vars)
  <2> DEFINE m == <<item>> \o Tail(queue[h])
  <2>1. /\ h \in live /\ ~IsSet(h) /\ queue[h] # << >>
        /\ queueSetContainer[h] = NULL
        /\ queue' = Announce(h, [queue EXCEPT ![h] = m])
    BY <1>0, <1>8 DEF Overwrite, Sendable, MayOverwrite, Careful
  <2>2. m \in Seq(Messages)
    BY <1>0, <2>1, StoredMessages
  <2>3. UNCHANGED <<live, queueLength, itemSize, queueSetContainer, credit>>
    BY <1>8 DEF Overwrite
  <2> HIDE DEF m
  <2> QED
    BY <2>1, <2>2, <2>3, SendMaps
<1>9. ASSUME NEW h \in Handles, NEW item \in Items \cup {Token}, OverwriteEmpty(h, item)
      PROVE  UNCHANGED QS!vars
  <2>1. queueSetContainer[h] = NULL /\ (queue' = queue \/ queue' = Announce(h, queue))
    BY <1>0, <1>9 DEF OverwriteEmpty, MayOverwrite, Careful
  <2>2. queue' = queue
    BY <2>1 DEF Announce
  <2>3. Stored' = Stored /\ Announced' = Announced
    BY <1>9, <2>2 DEF OverwriteEmpty, Stored, Announced, IsSet
  <2> QED
    BY <1>9, <2>3, Mapped DEF OverwriteEmpty
<1>10. ASSUME NEW h \in Handles, xQueueReceive(h) PROVE [QS!Next]_(QS!vars)
  BY <1>0, <1>10, ReceiveMaps
<1>11. ASSUME NEW h \in Handles, NEW s \in Handles, xQueueAddToSet(h, s) PROVE QS!Next
  BY <1>11, AddMaps
<1>12. ASSUME NEW h \in Handles, NEW s \in Handles, xQueueRemoveFromSet(h, s) PROVE QS!Next
  BY <1>12, RemoveMaps
<1>13. ASSUME NEW s \in Handles, xQueueSelectFromSet(s) PROVE QS!Next
  BY <1>13, SelectMaps
<1>14. CASE UNCHANGED vars
  <2>1. Stored' = Stored /\ Announced' = Announced
    BY <1>14 DEF vars, Stored, Announced, IsSet
  <2> QED
    BY <1>14, <2>1, Mapped DEF vars
<1> QED
  BY <1>1, <1>2, <1>3, <1>4, <1>5, <1>6, <1>7, <1>8, <1>9, <1>10, <1>11, <1>12, <1>13,
     <1>14
  DEF Next

\* With disciplined clients a set of any length, with any members, is what its
\* readers take it for: one record of the messages of its members.
THEOREM Refinement ==
  ASSUME Disciplined
  PROVE  Spec => ImplementsQueueSet
<1>1. Init => QS!Init
  BY InitMaps
<1>2. SetInv /\ [Next]_vars => [QS!Next]_(QS!vars)
  BY StepMaps
<1> QED
  BY <1>1, <1>2, SetInvariance, PTL DEF Spec, QS!Spec, ImplementsQueueSet

-----------------------------------------------------------------------------
(* No event is lost: it follows from the steps of QueueSet *)

\* Every message of a member is announced or claimed.
Accounted ==
  \A h \in Handles : queueSetContainer[h] # NULL =>
    Stored[h] <= Occurrences(h, Announced[queueSetContainer[h]]) + credit[h]

LEMMA AccountedMeans == BaseInv => (Accounted <=> NoLostEvent)
<1> SUFFICES ASSUME BaseInv PROVE Accounted <=> NoLostEvent
  OBVIOUS
<1>1. ASSUME NEW s \in live, NEW h \in Members(s)
      PROVE  /\ h \in Handles /\ queueSetContainer[h] = s /\ s # NULL
             /\ Stored[h] = Len(queue[h]) /\ Announced[s] = queue[s]
  BY <1>1, BaseFacts DEF Stored, Announced
<1>2. ASSUME NEW h \in Handles, queueSetContainer[h] # NULL
      PROVE  queueSetContainer[h] \in live /\ h \in Members(queueSetContainer[h])
  BY <1>2 DEF Members, BaseInv, Linked
<1>3. Accounted => NoLostEvent
  BY <1>1 DEF Accounted, NoLostEvent
<1>4. NoLostEvent => Accounted
  <2> SUFFICES ASSUME NoLostEvent, NEW h \in Handles, queueSetContainer[h] # NULL
               PROVE  Stored[h] <= Occurrences(h, Announced[queueSetContainer[h]]) + credit[h]
    BY DEF Accounted
  <2>1. queueSetContainer[h] \in live /\ h \in Members(queueSetContainer[h])
    BY <1>2
  <2> QED
    BY <1>1, <2>1 DEF NoLostEvent
<1> QED
  BY <1>3, <1>4

LEMMA StepKeepsAccounts ==
  BaseInv /\ BaseInv' /\ Accounted /\ [QS!Next]_(QS!vars) => Accounted'
<1> SUFFICES ASSUME BaseInv, BaseInv', Accounted, [QS!Next]_(QS!vars),
                    NEW h \in Handles, queueSetContainer'[h] # NULL
             PROVE  Stored'[h] <= Occurrences(h, Announced'[queueSetContainer'[h]])
                                    + credit'[h]
  BY DEF Accounted
<1> DEFINE s == queueSetContainer[h]
<1>1. /\ Stored \in [Handles -> Nat] /\ credit \in [Handles -> Nat]
      /\ Announced \in [Handles -> Seq(Messages)]
      /\ queueSetContainer \in [Handles -> live \cup {NULL}] /\ live \subseteq Handles
  BY MappedTypes DEF BaseInv, TypeOK
<1>2. queueSetContainer'[h] \in Handles /\ credit'[h] \in Nat
      /\ Announced'[queueSetContainer'[h]] \in Seq(Messages)
  <2>1. (BaseInv => /\ Announced \in [Handles -> Seq(Messages)]
                    /\ credit \in [Handles -> Nat])'
    BY MappedTypes, PTL
  <2> QED
    BY <2>1 DEF BaseInv, TypeOK
<1>3. Occurrences(h, Announced'[queueSetContainer'[h]]) \in Nat
  BY <1>2, OccurrencesFinite
<1>4. ASSUME s # NULL
      PROVE  /\ s \in Handles /\ Announced[s] \in Seq(Messages)
             /\ Occurrences(h, Announced[s]) \in Nat
             /\ Stored[h] \in Nat /\ credit[h] \in Nat
             /\ Stored[h] <= Occurrences(h, Announced[s]) + credit[h]
  BY <1>1, <1>4, OccurrencesFinite DEF Accounted
<1> HIDE DEF Stored, Announced
<1>5. ASSUME NEW g \in Handles, NEW t \in Handles, QS!Join(g, t)
      PROVE  Stored'[h] <= Occurrences(h, Announced'[queueSetContainer'[h]]) + credit'[h]
  <2>1. CASE g = h
    <3>1. Stored'[h] = 0
      BY <1>5, <2>1, Mapped
    <3> QED
      BY <1>2, <1>3, <3>1
  <2>2. CASE g # h
    <3>1. queueSetContainer'[h] = s /\ Stored' = Stored /\ Announced' = Announced
          /\ credit' = credit
      BY <1>1, <1>5, <2>2, Mapped
    <3> QED
      BY <1>4, <3>1
  <2> QED
    BY <2>1, <2>2
<1>6. ASSUME NEW g \in Handles, QS!Send(g)
      PROVE  Stored'[h] <= Occurrences(h, Announced'[queueSetContainer'[h]]) + credit'[h]
  <2> DEFINE t == queueSetContainer[g]
  <2>1. /\ t # NULL /\ queueSetContainer'[h] = s /\ s # NULL /\ credit'[h] = credit[h]
        /\ Stored' = [Stored EXCEPT ![g] = @ + 1]
        /\ Announced' = [Announced EXCEPT ![t] = Append(@, g)]
    BY <1>6, Mapped
  <2>2. t \in Handles /\ g \in Messages
    BY <1>1, <2>1 DEF Messages
  <2>3. /\ g = h => Occurrences(h, Append(Announced[s], g)) = Occurrences(h, Announced[s]) + 1
        /\ g # h => Occurrences(h, Append(Announced[s], g)) = Occurrences(h, Announced[s])
    BY <1>4, <2>1, <2>2, OccurrencesAppend
  <2>4. CASE g = h
    <3>1. Stored'[h] = Stored[h] + 1 /\ Announced'[s] = Append(Announced[s], g)
      BY <1>1, <1>4, <2>1, <2>2, <2>4
    <3> QED
      BY <1>4, <2>1, <2>3, <2>4, <3>1
  <2>5. CASE g # h
    <3>1. Stored'[h] = Stored[h]
      BY <1>1, <2>1, <2>5
    <3>2. Announced'[s] = Announced[s] \/ Announced'[s] = Append(Announced[s], g)
      BY <1>1, <1>4, <2>1, <2>2
    <3>3. Occurrences(h, Announced'[s]) = Occurrences(h, Announced[s])
      BY <2>3, <2>5, <3>2
    <3> QED
      BY <1>4, <2>1, <3>1, <3>3
  <2> QED
    BY <2>4, <2>5
<1>7. ASSUME NEW t \in Handles, QS!Select(t)
      PROVE  Stored'[h] <= Occurrences(h, Announced'[queueSetContainer'[h]]) + credit'[h]
  <2> DEFINE e == Head(Announced[t])
  <2>1. /\ Announced[t] # << >>
        /\ Announced' = [Announced EXCEPT ![t] = Tail(@)]
        /\ credit' = [credit EXCEPT ![e] = @ + 1]
        /\ queueSetContainer'[h] = s /\ s # NULL /\ Stored' = Stored
    BY <1>7, Mapped
  <2>2. credit'[h] = IF h = e THEN credit[h] + 1 ELSE credit[h]
    BY <1>1, <2>1
  <2>3. CASE t = s
    <3>1. Announced'[s] = Tail(Announced[s])
      BY <1>1, <1>4, <2>1, <2>3
    <3>2. /\ e = h => Occurrences(h, Announced[s]) = Occurrences(h, Tail(Announced[s])) + 1
          /\ e # h => Occurrences(h, Announced[s]) = Occurrences(h, Tail(Announced[s]))
      BY <1>4, <2>1, <2>3, OccurrencesTail
    <3> HIDE DEF e
    <3> QED
      BY <1>3, <1>4, <2>1, <2>2, <3>1, <3>2
  <2>4. CASE t # s
    <3>1. Announced'[s] = Announced[s]
      BY <1>1, <1>4, <2>1, <2>4
    <3> HIDE DEF e
    <3> QED
      BY <1>4, <2>1, <2>2, <3>1
  <2> QED
    BY <2>3, <2>4
<1>8. ASSUME NEW g \in Handles, QS!Receive(g)
      PROVE  Stored'[h] <= Occurrences(h, Announced'[queueSetContainer'[h]]) + credit'[h]
  <2>1. /\ Stored' = [Stored EXCEPT ![g] = @ - 1]
        /\ credit' = [credit EXCEPT ![g] = @ - 1]
        /\ queueSetContainer'[h] = s /\ s # NULL /\ Announced' = Announced
    BY <1>8, Mapped
  <2>2. \/ Stored'[h] = Stored[h] - 1 /\ credit'[h] = credit[h] - 1
        \/ Stored'[h] = Stored[h] /\ credit'[h] = credit[h]
    BY <1>1, <2>1
  <2> QED
    BY <1>4, <2>1, <2>2
<1>9. ASSUME NEW g \in Handles, QS!Leave(g)
      PROVE  Stored'[h] <= Occurrences(h, Announced'[queueSetContainer'[h]]) + credit'[h]
  <2>1. /\ queueSetContainer' = [queueSetContainer EXCEPT ![g] = NULL]
        /\ Stored' = Stored /\ Announced' = Announced /\ credit' = credit
    BY <1>9, Mapped
  <2>2. queueSetContainer'[h] = s /\ s # NULL
    BY <1>1, <2>1
  <2> QED
    BY <1>4, <2>1, <2>2
<1>10. CASE UNCHANGED QS!vars
  <2>1. /\ queueSetContainer' = queueSetContainer
        /\ Stored' = Stored /\ Announced' = Announced /\ credit' = credit
    BY <1>10, Mapped
  <2> QED
    BY <1>4, <2>1
<1> QED
  BY <1>5, <1>6, <1>7, <1>8, <1>9, <1>10 DEF QS!Next

\* With disciplined clients, whoever waits on a set misses no message of its
\* members, at any moment and for any number of sends ahead of the reader.
THEOREM NoEventIsLost ==
  ASSUME Disciplined
  PROVE  Spec => []NoLostEvent
<1>1. Init => Accounted
  BY DEF Init, Accounted
<1>2. SetInv /\ [Next]_vars => [QS!Next]_(QS!vars)
  BY StepMaps
<1>3. SetInv => BaseInv
  BY DEF SetInv
<1>4. BaseInv => (Accounted <=> NoLostEvent)
  BY AccountedMeans
<1>5. BaseInv /\ BaseInv' /\ Accounted /\ [QS!Next]_(QS!vars) => Accounted'
  BY StepKeepsAccounts
<1> QED
  BY <1>1, <1>2, <1>3, <1>4, <1>5, SetInvariance, PTL DEF Spec
=============================================================================
