------------------------------- MODULE QueueSet -------------------------------
(* What a queue set promises the client that waits on it: the messages of its *)
(* members and what it tells of them are one record.  A message is stored and *)
(* announced in one step, whatever else is in the set; announcements are      *)
(* claimed in the order of the messages; and for each one claimed there is a  *)
(* message to receive.                                                        *)
EXTENDS Naturals, Sequences

CONSTANTS
  Queues,
  NULL

VARIABLES
  memberOf,  \* the set that each queue is a member of, or NULL
  stored,    \* how many messages each member holds
  announced, \* what each set has still to tell, oldest first
  claimed    \* how often a set named each member to a client that has not
             \* received its message yet

vars == <<memberOf, stored, announced, claimed>>

Init ==
  /\ memberOf = [h \in Queues |-> NULL]
  /\ stored = [h \in Queues |-> 0]
  /\ announced = [s \in Queues |-> << >>]
  /\ claimed = [h \in Queues |-> 0]

\* A queue joins with nothing to its name.
Join(h, s) ==
  /\ memberOf[h] = NULL
  /\ stored[h] = 0 /\ claimed[h] = 0
  /\ \A i \in 1 .. Len(announced[s]) : announced[s][i] # h
  /\ memberOf' = [memberOf EXCEPT ![h] = s]
  /\ UNCHANGED <<stored, announced, claimed>>

\* Whoever sends to a member does not ask for room in the set.
Send(h) ==
  /\ memberOf[h] # NULL
  /\ stored' = [stored EXCEPT ![h] = @ + 1]
  /\ announced' = [announced EXCEPT ![memberOf[h]] = Append(@, h)]
  /\ UNCHANGED <<memberOf, claimed>>

Select(s) ==
  /\ announced[s] # << >>
  /\ announced' = [announced EXCEPT ![s] = Tail(@)]
  /\ claimed' = [claimed EXCEPT ![Head(announced[s])] = @ + 1]
  /\ UNCHANGED <<memberOf, stored>>

\* A message that was claimed is there.
Receive(h) ==
  /\ memberOf[h] # NULL
  /\ claimed[h] > 0
  /\ stored' = [stored EXCEPT ![h] = @ - 1]
  /\ claimed' = [claimed EXCEPT ![h] = @ - 1]
  /\ UNCHANGED <<memberOf, announced>>

Leave(h) ==
  /\ memberOf[h] # NULL
  /\ stored[h] = 0
  /\ memberOf' = [memberOf EXCEPT ![h] = NULL]
  /\ UNCHANGED <<stored, announced, claimed>>

Next ==
  \E h \in Queues :
    \/ \E s \in Queues : Join(h, s)
    \/ Send(h)
    \/ Select(h)
    \/ Receive(h)
    \/ Leave(h)

Spec == Init /\ [][Next]_vars
=============================================================================
