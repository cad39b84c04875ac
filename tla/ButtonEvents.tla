----------------------------- MODULE ButtonEvents -----------------------------
(* What the button service owes its observer.  A change of a button that      *)
(* occurs again before it was read is told once; one that occurs again while  *)
(* it is on its way to the observer is told again.  From its registration     *)
(* until the service is being destroyed an observer is told every change.     *)
EXTENDS Integers

CONSTANT Changes   \* a button was pressed, a button was released

VARIABLES
  owed,       \* how often each change is still to be told
  observer,   \* "none", "registered", or "leaving": the service is being destroyed
  told        \* the changes that were told last, in one call

vars == <<owed, observer, told>>

Init ==
  /\ owed = [c \in Changes |-> 0]
  /\ observer = "none"
  /\ told = {}

Occur ==
  /\ \E new \in SUBSET {c \in Changes : owed[c] < 2} :
       owed' = [c \in Changes |-> IF c \in new THEN owed[c] + 1 ELSE owed[c]]
  /\ UNCHANGED <<observer, told>>

Register ==
  /\ observer' = "registered"
  /\ UNCHANGED <<owed, told>>

Tell(now) ==
  /\ observer # "none"
  /\ now # {} /\ \A c \in now : owed[c] > 0
  /\ told' = now
  /\ owed' = [c \in Changes |-> IF c \in now THEN owed[c] - 1 ELSE owed[c]]
  /\ UNCHANGED observer

Leave ==
  /\ observer = "registered"
  /\ observer' = "leaving"
  /\ UNCHANGED <<owed, told>>

Gone ==
  /\ observer = "leaving"
  /\ observer' = "none"
  /\ UNCHANGED <<owed, told>>

\* Nobody has a right to be told of these changes.
Discard ==
  /\ observer # "registered"
  /\ owed' \in [Changes -> 0 .. 2]
  /\ \A c \in Changes : owed'[c] <= owed[c]
  /\ UNCHANGED <<observer, told>>

Next ==
  \/ Occur
  \/ Register
  \/ \E now \in SUBSET Changes : Tell(now)
  \/ Leave
  \/ Gone
  \/ Discard

Spec == Init /\ [][Next]_vars

TellAbout(c) ==
  observer = "registered" /\ \E now \in SUBSET Changes : c \in now /\ Tell(now)

\* Every change is told, as long as somebody stays to be told.
FairSpec == Spec /\ \A c \in Changes : WF_vars(TellAbout(c))
=============================================================================
